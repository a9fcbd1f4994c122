--------------------------- MODULE ApplicationProofs ---------------------------
(***************************************************************************)
(* Proofs about an application and its requests: RateLimiter with          *)
(* ClientIP, for any number of concurrent requests; Registry, for any      *)
(* number of goroutines and any operations, and the two together in        *)
(* Application; and Serving, the way of one request through the            *)
(* middleware, its handler and the commit of its response.                 *)
(***************************************************************************)
EXTENDS Serving, Application, SequenceTheorems, FiniteSetTheorems, WellFoundedInduction, TLAPS

--------------------------------------------------------------------------------
\* The walk of Context.ClientIP.  It is a recursive function, and what it computes is
\* proved by least counterexample.

\* A set of numbers that is not empty has a least element.
LEMMA Least ==
    ASSUME NEW T \in SUBSET Nat, T # {}
    PROVE  \E n \in T : \A m \in T : n <= m
<1>1. PICK n \in T : \A m \in T : ~(<<m, n>> \in OpToRel(<, Nat))
  BY NatLessThanWellFounded, WFMin, Zenon
<1>2. \A m \in T : ~(m < n)
  BY <1>1 DEF OpToRel
<1> QED
  BY <1>2

\* w is the walk along a chain from a peer, as far as step n.
WalkTo(n, peer, chain, w) ==
    w = [i \in 0..n |->
            IF i = 0 THEN peer
            ELSE IF IsTrustedProxy(w[i - 1]) THEN chain[Len(chain) - i + 1] ELSE w[i - 1]]

\* A walk that has come to step n - 1 can take the next step.
LEMMA WalkOn ==
    ASSUME NEW peer, NEW chain, NEW n \in Nat \ {0}, NEW w, WalkTo(n - 1, peer, chain, w)
    PROVE  \E v : WalkTo(n, peer, chain, v)
<1> DEFINE last == IF IsTrustedProxy(w[n - 1]) THEN chain[Len(chain) - n + 1] ELSE w[n - 1]
           v    == [i \in 0..n |-> IF i = n THEN last ELSE w[i]]
<1>1. \A i \in 0..(n - 1) : v[i] = w[i]
  OBVIOUS
<1>2. \A i \in 0..(n - 1) : i # 0 => v[i - 1] = w[i - 1]
  BY <1>1
<1>3. \A i \in 0..(n - 1) : w[i] = IF i = 0 THEN peer
          ELSE IF IsTrustedProxy(w[i - 1]) THEN chain[Len(chain) - i + 1] ELSE w[i - 1]
  <2> DEFINE F == [i \in 0..(n - 1) |->
            IF i = 0 THEN peer
            ELSE IF IsTrustedProxy(w[i - 1]) THEN chain[Len(chain) - i + 1] ELSE w[i - 1]]
  <2>1. w = F
    BY DEF WalkTo
  <2>2. \A i \in 0..(n - 1) : F[i] = IF i = 0 THEN peer
          ELSE IF IsTrustedProxy(w[i - 1]) THEN chain[Len(chain) - i + 1] ELSE w[i - 1]
    OBVIOUS
  <2> HIDE DEF F
  <2> QED
    BY <2>1, <2>2
<1>4. v[n] = last /\ v[n - 1] = w[n - 1]
  BY <1>1
<1>5. \A i \in 0..n : v[i] = IF i = 0 THEN peer
          ELSE IF IsTrustedProxy(v[i - 1]) THEN chain[Len(chain) - i + 1] ELSE v[i - 1]
  <2> TAKE i \in 0..n
  <2>1. CASE i = n
    BY <2>1, <1>4
  <2>2. CASE i \in 0..(n - 1)
    BY <2>2, <1>1, <1>2, <1>3
  <2> HIDE DEF v
  <2> QED
    BY <2>1, <2>2
<1>6. v = [i \in 0..n |-> v[i]]
  OBVIOUS
<1> HIDE DEF v
<1>7. WalkTo(n, peer, chain, v)
  BY <1>5, <1>6 DEF WalkTo
<1> QED
  BY <1>7

\* The walk along a chain exists, to its end.
LEMMA WalkExists ==
    ASSUME NEW peer, NEW chain, NEW n \in Nat
    PROVE  \E w : WalkTo(n, peer, chain, w)
<1> DEFINE T == {k \in Nat : ~ \E w : WalkTo(k, peer, chain, w)}
<1>1. SUFFICES ASSUME T # {} PROVE FALSE
  OBVIOUS
<1>2. PICK k \in T : \A m \in T : k <= m
  <2>1. T \in SUBSET Nat
    OBVIOUS
  <2> HIDE DEF T
  <2> QED
    BY <1>1, <2>1, Least
<1>3. WalkTo(0, peer, chain, [i \in 0..0 |-> peer])
  BY DEF WalkTo
<1>4. k # 0
  BY <1>3
<1>5. k - 1 \in Nat /\ k - 1 \notin T
  BY <1>2, <1>4
<1>6. PICK w : WalkTo(k - 1, peer, chain, w)
  BY <1>5
<1>7. \E v : WalkTo(k, peer, chain, v)
  BY <1>4, <1>6, WalkOn
<1> QED
  BY <1>7

\* Where a walk is after i steps: at a place of the chain, with the peer at its end, from
\* which on all are trusted proxies; it has gone on unless it is at an address that is none.
PlaceAfter(i, n, all, address) ==
    \E m \in (n + 1 - i)..(n + 1) :
        /\ address = all[m]
        /\ \A j \in (m + 1)..(n + 1) : IsTrustedProxy(all[j])
        /\ m = n + 1 - i \/ ~IsTrustedProxy(all[m])

\* The i-th address of the walk is at such a place.
LEMMA WalkPlace ==
    ASSUME NEW S, NEW peer \in S, NEW chain \in Seq(S), NEW w, WalkTo(Len(chain), peer, chain, w),
           NEW i \in 0..Len(chain)
    PROVE  PlaceAfter(i, Len(chain), Append(chain, peer), w[i])
<1> DEFINE n == Len(chain)
           all == Append(chain, peer)
           P(k, m) == /\ w[k] = all[m]
                      /\ \A j \in (m + 1)..(n + 1) : IsTrustedProxy(all[j])
                      /\ m = n + 1 - k \/ ~IsTrustedProxy(all[m])
           T == {k \in 0..n : ~ \E m \in (n + 1 - k)..(n + 1) : P(k, m)}
<1>1. SUFFICES ASSUME T # {} PROVE FALSE
  BY DEF PlaceAfter
<1>2. n \in Nat /\ all[n + 1] = peer /\ \A j \in 1..n : all[j] = chain[j]
  OBVIOUS
<1>3. PICK k \in T : \A m \in T : k <= m
  <2>1. T \in SUBSET Nat
    BY <1>2
  <2> HIDE DEF T
  <2> QED
    BY <1>1, <2>1, Least
<1>4. \A j \in 0..n : w[j] = IF j = 0 THEN peer
          ELSE IF IsTrustedProxy(w[j - 1]) THEN chain[n - j + 1] ELSE w[j - 1]
  <2> DEFINE F == [j \in 0..n |->
            IF j = 0 THEN peer
            ELSE IF IsTrustedProxy(w[j - 1]) THEN chain[n - j + 1] ELSE w[j - 1]]
  <2>1. w = F
    BY DEF WalkTo
  <2>2. \A j \in 0..n : F[j] = IF j = 0 THEN peer
          ELSE IF IsTrustedProxy(w[j - 1]) THEN chain[n - j + 1] ELSE w[j - 1]
    OBVIOUS
  <2> HIDE DEF F
  <2> QED
    BY <2>1, <2>2
<1> HIDE DEF n, all
<1>5. k \in 0..n /\ \A m \in (n + 1 - k)..(n + 1) : ~P(k, m)
  BY <1>3
<1>6. k # 0
  <2>1. w[0] = peer
    BY <1>2, <1>4
  <2>2. P(0, n + 1)
    BY <1>2, <2>1
  <2> HIDE DEF P
  <2> QED
    BY <1>2, <1>5, <2>2
<1>7. PICK m \in (n + 1 - (k - 1))..(n + 1) : P(k - 1, m)
  <2>1. k - 1 \in 0..n /\ k - 1 \notin T
    BY <1>2, <1>3, <1>5, <1>6
  <2> QED
    BY <2>1
<1>8. CASE IsTrustedProxy(w[k - 1])
  <2>1. w[k] = chain[n - k + 1]
    BY <1>2, <1>4, <1>5, <1>6, <1>8
  <2>2. w[k] = all[n + 1 - k]
    <3>1. n - k + 1 \in 1..n /\ n + 1 - k = n - k + 1
      BY <1>2, <1>5, <1>6
    <3>2. all[n - k + 1] = chain[n - k + 1]
      BY <1>2, <3>1
    <3> QED
      BY <2>1, <3>1, <3>2
  <2>3. m = n + 1 - (k - 1)
    BY <1>7, <1>8
  <2>4. \A j \in (n + 1 - k + 1)..(n + 1) : IsTrustedProxy(all[j])
    <3> TAKE j \in (n + 1 - k + 1)..(n + 1)
    <3>1. CASE j = m
      BY <1>7, <1>8, <3>1
    <3>2. CASE j \in (m + 1)..(n + 1)
      BY <1>7, <3>2
    <3> QED
      BY <1>2, <1>5, <2>3, <3>1, <3>2
  <2>5. P(k, n + 1 - k)
    BY <2>2, <2>4
  <2> HIDE DEF P
  <2> QED
    BY <1>2, <1>5, <2>5
<1>9. CASE ~IsTrustedProxy(w[k - 1])
  <2>1. w[k] = w[k - 1]
    BY <1>2, <1>4, <1>5, <1>6, <1>9
  <2>2. P(k, m)
    BY <1>7, <1>9, <2>1
  <2>3. m \in (n + 1 - k)..(n + 1)
    BY <1>2, <1>5, <1>7
  <2> HIDE DEF P
  <2> QED
    BY <1>5, <2>2, <2>3
<1> QED
  BY <1>8, <1>9

\* The walk that ClientIP takes.
Walked(r) ==
    CHOOSE w : w = [i \in 0..Len(ForwardedChain(r)) |->
                       IF i = 0 THEN r.peer
                       ELSE IF IsTrustedProxy(w[i - 1])
                            THEN ForwardedChain(r)[Len(ForwardedChain(r)) - i + 1] ELSE w[i - 1]]

\* The peer and the chain of a request are addresses.
LEMMA ChainTyped ==
    ASSUME NEW r \in Arrivals
    PROVE  r.peer \in Addresses /\ ForwardedChain(r) \in Seq(Addresses)
<1>1. r.peer \in Addresses
  BY DEF Addresses
<1>2. r.forwarded \in Seq(Addresses) /\ r.xff \in Seq(Addresses) /\ r.real \in Seq(Addresses)
  BY ArrivalsAssumption
<1> QED
  BY <1>1, <1>2 DEF ForwardedChain

\* The recursive function is a walk.
LEMMA WalkedIsWalk ==
    ASSUME NEW r \in Arrivals
    PROVE  WalkTo(Len(ForwardedChain(r)), r.peer, ForwardedChain(r), Walked(r))
<1>1. Len(ForwardedChain(r)) \in Nat
  BY ChainTyped
<1>2. PICK w : WalkTo(Len(ForwardedChain(r)), r.peer, ForwardedChain(r), w)
  BY <1>1, WalkExists
<1> QED
  BY <1>2 DEF WalkTo, Walked

\* ClientIP answers with a place of the walk.
LEMMA ClientIPWalks ==
    ASSUME NEW r \in Arrivals, ClientIP(r) # Bad
    PROVE  ClientIP(r) = Walked(r)[IF IsTrustedProxy(r.peer) THEN Len(ForwardedChain(r)) ELSE 0]
BY DEF ClientIP, Walked

\* The maximum of a set is the element that none exceeds.
LEMMA MaxIs ==
    ASSUME NEW S \in SUBSET Int, NEW m \in S, \A j \in S : j <= m
    PROVE  Max(S) = m
<1>1. \A j \in S : m >= j
  OBVIOUS
<1>2. Max(S) \in S /\ \A j \in S : Max(S) >= j
  BY <1>1 DEF Max
<1>3. Max(S) \in Int /\ m \in Int /\ Max(S) >= m /\ m >= Max(S)
  BY <1>1, <1>2
<1> QED
  BY <1>3

\* ClientIP finds the address a request is to be charged to.
LEMMA ClientIPIsCharged ==
    ASSUME NEW r \in Arrivals, ClientIP(r) # Bad
    PROVE  ClientIP(r) = Charged(r) /\ ClientIP(r) \in Addresses
<1> DEFINE chain == ForwardedChain(r)
           n == Len(chain)
           w == Walked(r)
<1>1. chain \in Seq(Addresses) /\ r.peer \in Addresses /\ n \in Nat
  BY ChainTyped
<1>2. WalkTo(n, r.peer, chain, w)
  BY WalkedIsWalk
<1>3. CASE ~IsTrustedProxy(r.peer)
  <2>1. w[0] = r.peer
    BY <1>1, <1>2 DEF WalkTo
  <2>2. ClientIP(r) = r.peer
    BY <1>3, <2>1, ClientIPWalks
  <2>3. Charged(r) = r.peer
    <3> DEFINE all == <<>> \o <<r.peer>>
               untrusted == {i \in DOMAIN all : ~IsTrustedProxy(all[i])}
    <3>1. all = <<r.peer>> /\ DOMAIN all = {1} /\ all[1] = r.peer
      OBVIOUS
    <3>2. untrusted = {1}
      BY <1>3, <3>1
    <3>3. Max(untrusted) = 1
      BY <3>2 DEF Max
    <3>4. Charged(r) = all[IF untrusted = {} THEN 1 ELSE Max(untrusted)]
      BY <1>3 DEF Charged
    <3> QED
      BY <3>1, <3>2, <3>3, <3>4
  <2> QED
    BY <1>1, <2>2, <2>3
<1>4. CASE IsTrustedProxy(r.peer)
  <2> DEFINE all == chain \o <<r.peer>>
             untrusted == {i \in DOMAIN all : ~IsTrustedProxy(all[i])}
  <2>1. all = Append(chain, r.peer) /\ DOMAIN all = 1..(n + 1) /\ \A i \in 1..(n + 1) : all[i] \in Addresses
    <3> HIDE DEF chain
    <3> QED
      BY <1>1
  <2>2. Charged(r) = all[IF untrusted = {} THEN 1 ELSE Max(untrusted)]
    BY <1>4 DEF Charged
  <2>3. PICK m \in (n + 1 - n)..(n + 1) :
              /\ w[n] = all[m]
              /\ \A j \in (m + 1)..(n + 1) : IsTrustedProxy(all[j])
              /\ m = n + 1 - n \/ ~IsTrustedProxy(all[m])
    <3>1. n \in 0..n
      BY <1>1
    <3> HIDE DEF w, chain, n, all
    <3>2. n = Len(chain)
      BY DEF n
    <3>3. WalkTo(Len(chain), r.peer, chain, w) /\ Len(chain) \in 0..Len(chain)
      BY <1>2, <3>1, <3>2
    <3>4. PlaceAfter(Len(chain), Len(chain), Append(chain, r.peer), w[Len(chain)])
      BY <1>1, <3>3, WalkPlace
    <3>5. PlaceAfter(n, n, all, w[n])
      BY <2>1, <3>2, <3>4
    <3> QED
      BY <3>5 DEF PlaceAfter
  <2>4. ClientIP(r) = all[m]
    BY <1>4, <2>3, ClientIPWalks
  <2> HIDE DEF all, n
  <2>5. CASE IsTrustedProxy(all[m])
    <3>1. m = 1
      BY <1>1, <2>3, <2>5
    <3>2. untrusted = {}
      BY <1>1, <2>1, <2>3, <2>5, <3>1
    <3> QED
      BY <1>1, <2>1, <2>2, <2>4, <3>1, <3>2
  <2>6. CASE ~IsTrustedProxy(all[m])
    <3>1. m \in untrusted /\ untrusted \in SUBSET Int
      BY <1>1, <2>1, <2>3, <2>6
    <3>2. \A j \in untrusted : j <= m
      BY <1>1, <2>1, <2>3
    <3> HIDE DEF untrusted
    <3>3. Max(untrusted) = m
      BY <3>1, <3>2, MaxIs
    <3> QED
      BY <1>1, <2>1, <2>2, <2>3, <2>4, <3>1, <3>3
  <2> QED
    BY <2>5, <2>6
<1> QED
  BY <1>3, <1>4

\* So the key of a request that is let through is one of Keys.
LEMMA KeyIsKnown ==
    ASSUME NEW r \in Arrivals, ClientIP(r) # Bad
    PROVE  KeyOf(ClientIP(r)) \in Keys
BY ClientIPIsCharged DEF Keys

--------------------------------------------------------------------------------
\* What an account has given away.  Held: with so many granted and so many parts of a
\* token in its bucket it has given no more than it may have after a time of e.  Spent:
\* that holds even for a full bucket.

Held(g, tokens, e) == g * Window + tokens <= Burst * Window + Rate * e
Spent(g, e) == g * Window <= Rate * e

\* The configuration of the limiter, as the other lemmas cite it.
LEMMA Constants ==
    Rate \in Nat \ {0} /\ Window \in Nat \ {0} /\ Burst \in Nat \ {0} /\ MaxKeys \in Nat \ {0} /\ Burst <= Rate
BY ConfigAssumption

\* Multiplication, for products of variables.
LEMMA Distributes ==
    ASSUME NEW a \in Int, NEW b \in Int, NEW c \in Int
    PROVE  a * (b + c) = a * b + a * c /\ a * b \in Int /\ a * b = b * a
OBVIOUS

\* Multiplication by a natural number keeps the order.
LEMMA Monotone ==
    ASSUME NEW a \in Nat, NEW b \in Int, NEW c \in Int, b <= c
    PROVE  a * b <= a * c
<1>1. a * c = a * b + a * (c - b)
  BY Distributes
<1>2. c - b \in Nat
  OBVIOUS
<1>3. a * (c - b) \in Nat
  BY <1>2
<1> QED
  BY <1>1, <1>3, Distributes

\* A request that passes pays what it adds to the account.
LEMMA HeldPays ==
    ASSUME NEW g \in Nat, NEW tokens \in Int, NEW e \in Int, Held(g, tokens, e)
    PROVE  Held(g + 1, tokens - Window, e)
<1>1. (g + 1) * Window = g * Window + Window
  BY Constants
<1> QED
  BY <1>1, Constants DEF Held

\* Time that passes brings no more than it pays for.
LEMMA HeldGrows ==
    ASSUME NEW g \in Nat, NEW tokens \in Int, NEW e \in Int, Held(g, tokens, e),
           NEW d \in Nat, NEW more \in Int, more <= tokens + d * Rate
    PROVE  Held(g, more, e + d)
<1>1. Rate * (e + d) = Rate * e + Rate * d /\ Rate * d = d * Rate
  BY Constants, Distributes
<1>2. Rate * e \in Int /\ Rate * d \in Int /\ g * Window \in Int /\ Burst * Window \in Int /\ d * Rate \in Int
  BY Constants
<1>3. g * Window + tokens <= Burst * Window + Rate * e
  BY DEF Held
<1>4. g * Window + more <= Burst * Window + Rate * (e + d)
  BY <1>1, <1>2, <1>3
<1> QED
  BY <1>4 DEF Held

\* A bucket nobody was let through by for a window is full again, since Burst <= Rate.
LEMMA HeldIsSpent ==
    ASSUME NEW g \in Nat, NEW e \in Int, Held(g, 0, e), NEW d \in Int, d >= Window
    PROVE  Spent(g, e + d)
<1>1. Rate * (e + d) = Rate * e + Rate * d
  BY Constants, Distributes
<1>2. Rate * Window <= Rate * d
  BY Constants, Monotone
<1>3. Window * Burst <= Window * Rate
  BY Constants, Monotone
<1>4. Burst * Window <= Rate * Window
  BY <1>3, Constants, Distributes
<1>5. Rate * e \in Int /\ Rate * d \in Int /\ g * Window \in Int /\ Burst * Window \in Int /\ Rate * Window \in Int
  BY Constants
<1>6. g * Window <= Burst * Window + Rate * e
  BY <1>5 DEF Held
<1>7. g * Window <= Rate * (e + d)
  BY <1>1, <1>2, <1>4, <1>5, <1>6
<1> QED
  BY <1>7 DEF Spent

\* A bucket made anew is full, and may be if the account is no more than refilled.
LEMMA SpentIsHeld ==
    ASSUME NEW g \in Nat, NEW e \in Int, Spent(g, e)
    PROVE  Held(g, Burst * Window, e)
<1>1. Rate * e \in Int /\ g * Window \in Int /\ Burst * Window \in Int
  BY Constants
<1> QED
  BY <1>1 DEF Spent, Held

\* Time only widens the account.
LEMMA SpentGrows ==
    ASSUME NEW g \in Nat, NEW e \in Int, NEW f \in Int, e <= f, Spent(g, e)
    PROVE  Spent(g, f)
<1>1. Rate * e <= Rate * f
  BY Constants, Monotone
<1>2. Rate * e \in Int /\ g * Window \in Int /\ Rate * f \in Int
  BY Constants
<1> QED
  BY <1>1, <1>2 DEF Spent

\* An account that was never used; one whose bucket was forgotten, at a time at which it had
\* been full; and one with a bucket.  The last part of Live is what a bucket owes since it
\* last let a request pass: it is what makes forgetting harmless, and is not to be had from
\* the part before it, since the time may have been set back.
Unused(b, g, f, l, w) == b = NoBucket /\ g = 0 /\ f = Never /\ l = Never /\ w = 0
Dormant(b, g, f, l, w) == b = NoBucket /\ f # Never /\ Spent(g, l - f + w)
Live(b, g, f, l, w) ==
    /\ b.updated = l /\ l # Never /\ b.seen # Never /\ f # Never
    /\ Held(g, b.tokens, l - f + w)
    /\ Held(g, 0, b.seen - f + w)

Sound(b, g, f, l, w) ==
    Unused(b, g, f, l, w) \/ Dormant(b, g, f, l, w) \/ Live(b, g, f, l, w)

Bucket == [tokens: 0..(Burst * Window), updated: Nat, seen: Nat]

\* Two fields of a bucket change at once.
LEMMA Paid ==
    ASSUME NEW T, NEW b \in [tokens: T, updated: Nat, seen: Nat], NEW x, NEW t
    PROVE  [b EXCEPT !.tokens = x, !.seen = t] = [tokens |-> x, updated |-> b.updated, seen |-> t]
<1> DEFINE q == [b EXCEPT !.tokens = x]
           p == [q EXCEPT !.seen = t]
<1>1. b = [tokens |-> b.tokens, updated |-> b.updated, seen |-> b.seen]
  OBVIOUS
<1>2. q = [tokens |-> x, updated |-> b.updated, seen |-> b.seen]
  BY <1>1
<1> HIDE DEF q
<1>3. p = [tokens |-> x, updated |-> b.updated, seen |-> t]
  BY <1>2
<1> QED
  BY <1>3 DEF q

\* Forgetting a stale bucket keeps its account sound.
LEMMA ForgetKeeps ==
    ASSUME NEW b \in Bucket, NEW g \in Nat, NEW f \in Nat, NEW l \in Nat, NEW w \in Nat, NEW t \in Nat,
           Sound(b, g, f, l, w), b # NoBucket, Stale(b, t)
    PROVE  Sound(NoBucket, g, f, t, w)
<1>1. Live(b, g, f, l, w)
  BY DEF Sound, Unused, Dormant
<1>2. b.seen \in Nat /\ Held(g, 0, b.seen - f + w) /\ f # Never
  BY <1>1 DEF Live, Bucket
<1>3. t - b.seen \in Int /\ t - b.seen >= Window
  BY <1>2 DEF Stale
<1>4. Spent(g, (b.seen - f + w) + (t - b.seen))
  BY <1>2, <1>3, HeldIsSpent
<1>5. (b.seen - f + w) + (t - b.seen) = t - f + w
  BY <1>2
<1>6. Spent(g, t - f + w)
  BY <1>4, <1>5
<1> QED
  BY <1>2, <1>6 DEF Sound, Dormant

\* What a request at time t makes of an account, b being its bucket and l the time it was
\* last given.
LEMMA AllowKeeps ==
    ASSUME NEW b \in Bucket, NEW g \in Nat, NEW f \in Nat, NEW l \in Nat, NEW w \in Nat,
           NEW t \in Nat \ {0}, Sound(b, g, f, l, w)
    PROVE  LET r == Refilled(b, t) IN
           /\ Pays(r, t) \in Bucket /\ Pays(r, t) # NoBucket
           /\ Sound(Pays(r, t), IF r.tokens >= Window THEN g + 1 ELSE g, IF f = Never THEN t ELSE f,
                    t, w + (IF t < l THEN l - t ELSE 0))
<1> DEFINE r == Refilled(b, t)
           back == IF t < l THEN l - t ELSE 0
           F == IF f = Never THEN t ELSE f
           e == l - f + w
           E == t - F + (w + back)
           full == Burst * Window
<1>1. full \in Nat /\ full >= Window
  <2>1. Window * 1 <= Window * Burst
    BY Constants, Monotone
  <2> QED
    BY <2>1, Constants
<1>2. back \in Nat /\ F \in Nat \ {0} /\ E \in Int
  BY DEF Never
<1>3. r \in Bucket /\ r.updated = t /\ (r.seen = b.seen \/ r.seen = Never)
      /\ Held(g, r.tokens, E) /\ (r.tokens >= Window \/ (r.seen # Never /\ Held(g, 0, r.seen - F + (w + back))))
  <2>1. CASE b.updated = Never
    <3>1. r = [tokens |-> full, updated |-> t, seen |-> Never]
      BY <2>1 DEF Refilled
    <3>2. Spent(g, E)
      <4>1. CASE Unused(b, g, f, l, w)
        <5>1. g = 0 /\ F = t /\ back = 0 /\ w = 0
          BY <4>1 DEF Unused, Never
        <5>2. E = 0
          BY <5>1
        <5>3. 0 * Window <= Rate * 0
          BY Constants
        <5> QED
          BY <5>1, <5>2, <5>3 DEF Spent
      <4>2. CASE Dormant(b, g, f, l, w)
        <5>1. F = f /\ Spent(g, e)
          BY <4>2 DEF Dormant
        <5>2. e \in Int /\ e <= E
          BY <5>1
        <5> HIDE DEF e, E
        <5> QED
          BY <1>2, <5>1, <5>2, SpentGrows
      <4>3. CASE Live(b, g, f, l, w)
        BY <2>1, <4>3 DEF Live
      <4> QED
        BY <4>1, <4>2, <4>3 DEF Sound
    <3>3. Held(g, full, E)
      <4> HIDE DEF E
      <4> QED
        BY <1>2, <3>2, SpentIsHeld
    <3> HIDE DEF E, full
    <3>4. [tokens |-> full, updated |-> t, seen |-> Never] \in Bucket
      BY <1>1 DEF Bucket, Never, full
    <3> QED
      BY <1>1, <3>1, <3>3, <3>4
  <2>2. CASE b.updated # Never
    <3>1. Live(b, g, f, l, w)
      BY <2>2 DEF Sound, Unused, Dormant, NoBucket
    <3>2. b.updated = l /\ b.seen # Never /\ F = f /\ Held(g, b.tokens, e) /\ Held(g, 0, b.seen - F + w)
      BY <3>1 DEF Live
    <3>3. b.tokens \in 0..full /\ b.seen \in Nat /\ b.updated \in Nat
      BY DEF Bucket
    <3>4. r.updated = t /\ r.seen = b.seen /\ r = [tokens |-> r.tokens, updated |-> t, seen |-> b.seen]
          /\ r.tokens = IF t > l THEN Min({full, b.tokens + (t - l) * Rate}) ELSE b.tokens
      BY <2>2, <3>2 DEF Refilled, Bucket
    <3>5. r.tokens \in 0..full /\ Held(g, r.tokens, E)
      <4>1. CASE t > l
        <5> DEFINE more == b.tokens + (t - l) * Rate
        <5>1. t - l \in Nat /\ more \in Nat
          BY <3>3, <4>1, Constants
        <5>2. r.tokens \in 0..full /\ r.tokens <= more
          <6> HIDE DEF more, full
          <6>1. Min({full, more}) = full \/ Min({full, more}) = more
            BY <1>1, <5>1 DEF Min
          <6>2. Min({full, more}) <= full /\ Min({full, more}) <= more
            BY <1>1, <5>1 DEF Min
          <6> QED
            BY <1>1, <3>4, <4>1, <5>1, <6>1, <6>2 DEF more
        <5>3. E = e + (t - l) /\ e \in Int
          BY <3>2, <4>1
        <5>4. b.tokens \in Int /\ r.tokens \in Int
          BY <1>1, <3>3, <5>2
        <5> HIDE DEF e, E
        <5>5. Held(g, r.tokens, e + (t - l))
          BY <3>2, <5>1, <5>2, <5>3, <5>4, HeldGrows
        <5> QED
          BY <5>2, <5>3, <5>5
      <4>2. CASE ~(t > l)
        <5>1. E = e
          BY <3>2, <4>2
        <5> HIDE DEF e, E
        <5> QED
          BY <3>2, <3>3, <3>4, <4>2, <5>1
      <4> QED
        BY <4>1, <4>2
    <3>6. Held(g, 0, r.seen - F + (w + back))
      <4> DEFINE o == b.seen - F + w
      <4>1. o \in Int /\ b.seen - F + (w + back) = o + back
        BY <1>2, <3>3
      <4>2. 0 <= 0 + back * Rate
        BY <1>2, Constants
      <4> HIDE DEF o, back, F
      <4>3. Held(g, 0, o + back)
        BY <1>2, <3>2, <4>1, <4>2, HeldGrows DEF o
      <4> QED
        BY <3>4, <4>1, <4>3
    <3>7. [tokens |-> r.tokens, updated |-> t, seen |-> b.seen] \in Bucket
      BY <3>3, <3>5 DEF Bucket
    <3>8. r \in Bucket
      <4> HIDE DEF r
      <4> QED
        BY <3>4, <3>7
    <3> HIDE DEF r, E, F, back
    <3> QED
      BY <3>2, <3>4, <3>5, <3>6, <3>8
  <2> QED
    BY <2>1, <2>2
<1> HIDE DEF r
<1>4. r.tokens \in 0..full /\ r.seen \in Nat /\ r.updated \in Nat
  BY <1>3 DEF Bucket
<1>5. CASE r.tokens >= Window
  <2> DEFINE p == [r EXCEPT !.tokens = @ - Window, !.seen = t]
  <2>1. Pays(r, t) = p
    BY <1>5 DEF Pays
  <2>2. p.tokens = r.tokens - Window /\ p.seen = t /\ p.updated = t
        /\ p = [tokens |-> r.tokens - Window, updated |-> t, seen |-> t]
    <3>1. r \in Bucket /\ r.updated = t
      BY <1>3
    <3> DEFINE x == r.tokens - Window
    <3>2. p = [r EXCEPT !.tokens = x, !.seen = t]
      OBVIOUS
    <3> HIDE DEF x, p
    <3>3. p = [tokens |-> x, updated |-> r.updated, seen |-> t]
      BY <3>1, <3>2, Paid DEF Bucket
    <3> QED
      BY <3>1, <3>3 DEF x
  <2>3. r.tokens - Window \in 0..full
    BY <1>1, <1>4, <1>5, Constants
  <2>4. p \in Bucket
    BY <2>2, <2>3 DEF Bucket
  <2>5. p # NoBucket
    BY <2>2 DEF NoBucket, Never
  <2>6. Held(g + 1, p.tokens, E)
    <3> HIDE DEF E, p
    <3> QED
      BY <1>2, <1>3, <1>4, <2>2, HeldPays
  <2>7. Held(g + 1, 0, E)
    <3>1. p.tokens \in Int /\ 0 <= p.tokens + 0 * Rate /\ E + 0 = E
      BY <1>2, <2>2, <2>3, Constants
    <3> HIDE DEF E, p
    <3> QED
      BY <1>2, <2>6, <3>1, HeldGrows
  <2>8. Live(p, g + 1, F, t, w + back)
    <3> HIDE DEF p, F, back
    <3> QED
      BY <1>2, <2>2, <2>6, <2>7 DEF Live, Never
  <2> HIDE DEF p, F, back
  <2>9. Sound(Pays(r, t), IF r.tokens >= Window THEN g + 1 ELSE g, F, t, w + back)
    BY <1>5, <2>1, <2>8 DEF Sound
  <2> QED
    BY <2>1, <2>4, <2>5, <2>9 DEF F, back, r
<1>6. CASE ~(r.tokens >= Window)
  <2>1. Pays(r, t) = r
    BY <1>6 DEF Pays
  <2>2. r # NoBucket
    BY <1>3 DEF NoBucket, Never
  <2>3. Live(r, g, F, t, w + back)
    <3> HIDE DEF F, back
    <3> QED
      BY <1>2, <1>3, <1>6 DEF Live, Never
  <2> HIDE DEF F, back
  <2>4. Sound(Pays(r, t), IF r.tokens >= Window THEN g + 1 ELSE g, F, t, w + back)
    BY <1>6, <2>1, <2>3 DEF Sound
  <2> QED
    BY <1>3, <2>1, <2>2, <2>4 DEF F, back, r
<1> QED
  BY <1>5, <1>6

--------------------------------------------------------------------------------
\* The inductive invariant of the limiter.

Account(a) == Sound(buckets[a], granted[a], first[a], latest[a], rewound[a])

\* Every account is sound.
AccountInv == \A a \in Accounts : Account(a)

\* A request that waits has an address, and has read the clock when it asks.
ReadInv ==
    \A c \in Clients :
        /\ turn[c] # "away" => ClientIP(incoming[c]) # Bad
        /\ turn[c] = "limit" => now[c] # Never

\* The keys that have a bucket.
Opened == {k \in Keys : buckets[k] # NoBucket}

RoomInv == IsFiniteSet(Opened) /\ Cardinality(Opened) <= MaxKeys

LimiterInv == LimiterTypeOK /\ ReadInv /\ AccountInv /\ RoomInv

\* No bucket is one as far as its type goes.
LEMMA NoBucketTyped == NoBucket \in Bucket
<1>1. Burst * Window \in Nat
  BY Constants
<1> QED
  BY <1>1 DEF NoBucket, Bucket, Never

\* The invariant of the limiter holds at the start.
LEMMA LimiterInitInv == LimiterInit => LimiterInv
<1> SUFFICES ASSUME LimiterInit PROVE LimiterInv
  OBVIOUS
<1>1. LimiterTypeOK
  <2>1. incoming \in [Clients -> Arrivals]
    BY ArrivalsAssumption DEF LimiterInit
  <2>2. buckets \in [Accounts -> Bucket]
    BY NoBucketTyped DEF LimiterInit
  <2> QED
    BY <2>1, <2>2 DEF LimiterInit, LimiterTypeOK, Bucket, Never
<1>2. ReadInv
  BY DEF LimiterInit, ReadInv
<1>3. AccountInv
  BY DEF LimiterInit, AccountInv, Account, Sound, Unused, Never
<1>4. RoomInv
  <2>1. Opened = {}
    BY DEF LimiterInit, Opened, Accounts
  <2> QED
    BY <2>1, FS_EmptySet, Constants DEF RoomInv
<1> QED
  BY <1>1, <1>2, <1>3, <1>4 DEF LimiterInv

\* A step that leaves the buckets and the accounts alone.
LEMMA BucketsAside ==
    ASSUME AccountInv, RoomInv, UNCHANGED <<buckets, accountVars>>
    PROVE  AccountInv' /\ RoomInv'
<1>1. AccountInv'
  BY DEF AccountInv, Account, accountVars
<1>2. Opened' = Opened
  BY DEF Opened
<1> QED
  BY <1>1, <1>2 DEF RoomInv

\* The clock keeps it.
LEMMA TimePassesKeeps == LimiterInv /\ TimePasses => LimiterInv'
<1> SUFFICES ASSUME LimiterInv, TimePasses PROVE LimiterInv'
  OBVIOUS
<1>1. LimiterTypeOK'
  <2>1. LimiterTypeOK /\ clock' = clock + 1 /\ UNCHANGED <<buckets, nextCleanup, turn, arrived, incoming, now, accountVars>>
    BY DEF LimiterInv, TimePasses
  <2>2. 0..clock \subseteq 0..clock'
    BY <2>1 DEF LimiterTypeOK
  <2> QED
    BY <2>1, <2>2 DEF LimiterTypeOK, accountVars
<1>2. ReadInv'
  BY DEF LimiterInv, TimePasses, ReadInv
<1>3. AccountInv' /\ RoomInv'
  BY BucketsAside DEF LimiterInv, TimePasses
<1> QED
  BY <1>1, <1>2, <1>3 DEF LimiterInv

\* An arrival keeps it.
LEMMA ArriveKeeps ==
    ASSUME LimiterInv, NEW c \in Clients, NEW r \in Arrivals, Arrive(c, r)
    PROVE  LimiterInv'
<1>1. LimiterTypeOK'
  <2>1. LimiterTypeOK
    BY DEF LimiterInv
  <2>2. turn' \in [Clients -> {"away", "clock", "limit"}] /\ incoming' \in [Clients -> Arrivals] /\ arrived' \in Nat
    BY <2>1 DEF Arrive, LimiterTypeOK
  <2> QED
    BY <2>1, <2>2 DEF Arrive, LimiterTypeOK, accountVars
<1>2. ReadInv'
  BY DEF LimiterInv, LimiterTypeOK, Arrive, ReadInv
<1>3. AccountInv' /\ RoomInv'
  BY BucketsAside DEF LimiterInv, Arrive
<1> QED
  BY <1>1, <1>2, <1>3 DEF LimiterInv

\* A request that reads the clock keeps it.
LEMMA ReadClockKeeps ==
    ASSUME LimiterInv, NEW c \in Clients, ReadClock(c)
    PROVE  LimiterInv'
<1>1. LimiterTypeOK'
  <2>1. LimiterTypeOK
    BY DEF LimiterInv
  <2>2. turn' \in [Clients -> {"away", "clock", "limit"}] /\ now' \in [Clients -> 0..clock]
    BY <2>1 DEF ReadClock, LimiterTypeOK
  <2> QED
    BY <2>1, <2>2 DEF ReadClock, LimiterTypeOK, accountVars
<1>2. ReadInv'
  BY DEF LimiterInv, LimiterTypeOK, ReadClock, ReadInv, Never
<1>3. AccountInv' /\ RoomInv'
  BY BucketsAside DEF LimiterInv, ReadClock
<1> QED
  BY <1>1, <1>2, <1>3 DEF LimiterInv

\* Keys name no overflow bucket.
LEMMA OverflowIsNoKey == Overflow \notin Keys
BY DEF Overflow, Keys, KeyOf

\* allow keeps it: the clean-up, the choice of the bucket, the refill and the payment.
LEMMA AllowStepKeeps ==
    ASSUME LimiterInv, NEW c \in Clients, Allow(c)
    PROVE  LimiterInv'
<1> DEFINE t       == now[c]
           key     == KeyOf(ClientIP(incoming[c]))
           gone    == Forgotten(t)
           kept    == [a \in Accounts |-> IF a \in gone THEN NoBucket ELSE buckets[a]]
           left    == {k \in Keys : kept[k] # NoBucket}
           full    == Cardinality(left) >= MaxKeys
           account == IF kept[key] = NoBucket /\ full THEN Overflow ELSE key
           bucket  == Refilled(kept[account], t)
           before  == IF account \in gone THEN t ELSE latest[account]
<1>1. /\ turn[c] = "limit"
      /\ turn' = [turn EXCEPT ![c] = "away"]
      /\ buckets' = [kept EXCEPT ![account] = Pays(bucket, t)]
      /\ nextCleanup' = NextCleanup(t)
      /\ granted' = [granted EXCEPT ![account] = IF bucket.tokens >= Window THEN @ + 1 ELSE @]
      /\ first' = [first EXCEPT ![account] = IF @ = Never THEN t ELSE @]
      /\ rewound' = [rewound EXCEPT ![account] = @ + (IF t < before THEN before - t ELSE 0)]
      /\ latest' = [a \in Accounts |-> IF a = account \/ a \in gone THEN t ELSE latest[a]]
      /\ UNCHANGED <<clock, arrived, incoming, now>>
  BY DEF Allow
<1>2. LimiterTypeOK /\ ReadInv /\ AccountInv /\ RoomInv
  BY DEF LimiterInv
<1>3. t \in Nat \ {0} /\ t \in 0..clock /\ key \in Keys
  <2>1. now[c] \in 0..clock /\ clock \in Nat /\ incoming[c] \in Arrivals
    BY <1>2 DEF LimiterTypeOK
  <2>2. now[c] # Never /\ ClientIP(incoming[c]) # Bad
    BY <1>1, <1>2 DEF ReadInv
  <2> QED
    BY <2>1, <2>2, KeyIsKnown DEF Never
<1>4. gone \subseteq Keys /\ \A a \in gone : buckets[a] # NoBucket /\ Stale(buckets[a], t)
  BY DEF Forgotten
<1>5. Keys \subseteq Accounts /\ Overflow \in Accounts
  BY DEF Accounts
<1>6. account \in Accounts
  BY <1>3, <1>5
<1>7. \A a \in Accounts : /\ buckets[a] \in Bucket /\ granted[a] \in Nat /\ first[a] \in Nat
                          /\ latest[a] \in Nat /\ latest[a] \in 0..clock /\ rewound[a] \in Nat
  BY <1>2 DEF LimiterTypeOK, Bucket
<1> HIDE DEF t, key, gone, left, full, account
<1>8. \A a \in Accounts :
         /\ kept[a] \in Bucket
         /\ Sound(kept[a], granted[a], first[a], IF a \in gone THEN t ELSE latest[a], rewound[a])
  <2> TAKE a \in Accounts
  <2>1. Sound(buckets[a], granted[a], first[a], latest[a], rewound[a])
    BY <1>2 DEF AccountInv, Account
  <2>2. CASE a \in gone
    <3>1. kept[a] = NoBucket
      BY <2>2
    <3>2. Sound(NoBucket, granted[a], first[a], t, rewound[a])
      BY <1>3, <1>4, <1>7, <2>1, <2>2, ForgetKeeps
    <3> QED
      BY <2>2, <3>1, <3>2, NoBucketTyped
  <2>3. CASE a \notin gone
    <3>1. kept[a] = buckets[a]
      BY <2>3
    <3> QED
      BY <1>7, <2>1, <2>3, <3>1
  <2> QED
    BY <2>2, <2>3
<1> HIDE DEF kept
<1>9. /\ Pays(bucket, t) \in Bucket /\ Pays(bucket, t) # NoBucket
      /\ Sound(Pays(bucket, t), IF bucket.tokens >= Window THEN granted[account] + 1 ELSE granted[account],
               IF first[account] = Never THEN t ELSE first[account], t,
               rewound[account] + (IF t < before THEN before - t ELSE 0))
  <2>1. before \in Nat /\ kept[account] \in Bucket
        /\ Sound(kept[account], granted[account], first[account], before, rewound[account])
    BY <1>3, <1>6, <1>7, <1>8
  <2>2. granted[account] \in Nat /\ first[account] \in Nat /\ rewound[account] \in Nat
    BY <1>6, <1>7
  <2> HIDE DEF before
  <2> QED
    BY <1>3, <2>1, <2>2, AllowKeeps
<1> DEFINE paid == Pays(bucket, t)
           back == IF t < before THEN before - t ELSE 0
<1>10. back \in Nat
  BY <1>3, <1>6, <1>7
<1> HIDE DEF bucket, before, paid, back
<1>11. LimiterTypeOK'
  <2>1. turn' \in [Clients -> {"away", "clock", "limit"}]
    BY <1>1, <1>2 DEF LimiterTypeOK
  <2>2. buckets' \in [Accounts -> Bucket]
    <3>1. kept \in [Accounts -> Bucket]
      BY <1>8 DEF kept
    <3>2. paid \in Bucket /\ buckets' = [kept EXCEPT ![account] = paid]
      BY <1>1, <1>9 DEF paid
    <3> HIDE DEF Bucket
    <3> QED
      BY <3>1, <3>2
  <2>3. nextCleanup' \in Nat
    BY <1>1, <1>2, <1>3, Constants DEF NextCleanup, LimiterTypeOK
  <2>4. granted' \in [Accounts -> Nat] /\ first' \in [Accounts -> Nat]
    BY <1>1, <1>2, <1>3, <1>6, <1>7 DEF LimiterTypeOK
  <2>5. rewound' \in [Accounts -> Nat]
    <3>1. rewound' = [rewound EXCEPT ![account] = @ + back]
      BY <1>1 DEF back
    <3> QED
      BY <1>2, <1>6, <1>7, <1>10, <3>1 DEF LimiterTypeOK
  <2>6. latest' \in [Accounts -> 0..clock]
    BY <1>1, <1>3, <1>7
  <2> QED
    BY <1>1, <1>2, <2>1, <2>2, <2>3, <2>4, <2>5, <2>6 DEF LimiterTypeOK, Bucket
<1>12. ReadInv'
  BY <1>1, <1>2 DEF ReadInv, LimiterTypeOK
<1>13. AccountInv'
  <2> SUFFICES ASSUME NEW a \in Accounts
               PROVE  Sound(buckets'[a], granted'[a], first'[a], latest'[a], rewound'[a])
    BY DEF AccountInv, Account
  <2>1. CASE a = account
    <3>1. /\ buckets'[a] = Pays(bucket, t)
          /\ latest'[a] = t
      BY <1>1, <1>6, <2>1 DEF kept
    <3>2. /\ granted'[a] = IF bucket.tokens >= Window THEN granted[account] + 1 ELSE granted[account]
          /\ first'[a] = IF first[account] = Never THEN t ELSE first[account]
      BY <1>1, <1>2, <1>6, <2>1 DEF LimiterTypeOK
    <3>3. rewound'[a] = rewound[account] + (IF t < before THEN before - t ELSE 0)
      BY <1>1, <1>2, <1>6, <2>1 DEF LimiterTypeOK
    <3> QED
      BY <1>9, <3>1, <3>2, <3>3
  <2>2. CASE a # account
    <3>1. buckets'[a] = kept[a] /\ latest'[a] = IF a \in gone THEN t ELSE latest[a]
      BY <1>1, <1>6, <2>2 DEF kept
    <3>2. granted'[a] = granted[a] /\ first'[a] = first[a] /\ rewound'[a] = rewound[a]
      BY <1>1, <1>2, <1>6, <2>2 DEF LimiterTypeOK
    <3> QED
      BY <1>8, <3>1, <3>2
  <2> QED
    BY <2>1, <2>2
<1>14. RoomInv'
  <2>1. left \subseteq Opened
    BY <1>5 DEF left, kept, Opened
  <2>2. IsFiniteSet(left) /\ Cardinality(left) <= MaxKeys /\ Cardinality(left) \in Nat
    <3>1. IsFiniteSet(Opened) /\ Cardinality(Opened) <= MaxKeys
      BY <1>2 DEF RoomInv
    <3>2. IsFiniteSet(left) /\ Cardinality(left) <= Cardinality(Opened)
      BY <2>1, <3>1, FS_Subset
    <3> QED
      BY <3>1, <3>2, FS_CardinalityType, Constants
  <2>3. \A k \in Keys : k # account => buckets'[k] = kept[k]
    BY <1>1, <1>5, <1>6 DEF kept
  <2>4. CASE account = Overflow
    <3>1. Opened' = left
      BY <2>3, <2>4, OverflowIsNoKey DEF Opened, left
    <3> QED
      BY <2>2, <3>1 DEF RoomInv
  <2>5. CASE account # Overflow
    <3>1. account = key /\ (kept[key] # NoBucket \/ ~full)
      BY <2>5 DEF account
    <3>2. buckets'[key] # NoBucket
      BY <1>1, <1>6, <1>9, <3>1 DEF kept
    <3>3. Opened' = left \union {key}
      BY <1>3, <2>3, <3>1, <3>2 DEF Opened, left
    <3>4. CASE key \in left
      <4>1. Opened' = left
        BY <3>3, <3>4
      <4> QED
        BY <2>2, <4>1 DEF RoomInv
    <3>5. CASE key \notin left
      <4>1. ~full
        BY <1>3, <3>1, <3>5 DEF left
      <4>2. Cardinality(left) + 1 <= MaxKeys
        BY <2>2, <4>1, Constants DEF full
      <4>3. IsFiniteSet(left \union {key}) /\ Cardinality(left \union {key}) = Cardinality(left) + 1
        BY <2>2, <3>5, FS_AddElement
      <4> QED
        BY <3>3, <4>2, <4>3 DEF RoomInv
    <3> QED
      BY <3>4, <3>5
  <2> QED
    BY <2>4, <2>5
<1> QED
  BY <1>11, <1>12, <1>13, <1>14 DEF LimiterInv

\* So every step of the limiter keeps it.
LEMMA LimiterNextInv == LimiterInv /\ [LimiterNext]_limiterVars => LimiterInv'
<1> SUFFICES ASSUME LimiterInv, [LimiterNext]_limiterVars PROVE LimiterInv'
  OBVIOUS
<1>1. CASE TimePasses
  BY <1>1, TimePassesKeeps
<1>2. ASSUME NEW c \in Clients, Limit(c) PROVE LimiterInv'
  <2>1. CASE ReadClock(c)
    BY <2>1, ReadClockKeeps
  <2>2. CASE Allow(c)
    BY <2>2, AllowStepKeeps
  <2>3. ASSUME NEW r \in Arrivals, Arrive(c, r) PROVE LimiterInv'
    BY <2>3, ArriveKeeps
  <2> QED
    BY <1>2, <2>1, <2>2, <2>3 DEF Limit
<1>3. CASE UNCHANGED limiterVars
  <2>1. LimiterTypeOK' /\ ReadInv'
    BY <1>3 DEF LimiterInv, limiterVars, LimiterTypeOK, ReadInv
  <2>2. AccountInv' /\ RoomInv'
    BY <1>3, BucketsAside DEF LimiterInv, limiterVars, accountVars
  <2> QED
    BY <2>1, <2>2 DEF LimiterInv
<1> QED
  BY <1>1, <1>2, <1>3 DEF LimiterNext

\* The invariant gives the property.
LEMMA AdmittedFromInv == LimiterInv => AdmittedWithinRate
<1> SUFFICES ASSUME LimiterInv PROVE AdmittedWithinRate
  OBVIOUS
<1>1. ASSUME NEW a \in Accounts, granted[a] > 0
      PROVE  granted[a] * Window <= Burst * Window + Rate * (latest[a] - first[a] + rewound[a])
  <2> DEFINE g == granted[a]
             e == latest[a] - first[a] + rewound[a]
  <2>1. g \in Nat /\ e \in Int /\ buckets[a].tokens \in Nat
    <3>1. latest[a] \in Int /\ first[a] \in Int /\ rewound[a] \in Int /\ granted[a] \in Nat
      BY DEF LimiterInv, LimiterTypeOK
    <3>2. buckets[a] \in Bucket /\ Burst * Window \in Nat
      BY Constants DEF LimiterInv, LimiterTypeOK, Bucket
    <3> QED
      BY <3>1, <3>2 DEF Bucket
  <2>2. Sound(buckets[a], g, first[a], latest[a], rewound[a])
    BY DEF LimiterInv, AccountInv, Account
  <2>3. Spent(g, e) \/ Held(g, buckets[a].tokens, e)
    BY <1>1, <2>2 DEF Sound, Unused, Dormant, Live
  <2> HIDE DEF g, e
  <2>4. g * Window \in Int /\ Burst * Window \in Nat /\ Rate * e \in Int
    BY <2>1, Constants
  <2>5. g * Window <= Burst * Window + Rate * e
    BY <2>1, <2>3, <2>4 DEF Spent, Held
  <2> QED
    BY <2>5 DEF g, e
<1>2. Cardinality({k \in Keys : buckets[k] # NoBucket}) <= MaxKeys
  BY DEF LimiterInv, RoomInv, Opened
<1>3. \A r \in Arrivals : ClientIP(r) # Bad => ClientIP(r) = Charged(r)
  BY ClientIPIsCharged
<1> QED
  BY <1>1, <1>2, <1>3 DEF AdmittedWithinRate

\* The limiter keeps its types: no bucket holds more than its burst, nor a time that has
\* not come (rateLimiter.allow).
THEOREM LimiterTypeCorrect == LimiterSpec => []LimiterTypeOK
<1>1. LimiterInv => LimiterTypeOK
  BY DEF LimiterInv
<1> QED
  BY <1>1, LimiterInitInv, LimiterNextInv, PTL DEF LimiterSpec

\* However many requests race to the lock with clocks read out of order, and whatever is
\* forgotten between them, no bucket lets more pass than its rate allows, there are no more
\* buckets than MaxKeys, and each is charged to the address ClientIP is to find.
THEOREM RateIsKept == LimiterSpec => []AdmittedWithinRate
BY LimiterInitInv, LimiterNextInv, AdmittedFromInv, PTL DEF LimiterSpec

--------------------------------------------------------------------------------
\* Recursion and induction, over sets.

\* A set that has each number whose predecessors it has, has all of 0..n.
LEMMA InductionTo ==
    ASSUME NEW n \in Nat, NEW S, \A i \in 0..n : (\A k \in 0..n : k < i => k \in S) => i \in S
    PROVE  0..n \subseteq S
<1> DEFINE T == (0..n) \ S
<1>1. SUFFICES ASSUME T # {} PROVE FALSE
  OBVIOUS
<1>2. T \in SUBSET Nat
  OBVIOUS
<1>3. PICK i \in T : \A m \in T : i <= m
  <2> HIDE DEF T
  <2> QED
    BY <1>1, <1>2, Least
<1>4. \A k \in 0..n : k < i => k \in S
  BY <1>3
<1> QED
  BY <1>3, <1>4

\* f is what base and the steps define, each from an earlier value, as far as n.
Follows(f, n, base, from, steps) ==
    f[0] = base /\ \A i \in 1..n : f[i] = steps[i][f[from[i]]]

\* Such a function exists.
LEMMA RecursionTo ==
    ASSUME NEW n \in Nat, NEW V, NEW base \in V, NEW from \in [1..n -> Nat], \A i \in 1..n : from[i] < i,
           NEW steps \in [1..n -> [V -> V]]
    PROVE  \E f \in [0..n -> V] : Follows(f, n, base, from, steps)
<1> DEFINE S == {k \in 0..n : \E f \in [0..k -> V] : Follows(f, k, base, from, steps)}
<1>1. ASSUME NEW i \in 0..n, \A k \in 0..n : k < i => k \in S
      PROVE  i \in S
  <2>1. CASE i = 0
    <3> DEFINE f == [k \in 0..0 |-> base]
    <3>1. f \in [0..i -> V] /\ Follows(f, i, base, from, steps)
      BY <2>1 DEF Follows
    <3> QED
      BY <3>1
  <2>2. CASE i # 0
    <3>1. i - 1 \in 0..n /\ i - 1 < i
      BY <2>2
    <3>2. PICK f \in [0..(i - 1) -> V] : Follows(f, i - 1, base, from, steps)
      BY <1>1, <3>1
    <3>3. i \in 1..n /\ from[i] \in 0..(i - 1)
      BY <2>2
    <3> DEFINE new == steps[i][f[from[i]]]
               g == [k \in 0..i |-> IF k = i THEN new ELSE f[k]]
    <3>4. new \in V
      BY <3>3
    <3>5. g \in [0..i -> V]
      BY <3>4
    <3>6. \A k \in 0..(i - 1) : g[k] = f[k]
      OBVIOUS
    <3>7. g[i] = steps[i][g[from[i]]]
      BY <3>3, <3>6
    <3>8. \A k \in 1..(i - 1) : g[k] = steps[k][g[from[k]]]
      <4> TAKE k \in 1..(i - 1)
      <4>1. k \in 1..n /\ from[k] \in 0..(i - 1) /\ k \in 0..(i - 1)
        OBVIOUS
      <4>2. g[k] = f[k] /\ g[from[k]] = f[from[k]]
        BY <4>1, <3>6
      <4>3. f[k] = steps[k][f[from[k]]]
        BY <3>2 DEF Follows
      <4> QED
        BY <4>2, <4>3
    <3>9. g[0] = base
      BY <3>1, <3>2, <3>6 DEF Follows
    <3> HIDE DEF g
    <3>10. Follows(g, i, base, from, steps)
      <4>1. \A k \in 1..i : k = i \/ k \in 1..(i - 1)
        BY <3>1
      <4> QED
        BY <4>1, <3>7, <3>8, <3>9 DEF Follows
    <3> QED
      BY <3>5, <3>10
  <2> QED
    BY <2>1, <2>2
<1>2. 0..n \subseteq S
  <2> HIDE DEF S
  <2> QED
    BY <1>1, InductionTo
<1> QED
  BY <1>2

--------------------------------------------------------------------------------
\* The types of what is registered.

Chains == Seq(Labels)
RouteType == [method: Labels, path: Chains, name: Labels, module: Labels, middleware: Chains]
ScopeType == [prefix: Chains, middleware: Chains]
AppType ==
    [middleware: Chains, http: Chains, routes: Seq(RouteType), modules: Chains, groups: [Groups -> ScopeType],
     startHooks: Nat, stopHooks: Nat, tasks: Chains, async: {0, 1}]

\* What the operations of each kind have.
LEMMA OperationFields ==
    ASSUME NEW o \in Operations
    PROVE  /\ o.op = "use" => o.group \in Owners /\ o.middleware \in Labels
           /\ o.op = "handle" => /\ o.group \in Owners /\ o.method \in Labels /\ o.path \in Paths
                                 /\ o.name \in Labels /\ o.middleware \in Chains
           /\ o.op = "group" => o.group \in Groups /\ o.parent \in Owners /\ o.prefix \in Paths
           /\ o.op = "go" => o.name \in Labels
           /\ o.op = "useHTTP" => o.handler \in Labels
           /\ o.op = "register" => o.modules \in Seq(DOMAIN Modules)
           /\ o.op \in {"use", "handle", "group", "go", "onStart", "onStop", "useHTTP", "async", "register"}
BY DEF Operations, ModuleOperations, Chains

\* A module may do what an application may, and registers no module.
LEMMA ModuleScript ==
    ASSUME NEW m \in DOMAIN Modules
    PROVE  /\ Modules[m].script \in Seq(Operations)
           /\ \A i \in 1..Len(Modules[m].script) :
                  Modules[m].script[i].op \in {"use", "handle", "group", "go", "onStart", "onStop"}
<1>1. Modules[m].script \in Seq(ModuleOperations)
  BY ModulesAssumption
<1>2. \A o \in ModuleOperations : o \in Operations /\ o.op \in {"use", "handle", "group", "go", "onStart", "onStop"}
  BY DEF Operations, ModuleOperations
<1>3. ModuleOperations \subseteq Operations
  BY <1>2
<1> HIDE DEF Operations, ModuleOperations
<1> QED
  BY <1>1, <1>2, <1>3

--------------------------------------------------------------------------------
\* What is added to a group.

AddedStep(added, ops, n, j, i) ==
    IF i <= j THEN <<>>
    ELSE IF ops[i].op = "use" /\ ops[i].group = n THEN Append(added[i - 1], ops[i].middleware)
    ELSE added[i - 1]

\* The recursive function is what its equations say.
LEMMA AddedIs ==
    ASSUME NEW ops \in Seq(Operations), NEW n, NEW j \in Nat
    PROVE  /\ Added(ops, n, j) \in [0..Len(ops) -> Chains]
           /\ \A i \in 0..Len(ops) : Added(ops, n, j)[i] = AddedStep(Added(ops, n, j), ops, n, j, i)
<1> DEFINE from == [i \in 1..Len(ops) |-> i - 1]
           grown(i, v) == IF i <= j THEN <<>>
                         ELSE IF ops[i].op = "use" /\ ops[i].group = n THEN Append(v, ops[i].middleware) ELSE v
           steps == [i \in 1..Len(ops) |-> [v \in Chains |-> grown(i, v)]]
<1>1. Len(ops) \in Nat /\ <<>> \in Chains
  BY DEF Chains
<1>2. \A i \in 1..Len(ops) : \A v \in Chains : grown(i, v) \in Chains
  <2> TAKE i \in 1..Len(ops)
  <2> TAKE v \in Chains
  <2>1. ops[i] \in Operations
    OBVIOUS
  <2>2. ops[i].op = "use" => ops[i].middleware \in Labels
    BY <2>1, OperationFields
  <2> QED
    BY <2>2, <1>1 DEF Chains
<1>3. steps \in [1..Len(ops) -> [Chains -> Chains]] /\ from \in [1..Len(ops) -> Nat]
  BY <1>2
<1>4. \A i \in 1..Len(ops) : from[i] < i
  OBVIOUS
<1>5. PICK f \in [0..Len(ops) -> Chains] : Follows(f, Len(ops), <<>>, from, steps)
  <2> HIDE DEF from, steps
  <2> QED
    BY <1>1, <1>3, <1>4, RecursionTo
<1>6. \A i \in 0..Len(ops) : f[i] = AddedStep(f, ops, n, j, i)
  <2> TAKE i \in 0..Len(ops)
  <2>1. CASE i = 0
    BY <2>1, <1>5 DEF Follows, AddedStep
  <2>2. CASE i # 0
    <3>1. i \in 1..Len(ops) /\ from[i] = i - 1 /\ f[i - 1] \in Chains
      BY <2>2, <1>1
    <3>2. f[i] = steps[i][f[i - 1]]
      BY <3>1, <1>5 DEF Follows
    <3> QED
      BY <3>1, <3>2 DEF AddedStep
  <2> QED
    BY <2>1, <2>2
<1>7. f = [i \in 0..Len(ops) |-> AddedStep(f, ops, n, j, i)]
  BY <1>6
<1>8. Added(ops, n, j) = [i \in 0..Len(ops) |-> AddedStep(Added(ops, n, j), ops, n, j, i)]
  BY <1>7 DEF Added, AddedStep
<1>9. ASSUME NEW i \in 0..Len(ops), \A k \in 0..Len(ops) : k < i => Added(ops, n, j)[k] = f[k]
      PROVE  Added(ops, n, j)[i] = f[i]
  <2>1. Added(ops, n, j)[i] = AddedStep(Added(ops, n, j), ops, n, j, i)
    BY <1>8
  <2>2. i # 0 => Added(ops, n, j)[i - 1] = f[i - 1]
    BY <1>9
  <2> QED
    BY <2>1, <2>2, <1>6 DEF AddedStep
<1> DEFINE S == {i \in 0..Len(ops) : Added(ops, n, j)[i] = f[i]}
<1>10. 0..Len(ops) \subseteq S
  <2>1. \A i \in 0..Len(ops) : (\A k \in 0..Len(ops) : k < i => k \in S) => i \in S
    BY <1>9
  <2> HIDE DEF S
  <2> QED
    BY <2>1, <1>1, InductionTo
<1>11. \A i \in 0..Len(ops) : Added(ops, n, j)[i] \in Chains
  BY <1>10
<1>12. Added(ops, n, j) = [i \in 0..Len(ops) |-> Added(ops, n, j)[i]]
  BY <1>8
<1> QED
  BY <1>8, <1>11, <1>12

\* more begins as ops does, as far as k.
Alike(ops, more, k) == k <= Len(ops) /\ k <= Len(more) /\ \A i \in 1..k : more[i] = ops[i]

\* What was added by k depends on what came by then.
LEMMA AddedAlike ==
    ASSUME NEW ops \in Seq(Operations), NEW more \in Seq(Operations), NEW k \in Nat, Alike(ops, more, k),
           NEW n, NEW j \in Nat, NEW i \in 0..k
    PROVE  Added(more, n, j)[i] = Added(ops, n, j)[i]
<1> DEFINE S == {x \in 0..k : Added(more, n, j)[x] = Added(ops, n, j)[x]}
<1>1. ASSUME NEW x \in 0..k, \A y \in 0..k : y < x => y \in S
      PROVE  x \in S
  <2>1. x \in 0..Len(ops) /\ x \in 0..Len(more)
    BY DEF Alike
  <2>2. /\ Added(ops, n, j)[x] = AddedStep(Added(ops, n, j), ops, n, j, x)
        /\ Added(more, n, j)[x] = AddedStep(Added(more, n, j), more, n, j, x)
    BY <2>1, AddedIs
  <2>3. x # 0 => more[x] = ops[x] /\ Added(more, n, j)[x - 1] = Added(ops, n, j)[x - 1]
    BY <1>1 DEF Alike
  <2>4. x = 0 => x <= j
    OBVIOUS
  <2> QED
    BY <2>2, <2>3, <2>4 DEF AddedStep
<1>2. 0..k \subseteq S
  <2> HIDE DEF S
  <2> QED
    BY <1>1, InductionTo
<1> QED
  BY <1>2

--------------------------------------------------------------------------------
\* Where a group was created.

MadeAt(ops, n, i) == {0} \union {j \in 1..(i - 1) : ops[j].op = "group" /\ ops[j].group = n}

\* A set of numbers with a bound has a greatest one.
LEMMA Greatest ==
    ASSUME NEW k \in Nat, NEW S \in SUBSET (0..k), S # {}
    PROVE  Max(S) \in S /\ \A j \in S : j <= Max(S)
<1> DEFINE T == {k - j : j \in S}
<1>0. \A j \in S : j \in 0..k
  OBVIOUS
<1>1. T \in SUBSET Nat /\ T # {}
  <2>1. \A j \in S : k - j \in Nat
    BY <1>0
  <2>2. PICK j \in S : TRUE
    OBVIOUS
  <2> QED
    BY <2>1, <2>2
<1>2. PICK t \in T : \A u \in T : t <= u
  <2> HIDE DEF T
  <2> QED
    BY <1>1, Least
<1>3. PICK m \in S : t = k - m
  BY <1>2
<1>4. \A j \in S : k - m <= k - j
  BY <1>2, <1>3
<1> HIDE DEF T
<1>5. \A j \in S : j <= m
  BY <1>0, <1>4
<1>6. Max(S) = m
  BY <1>5, MaxIs
<1> QED
  BY <1>5, <1>6

\* It is an earlier position.
LEMMA MadeBefore ==
    ASSUME NEW ops, NEW n, NEW i \in Nat \ {0}
    PROVE  /\ Made(ops, n, i) \in 0..(i - 1)
           /\ Made(ops, n, i) \in MadeAt(ops, n, i)
           /\ \A j \in MadeAt(ops, n, i) : j <= Made(ops, n, i)
<1>1. MadeAt(ops, n, i) \in SUBSET (0..(i - 1)) /\ MadeAt(ops, n, i) # {} /\ i - 1 \in Nat
  BY DEF MadeAt
<1>2. Made(ops, n, i) = Max(MadeAt(ops, n, i))
  BY DEF Made, MadeAt
<1>3. Max(MadeAt(ops, n, i)) \in MadeAt(ops, n, i) /\ \A j \in MadeAt(ops, n, i) : j <= Max(MadeAt(ops, n, i))
  BY <1>1, Greatest
<1> QED
  BY <1>1, <1>2, <1>3

\* Where a group was created depends on the operations before it.
LEMMA MadeAlike ==
    ASSUME NEW ops, NEW more, NEW k \in Nat, Alike(ops, more, k), NEW n, NEW i \in 1..(k + 1)
    PROVE  Made(more, n, i) = Made(ops, n, i)
<1>1. \A j \in 1..(i - 1) : more[j] = ops[j]
  BY DEF Alike
<1>2. MadeAt(more, n, i) = MadeAt(ops, n, i)
  BY <1>1 DEF MadeAt
<1> QED
  BY <1>2 DEF Made, MadeAt

\* One operation later.
LEMMA MadeNext ==
    ASSUME NEW ops, NEW n, NEW i \in Nat \ {0}
    PROVE  Made(ops, n, i + 1) = IF ops[i].op = "group" /\ ops[i].group = n THEN i ELSE Made(ops, n, i)
<1>1. CASE ops[i].op = "group" /\ ops[i].group = n
  <2>1. i \in MadeAt(ops, n, i + 1) /\ MadeAt(ops, n, i + 1) \in SUBSET Int /\ \A j \in MadeAt(ops, n, i + 1) : j <= i
    BY <1>1 DEF MadeAt
  <2>2. Max(MadeAt(ops, n, i + 1)) = i
    BY <2>1, MaxIs
  <2> QED
    BY <1>1, <2>2 DEF Made, MadeAt
<1>2. CASE ~(ops[i].op = "group" /\ ops[i].group = n)
  <2>1. \A j \in 1..((i + 1) - 1) : j = i \/ j \in 1..(i - 1)
    OBVIOUS
  <2>2. \A j \in 1..(i - 1) : j \in 1..((i + 1) - 1)
    OBVIOUS
  <2>3. MadeAt(ops, n, i + 1) = MadeAt(ops, n, i)
    BY <1>2, <2>1, <2>2 DEF MadeAt
  <2> QED
    BY <1>2, <2>3 DEF Made, MadeAt
<1> QED
  BY <1>1, <1>2

--------------------------------------------------------------------------------
\* Paths.

\* A sequence that is not empty has a length.
LEMMA NotEmpty ==
    ASSUME NEW S, NEW s \in Seq(S)
    PROVE  Len(s) \in Nat /\ (s # <<>> <=> Len(s) > 0)
<1>1. Len(s) \in Nat /\ (s = <<>> <=> Len(s) = 0)
  BY EmptySeq, LenProperties
<1> QED
  BY <1>1

\* Front drops the last element.
LEMMA FrontIs ==
    ASSUME NEW S, NEW s \in Seq(S), s # <<>>
    PROVE  /\ Front(s) \in Seq(S)
           /\ Len(Front(s)) = Len(s) - 1
           /\ \A i \in 1..(Len(s) - 1) : Front(s)[i] = s[i]
<1>1. Len(s) \in Nat /\ Len(s) > 0
  BY NotEmpty
<1>2. \A i \in 1..(Len(s) - 1) : s[i] \in S
  BY <1>1
<1> DEFINE n == Len(s) - 1
           f == SubSeq(s, 1, n)
<1>3. n \in Int /\ n >= 0 /\ \A i \in 1..n : s[i] \in S
  BY <1>1, <1>2
<1> HIDE DEF n
<1>4. /\ f \in Seq(S)
      /\ Len(f) = IF 1 <= n THEN n - 1 + 1 ELSE 0
      /\ \A i \in 1..(n - 1 + 1) : f[i] = s[1 + i - 1]
  BY <1>3, SubSeqProperties
<1>5. Front(s) = f
  BY DEF Front, n
<1> HIDE DEF f
<1>6. Len(f) = n /\ \A i \in 1..n : i \in 1..(n - 1 + 1) /\ 1 + i - 1 = i
  BY <1>3, <1>4
<1>7. \A i \in 1..n : f[i] = s[i]
  BY <1>4, <1>6
<1> QED
  BY <1>4, <1>5, <1>6, <1>7 DEF n

\* A sequence of one element.
LEMMA SingleTyped ==
    ASSUME NEW S, NEW e \in S
    PROVE  <<e>> \in Seq(S)
OBVIOUS

\* An element appended to the second of two sequences.
LEMMA AppendConcat ==
    ASSUME NEW S, NEW s \in Seq(S), NEW t \in Seq(S), NEW e \in S
    PROVE  s \o Append(t, e) = Append(s \o t, e)
<1>1. <<e>> \in Seq(S) /\ s \o t \in Seq(S)
  BY ConcatProperties
<1>2. Append(t, e) = t \o <<e>> /\ Append(s \o t, e) = (s \o t) \o <<e>>
  BY <1>1, AppendIsConcat
<1> QED
  BY <1>1, <1>2, ConcatAssociative

NoSlash(path) == path # <<>> => Last(path) # ""

\* A path without the slash at its end.
LEMMA TrimSlashIs ==
    ASSUME NEW path \in Paths
    PROVE  path \in Chains /\ TrimSlash(path) \in Chains /\ NoSlash(TrimSlash(path))
<1>1. path \in Chains /\ \A i \in 1..(Len(path) - 1) : path[i] # ""
  BY DEF Paths, Chains
<1>2. CASE path # <<>> /\ Last(path) = ""
  <2>1. TrimSlash(path) = Front(path)
    BY <1>2 DEF TrimSlash
  <2>2. /\ Front(path) \in Chains /\ Len(Front(path)) = Len(path) - 1
        /\ \A i \in 1..(Len(path) - 1) : Front(path)[i] = path[i]
    BY <1>1, <1>2, FrontIs DEF Chains
  <2>3. Front(path) # <<>> => Len(Front(path)) > 0
    BY <2>2, NotEmpty DEF Chains
  <2>4. Len(path) \in Nat
    BY <1>1, NotEmpty DEF Chains
  <2>5. NoSlash(Front(path))
    <3>1. SUFFICES ASSUME Front(path) # <<>> PROVE Last(Front(path)) # ""
      BY DEF NoSlash
    <3>2. Len(path) - 1 \in 1..(Len(path) - 1)
      BY <2>2, <2>3, <2>4, <3>1
    <3>3. Last(Front(path)) = path[Len(path) - 1]
      BY <2>2, <3>2 DEF Last
    <3> QED
      BY <1>1, <3>2, <3>3
  <2> QED
    BY <1>1, <2>1, <2>2, <2>5
<1>3. CASE ~(path # <<>> /\ Last(path) = "")
  BY <1>1, <1>3 DEF TrimSlash, NoSlash
<1> QED
  BY <1>2, <1>3

\* A path behind the prefix of a group.
LEMMA JoinPathIs ==
    ASSUME NEW prefix \in Chains, NoSlash(prefix), NEW path \in Chains
    PROVE  JoinPath(prefix, path) = NormalizePath(prefix \o path)
<1>1. CASE prefix = <<>>
  <2>1. prefix \o path = path
    BY <1>1, ConcatEmptySeq DEF Chains
  <2> QED
    BY <1>1, <2>1 DEF JoinPath
<1>2. CASE prefix # <<>>
  <2>0. Last(<<"">>) = ""
    BY DEF Last
  <2>1. Last(prefix) # "" /\ prefix # <<"">>
    BY <1>2, <2>0 DEF NoSlash
  <2>2. TrimSlash(prefix) = prefix
    BY <2>1 DEF TrimSlash
  <2>3. prefix \o path # <<>>
    BY <1>2, ConcatEqualIffEmpty DEF Chains
  <2> QED
    BY <1>2, <2>1, <2>2, <2>3 DEF JoinPath, NormalizePath
<1> QED
  BY <1>1, <1>2

\* The prefix of a group within another.
LEMMA GroupPrefixIs ==
    ASSUME NEW prefix \in Chains, NoSlash(prefix), NEW path \in Paths
    PROVE  /\ NormalizeGroupPrefix(JoinPath(prefix, path)) = prefix \o TrimSlash(path)
           /\ NoSlash(prefix \o TrimSlash(path))
<1> DEFINE whole == prefix \o path
           cut == TrimSlash(path)
<1>1. path \in Chains /\ cut \in Chains /\ NoSlash(cut)
  BY TrimSlashIs
<1>2. JoinPath(prefix, path) = NormalizePath(whole)
  BY <1>1, JoinPathIs
<1>3. /\ whole \in Chains /\ Len(whole) = Len(prefix) + Len(path)
      /\ \A i \in 1..(Len(prefix) + Len(path)) : whole[i] = IF i <= Len(prefix) THEN prefix[i] ELSE path[i - Len(prefix)]
  BY <1>1, ConcatProperties DEF Chains
<1>4. /\ prefix \o cut \in Chains /\ Len(prefix \o cut) = Len(prefix) + Len(cut)
      /\ \A i \in 1..(Len(prefix) + Len(cut)) :
             (prefix \o cut)[i] = IF i <= Len(prefix) THEN prefix[i] ELSE cut[i - Len(prefix)]
  BY <1>1, ConcatProperties DEF Chains
<1>5. Len(prefix) \in Nat /\ Len(path) \in Nat /\ Len(cut) \in Nat
  BY <1>1 DEF Chains
<1>6. NoSlash(prefix \o cut)
  <2>1. CASE cut = <<>>
    BY <2>1, ConcatEmptySeq DEF Chains
  <2>2. CASE cut # <<>>
    <3>1. Len(cut) > 0
      BY <1>1, <2>2, NotEmpty DEF Chains
    <3>2. Last(cut) # ""
      BY <1>1, <2>2 DEF NoSlash
    <3>3. Len(prefix) + Len(cut) \in 1..(Len(prefix) + Len(cut)) /\ ~(Len(prefix) + Len(cut) <= Len(prefix))
      BY <1>5, <3>1
    <3>4. (prefix \o cut)[Len(prefix) + Len(cut)] = cut[(Len(prefix) + Len(cut)) - Len(prefix)]
      BY <1>4, <3>3
    <3>5. (Len(prefix) + Len(cut)) - Len(prefix) = Len(cut)
      BY <1>5
    <3> QED
      BY <1>4, <3>2, <3>4, <3>5 DEF NoSlash, Last
  <2> QED
    BY <2>1, <2>2
<1>7. TrimSlash(NormalizePath(whole)) = prefix \o cut
  <2>1. CASE path = <<>>
    <3>1. cut = path /\ whole = prefix /\ prefix \o cut = prefix
      BY <2>1, ConcatEmptySeq DEF Chains, TrimSlash
    <3>2. CASE prefix = <<>>
      <4>1. TrimSlash(<<"">>) = <<>>
        BY DEF TrimSlash, Last, Front
      <4> QED
        BY <3>1, <3>2, <4>1 DEF NormalizePath
    <3>3. CASE prefix # <<>>
      BY <3>1, <3>3 DEF NormalizePath, TrimSlash, NoSlash
    <3> QED
      BY <3>2, <3>3
  <2>2. CASE path # <<>>
    <3>1. Len(path) > 0
      BY <1>1, <2>2, NotEmpty DEF Chains
    <3>2. whole # <<>> /\ NormalizePath(whole) = whole
      <4>1. Len(whole) > 0
        BY <1>3, <1>5, <3>1
      <4> HIDE DEF whole
      <4> QED
        BY <1>3, <4>1, NotEmpty DEF NormalizePath, Chains
    <3>3. Last(whole) = Last(path)
      BY <1>3, <1>5, <3>1 DEF Last
    <3>4. CASE Last(path) # ""
      BY <2>2, <3>2, <3>3, <3>4 DEF TrimSlash
    <3>5. CASE Last(path) = ""
      <4>1. cut = Front(path) /\ TrimSlash(whole) = Front(whole)
        BY <2>2, <3>2, <3>3, <3>5 DEF TrimSlash
      <4>4. Len(cut) = Len(path) - 1 /\ \A i \in 1..(Len(path) - 1) : cut[i] = path[i]
        BY <4>1, <1>1, <2>2, FrontIs DEF Chains
      <4> HIDE DEF whole, cut
      <4>5. /\ TrimSlash(whole) \in Seq(Labels) /\ Len(TrimSlash(whole)) = Len(whole) - 1
            /\ \A i \in 1..(Len(whole) - 1) : TrimSlash(whole)[i] = whole[i]
        BY <4>1, <1>3, <3>2, FrontIs DEF Chains
      <4>6. Len(whole) - 1 = Len(prefix) + Len(cut)
        BY <4>4, <1>3, <1>5
      <4>7. Len(TrimSlash(whole)) = Len(prefix) + Len(cut)
        BY <4>5, <4>6
      <4>8. \A i \in 1..(Len(prefix) + Len(cut)) : TrimSlash(whole)[i] = (prefix \o cut)[i]
        <5> TAKE i \in 1..(Len(prefix) + Len(cut))
        <5>1. TrimSlash(whole)[i] = whole[i]
          BY <4>5, <4>6
        <5>2. whole[i] = IF i <= Len(prefix) THEN prefix[i] ELSE path[i - Len(prefix)]
          BY <1>3, <1>5, <4>4
        <5>3. i > Len(prefix) => path[i - Len(prefix)] = cut[i - Len(prefix)]
          BY <4>4, <1>5
        <5> QED
          BY <5>1, <5>2, <5>3, <1>4, <1>5
      <4>9. TrimSlash(whole) = prefix \o cut
        BY <4>5, <4>7, <4>8, <1>4, SeqEqual DEF Chains
      <4> QED
        BY <3>2, <4>9
    <3> QED
      BY <3>4, <3>5
  <2> QED
    BY <2>1, <2>2
<1>8. NormalizePath(NormalizePath(whole)) = NormalizePath(whole)
  BY DEF NormalizePath
<1> HIDE DEF whole, cut
<1>9. NormalizeGroupPrefix(JoinPath(prefix, path)) = prefix \o cut
  BY <1>2, <1>7, <1>8 DEF NormalizeGroupPrefix
<1> QED
  BY <1>6, <1>9 DEF cut

--------------------------------------------------------------------------------
\* The scopes of groups.

\* What is inherited from a group that had scope when it was created.
Inside(scope, ops, n, i) ==
    IF n = NoGroup THEN Root
    ELSE [prefix |-> scope.prefix, middleware |-> scope.middleware \o Added(ops, n, Made(ops, n, i))[i - 1]]

\* What a route is given is a prefix and a chain.
LEMMA InsideTyped ==
    ASSUME NEW ops \in Seq(Operations), NEW n, NEW i \in 1..(Len(ops) + 1), NEW scope \in ScopeType
    PROVE  Inside(scope, ops, n, i) \in ScopeType
<1>1. Root \in ScopeType
  BY DEF Root, ScopeType, Chains
<1>2. Len(ops) \in Nat /\ i - 1 \in 0..Len(ops) /\ i \in Nat \ {0}
  OBVIOUS
<1>3. Made(ops, n, i) \in Nat
  BY <1>2, MadeBefore
<1>4. Added(ops, n, Made(ops, n, i))[i - 1] \in Chains
  BY <1>2, <1>3, AddedIs
<1>5. scope.prefix \in Chains /\ scope.middleware \in Chains
  BY DEF ScopeType
<1>6. scope.middleware \o Added(ops, n, Made(ops, n, i))[i - 1] \in Chains
  BY <1>4, <1>5, ConcatProperties DEF Chains
<1> QED
  BY <1>1, <1>5, <1>6 DEF Inside, ScopeType

\* Middleware that is added to a group.
LEMMA ScopeExcept ==
    ASSUME NEW p, NEW c, NEW e
    PROVE  [[prefix |-> p, middleware |-> c] EXCEPT !.middleware = Append(@, e)] =
               [prefix |-> p, middleware |-> Append(c, e)]
OBVIOUS

Within(scope, path) == [scope EXCEPT !.prefix = @ \o TrimSlash(path)]

\* A group that is created within another.
LEMMA WithinTyped ==
    ASSUME NEW scope \in ScopeType, NEW path \in Paths
    PROVE  /\ Within(scope, path) \in ScopeType
           /\ Within(scope, path) = [prefix |-> scope.prefix \o TrimSlash(path), middleware |-> scope.middleware]
<1>1. TrimSlash(path) \in Chains
  BY TrimSlashIs
<1>2. scope.prefix \in Chains /\ scope.middleware \in Chains
  BY DEF ScopeType
<1>3. scope.prefix \o TrimSlash(path) \in Chains
  BY <1>1, <1>2, ConcatProperties DEF Chains
<1>4. Within(scope, path) = [prefix |-> scope.prefix \o TrimSlash(path), middleware |-> scope.middleware]
  <2> DEFINE within == scope.prefix \o TrimSlash(path)
  <2>1. Within(scope, path) = [scope EXCEPT !.prefix = within]
    BY DEF Within
  <2> HIDE DEF within
  <2>2. [scope EXCEPT !.prefix = within] = [prefix |-> within, middleware |-> scope.middleware]
    BY DEF ScopeType
  <2> QED
    BY <2>1, <2>2 DEF within
<1> QED
  BY <1>2, <1>3, <1>4 DEF ScopeType

ScopesStep(scopes, ops, i) ==
    IF i = 0 \/ ops[i].op # "group" THEN Root
    ELSE Within(Inside(scopes[Made(ops, ops[i].parent, i)], ops, ops[i].parent, i), ops[i].prefix)

\* The recursive function is what its equations say.
LEMMA ScopesIs ==
    ASSUME NEW ops \in Seq(Operations)
    PROVE  /\ Scopes(ops) \in [0..Len(ops) -> ScopeType]
           /\ \A i \in 0..Len(ops) : Scopes(ops)[i] = ScopesStep(Scopes(ops), ops, i)
<1> DEFINE from == [i \in 1..Len(ops) |-> IF ops[i].op = "group" THEN Made(ops, ops[i].parent, i) ELSE 0]
           grow(i, v) == IF ops[i].op # "group" THEN Root
                         ELSE Within(Inside(v, ops, ops[i].parent, i), ops[i].prefix)
           steps == [i \in 1..Len(ops) |-> [v \in ScopeType |-> grow(i, v)]]
<1>1. Len(ops) \in Nat /\ Root \in ScopeType
  BY DEF Root, ScopeType, Chains
<1>2. \A i \in 1..Len(ops) : \A v \in ScopeType : grow(i, v) \in ScopeType
  <2> TAKE i \in 1..Len(ops)
  <2> TAKE v \in ScopeType
  <2>1. ops[i] \in Operations /\ i \in 1..(Len(ops) + 1)
    BY <1>1
  <2>2. ops[i].op = "group" => ops[i].prefix \in Paths
    BY <2>1, OperationFields
  <2>3. Inside(v, ops, ops[i].parent, i) \in ScopeType
    BY <2>1, InsideTyped
  <2>4. ops[i].op = "group" => Within(Inside(v, ops, ops[i].parent, i), ops[i].prefix) \in ScopeType
    BY <2>2, <2>3, WithinTyped
  <2> QED
    BY <2>4, <1>1
<1>3. steps \in [1..Len(ops) -> [ScopeType -> ScopeType]]
  BY <1>2
<1>4. \A i \in 1..Len(ops) : Made(ops, ops[i].parent, i) \in 0..(i - 1)
  BY <1>1, MadeBefore
<1>5. from \in [1..Len(ops) -> Nat] /\ \A i \in 1..Len(ops) : from[i] < i
  BY <1>4
<1>6. PICK f \in [0..Len(ops) -> ScopeType] : Follows(f, Len(ops), Root, from, steps)
  <2> HIDE DEF from, steps
  <2> QED
    BY <1>1, <1>3, <1>5, RecursionTo
<1>7. \A i \in 0..Len(ops) : f[i] = ScopesStep(f, ops, i)
  <2> TAKE i \in 0..Len(ops)
  <2>1. CASE i = 0
    BY <2>1, <1>6 DEF Follows, ScopesStep
  <2>2. CASE i # 0
    <3>1. i \in 1..Len(ops)
      BY <2>2, <1>1
    <3>2. from[i] \in 0..Len(ops) /\ f[from[i]] \in ScopeType
      BY <3>1, <1>4
    <3>3. f[i] = steps[i][f[from[i]]]
      BY <3>1, <1>6 DEF Follows
    <3>4. f[i] = grow(i, f[from[i]])
      BY <3>1, <3>2, <3>3
    <3> QED
      BY <2>2, <3>1, <3>4 DEF ScopesStep
  <2> QED
    BY <2>1, <2>2
<1>8. f = [i \in 0..Len(ops) |-> ScopesStep(f, ops, i)]
  BY <1>7
<1>9. Scopes(ops) = [i \in 0..Len(ops) |-> ScopesStep(Scopes(ops), ops, i)]
  BY <1>8 DEF Scopes, ScopesStep, Within, Inside, Inherited
<1>10. ASSUME NEW i \in 0..Len(ops), \A k \in 0..Len(ops) : k < i => Scopes(ops)[k] = f[k]
       PROVE  Scopes(ops)[i] = f[i]
  <2>1. Scopes(ops)[i] = ScopesStep(Scopes(ops), ops, i) /\ f[i] = ScopesStep(f, ops, i)
    BY <1>7, <1>9
  <2>2. CASE i = 0
    BY <2>1, <2>2 DEF ScopesStep
  <2>3. CASE i # 0
    <3>1. Made(ops, ops[i].parent, i) \in 0..Len(ops) /\ Made(ops, ops[i].parent, i) < i
      BY <1>1, <1>4, <2>3
    <3>2. Scopes(ops)[Made(ops, ops[i].parent, i)] = f[Made(ops, ops[i].parent, i)]
      BY <3>1, <1>10
    <3> QED
      BY <2>1, <3>2 DEF ScopesStep
  <2> QED
    BY <2>2, <2>3
<1> DEFINE S == {i \in 0..Len(ops) : Scopes(ops)[i] = f[i]}
<1>11. 0..Len(ops) \subseteq S
  <2>1. \A i \in 0..Len(ops) : (\A k \in 0..Len(ops) : k < i => k \in S) => i \in S
    BY <1>10
  <2> HIDE DEF S
  <2> QED
    BY <2>1, <1>1, InductionTo
<1>12. \A i \in 0..Len(ops) : Scopes(ops)[i] \in ScopeType
  BY <1>11
<1>13. Scopes(ops) = [i \in 0..Len(ops) |-> Scopes(ops)[i]]
  BY <1>9
<1> QED
  BY <1>9, <1>12, <1>13

Scope(ops, n, i) == Inherited(Scopes(ops), ops, n, i)

\* What a group gives at i, from where it was created.
LEMMA ScopeIs ==
    ASSUME NEW ops \in Seq(Operations), NEW n, NEW i \in 1..(Len(ops) + 1)
    PROVE  /\ Scope(ops, n, i) = Inside(Scopes(ops)[Made(ops, n, i)], ops, n, i)
           /\ Scope(ops, n, i) \in ScopeType
           /\ Made(ops, n, i) \in 0..Len(ops)
<1>1. Scope(ops, n, i) = Inside(Scopes(ops)[Made(ops, n, i)], ops, n, i)
  BY DEF Scope, Inherited, Inside
<1>2. Len(ops) \in Nat /\ i \in Nat \ {0}
  OBVIOUS
<1>3. Made(ops, n, i) \in 0..Len(ops)
  BY <1>2, MadeBefore
<1>4. Scopes(ops)[Made(ops, n, i)] \in ScopeType
  BY <1>3, ScopesIs
<1> QED
  BY <1>1, <1>3, <1>4, InsideTyped

\* What a group has at i depends on what came before i.
LEMMA InsideAlike ==
    ASSUME NEW ops \in Seq(Operations), NEW more \in Seq(Operations), NEW k \in Nat, Alike(ops, more, k),
           NEW n, NEW i \in 1..(k + 1), NEW scope
    PROVE  /\ Made(more, n, i) = Made(ops, n, i) /\ Made(ops, n, i) \in 0..(i - 1)
           /\ Inside(scope, more, n, i) = Inside(scope, ops, n, i)
<1>1. Made(more, n, i) = Made(ops, n, i)
  BY MadeAlike
<1>2. Made(ops, n, i) \in 0..(i - 1) /\ i - 1 \in 0..k
  BY MadeBefore
<1>3. Added(more, n, Made(ops, n, i))[i - 1] = Added(ops, n, Made(ops, n, i))[i - 1]
  BY <1>2, AddedAlike
<1> QED
  BY <1>1, <1>2, <1>3 DEF Inside

\* It depends on the operations before it, as the next lemma says too.
LEMMA ScopesAlike ==
    ASSUME NEW ops \in Seq(Operations), NEW more \in Seq(Operations), NEW k \in Nat, Alike(ops, more, k),
           NEW i \in 0..k
    PROVE  Scopes(more)[i] = Scopes(ops)[i]
<1> DEFINE S == {x \in 0..k : Scopes(more)[x] = Scopes(ops)[x]}
<1>1. ASSUME NEW x \in 0..k, \A y \in 0..k : y < x => y \in S
      PROVE  x \in S
  <2>1. x \in 0..Len(ops) /\ x \in 0..Len(more)
    BY DEF Alike
  <2>2. Scopes(ops)[x] = ScopesStep(Scopes(ops), ops, x) /\ Scopes(more)[x] = ScopesStep(Scopes(more), more, x)
    BY <2>1, ScopesIs
  <2>3. CASE x = 0
    BY <2>2, <2>3 DEF ScopesStep
  <2>4. CASE x # 0
    <3>1. more[x] = ops[x] /\ x \in 1..(k + 1)
      BY <2>4 DEF Alike
    <3> DEFINE n == ops[x].parent
               j == Made(ops, n, x)
    <3>2. Made(more, n, x) = j /\ j \in 0..(x - 1)
      BY <3>1, InsideAlike
    <3>3. Scopes(more)[j] = Scopes(ops)[j]
      BY <3>2, <1>1
    <3>4. Inside(Scopes(ops)[j], more, n, x) = Inside(Scopes(ops)[j], ops, n, x)
      BY <3>1, InsideAlike
    <3> QED
      BY <2>2, <3>1, <3>2, <3>3, <3>4 DEF ScopesStep
  <2> QED
    BY <2>3, <2>4
<1>2. 0..k \subseteq S
  <2> HIDE DEF S
  <2> QED
    BY <1>1, InductionTo
<1> QED
  BY <1>2

\* What a group gives depends on the operations before that.
LEMMA ScopeAlike ==
    ASSUME NEW ops \in Seq(Operations), NEW more \in Seq(Operations), NEW k \in Nat, Alike(ops, more, k),
           NEW n, NEW i \in 1..(k + 1)
    PROVE  Scope(more, n, i) = Scope(ops, n, i)
<1>1. i \in 1..(Len(ops) + 1) /\ i \in 1..(Len(more) + 1)
  BY DEF Alike
<1> DEFINE j == Made(ops, n, i)
<1>2. Made(more, n, i) = j /\ j \in 0..k
  <2>1. j \in 0..(i - 1)
    BY MadeBefore
  <2> QED
    BY <2>1, MadeAlike
<1>3. Scopes(more)[j] = Scopes(ops)[j]
  BY <1>2, ScopesAlike
<1>4. Inside(Scopes(ops)[j], more, n, i) = Inside(Scopes(ops)[j], ops, n, i)
  BY InsideAlike
<1>5. /\ Scope(ops, n, i) = Inside(Scopes(ops)[j], ops, n, i)
      /\ Scope(more, n, i) = Inside(Scopes(more)[Made(more, n, i)], more, n, i)
  BY <1>1, ScopeIs
<1> QED
  BY <1>2, <1>3, <1>4, <1>5

--------------------------------------------------------------------------------
\* What one more operation asks for.

\* One operation more.
LEMMA OneMore ==
    ASSUME NEW ops \in Seq(Operations), NEW o \in Operations
    PROVE  /\ Append(ops, o) \in Seq(Operations) /\ Len(Append(ops, o)) = Len(ops) + 1 /\ Len(ops) \in Nat
           /\ Append(ops, o)[Len(ops) + 1] = o /\ \A i \in 1..Len(ops) : Append(ops, o)[i] = ops[i]
           /\ Alike(ops, Append(ops, o), Len(ops))
           /\ DOMAIN ops = 1..Len(ops) /\ DOMAIN Append(ops, o) = 1..(Len(ops) + 1)
<1>1. /\ Append(ops, o) \in Seq(Operations) /\ Len(Append(ops, o)) = Len(ops) + 1 /\ Len(ops) \in Nat
      /\ Append(ops, o)[Len(ops) + 1] = o /\ \A i \in 1..Len(ops) : Append(ops, o)[i] = ops[i]
  BY AppendProperties, LenProperties
<1>2. DOMAIN ops = 1..Len(ops) /\ DOMAIN Append(ops, o) = 1..(Len(ops) + 1)
  BY <1>1, LenProperties
<1> QED
  BY <1>1, <1>2 DEF Alike

\* What one operation more adds to a group.
LEMMA AddedNext ==
    ASSUME NEW ops \in Seq(Operations), NEW o \in Operations, NEW n, NEW j \in 0..Len(ops)
    PROVE  Added(Append(ops, o), n, j)[Len(ops) + 1] =
               IF o.op = "use" /\ o.group = n THEN Append(Added(ops, n, j)[Len(ops)], o.middleware)
               ELSE Added(ops, n, j)[Len(ops)]
<1> DEFINE more == Append(ops, o)
           k == Len(ops)
<1>1. more \in Seq(Operations) /\ Len(more) = k + 1 /\ k \in Nat /\ more[k + 1] = o /\ Alike(ops, more, k)
  BY OneMore
<1> HIDE DEF more, k
<1>0. j \in Nat /\ k \in 0..k /\ k + 1 \in 0..Len(more)
  BY <1>1 DEF k
<1>2. Added(more, n, j)[k] = Added(ops, n, j)[k]
  BY <1>0, <1>1, AddedAlike
<1>3. Added(more, n, j)[k + 1] = AddedStep(Added(more, n, j), more, n, j, k + 1)
  BY <1>0, <1>1, AddedIs
<1>4. ~(k + 1 <= j) /\ (k + 1) - 1 = k
  BY <1>1 DEF k
<1> QED
  BY <1>1, <1>2, <1>3, <1>4 DEF AddedStep, more, k

\* What one operation more adds to the application.
LEMMA UsesNext ==
    ASSUME NEW ops \in Seq(Operations), NEW o \in Operations
    PROVE  /\ Uses(ops) \in Chains
           /\ Uses(Append(ops, o)) = IF o.op = "use" /\ o.group = NoGroup THEN Append(Uses(ops), o.middleware) ELSE Uses(ops)
<1>1. Len(ops) \in Nat /\ Len(Append(ops, o)) = Len(ops) + 1
  BY OneMore
<1>2. Uses(ops) \in Chains
  BY <1>1, AddedIs DEF Uses
<1> QED
  BY <1>1, <1>2, AddedNext DEF Uses

\* What one operation more changes in what a group gives: its creation and its middleware.
LEMMA ScopeNext ==
    ASSUME NEW ops \in Seq(Operations), NEW o \in Operations, NEW n \in Groups
    PROVE  Scope(Append(ops, o), n, Len(ops) + 2) =
               IF o.op = "group" /\ o.group = n THEN Within(Scope(ops, o.parent, Len(ops) + 1), o.prefix)
               ELSE IF o.op = "use" /\ o.group = n
                    THEN [Scope(ops, n, Len(ops) + 1) EXCEPT !.middleware = Append(@, o.middleware)]
               ELSE Scope(ops, n, Len(ops) + 1)
<1> DEFINE more == Append(ops, o)
           k == Len(ops)
           j == Made(ops, n, k + 1)
<1>1. more \in Seq(Operations) /\ Len(more) = k + 1 /\ k \in Nat /\ more[k + 1] = o /\ Alike(ops, more, k)
  BY OneMore
<1>0. Len(ops) = k
  OBVIOUS
<1> HIDE DEF more, k
<1>2. n # NoGroup
  BY GroupsAssumption
<1>3. Made(more, n, k + 2) = IF o.op = "group" /\ o.group = n THEN k + 1 ELSE Made(more, n, k + 1)
  <2>1. k + 1 \in Nat \ {0} /\ (k + 1) + 1 = k + 2
    BY <1>1
  <2>2. Made(more, n, (k + 1) + 1) =
            IF more[k + 1].op = "group" /\ more[k + 1].group = n THEN k + 1 ELSE Made(more, n, k + 1)
    BY <2>1, MadeNext
  <2> QED
    BY <1>1, <2>1, <2>2
<1>4. Made(more, n, k + 1) = j /\ j \in 0..k
  <2>1. k + 1 \in Nat \ {0} /\ k + 1 \in 1..(k + 1) /\ (k + 1) - 1 = k
    BY <1>1
  <2>2. j \in 0..((k + 1) - 1)
    BY <2>1, MadeBefore
  <2> QED
    BY <1>1, <2>1, <2>2, MadeAlike
<1>5. Scope(more, n, k + 2) = Inside(Scopes(more)[Made(more, n, k + 2)], more, n, k + 2)
  <2>1. k + 2 \in 1..(Len(more) + 1)
    BY <1>1
  <2> QED
    BY <1>1, <2>1, ScopeIs
<1>6. (k + 2) - 1 = k + 1 /\ (k + 1) - 1 = k /\ k + 1 \in 0..Len(more)
  BY <1>1
<1>7. CASE o.op = "group" /\ o.group = n
  <2>1. Scopes(more)[k + 1] = ScopesStep(Scopes(more), more, k + 1)
    BY <1>1, <1>6, ScopesIs
  <2>2. Scopes(more)[k + 1] = Within(Scope(more, o.parent, k + 1), o.prefix)
    <3>1. k + 1 # 0 /\ k + 1 \in 1..(Len(more) + 1)
      BY <1>1
    <3>2. Scope(more, o.parent, k + 1) = Inside(Scopes(more)[Made(more, o.parent, k + 1)], more, o.parent, k + 1)
      BY <1>1, <3>1, ScopeIs
    <3> QED
      BY <1>1, <1>7, <2>1, <3>1, <3>2 DEF ScopesStep
  <2>0. k + 1 \in 1..(k + 1)
    BY <1>1
  <2>3. Scope(more, o.parent, k + 1) = Scope(ops, o.parent, k + 1)
    BY <1>1, <2>0, ScopeAlike
  <2>4. Scope(ops, o.parent, k + 1) \in ScopeType /\ o.prefix \in Paths
    BY <1>0, <1>7, <2>0, ScopeIs, OperationFields
  <2> DEFINE w == Within(Scope(ops, o.parent, k + 1), o.prefix)
  <2>5. w \in ScopeType
    BY <2>4, WithinTyped
  <2>6. Added(more, n, k + 1)[k + 1] = <<>>
    <3>1. Added(more, n, k + 1)[k + 1] = AddedStep(Added(more, n, k + 1), more, n, k + 1, k + 1)
      <4>1. k + 1 \in Nat
        BY <1>1
      <4> QED
        BY <4>1, <1>1, <1>6, AddedIs
    <3> QED
      BY <1>1, <3>1 DEF AddedStep
  <2>7. Scope(more, n, k + 2) = [prefix |-> w.prefix, middleware |-> w.middleware \o <<>>]
    <3> HIDE DEF w
    <3>1. Made(more, n, k + 2) = k + 1
      BY <1>3, <1>7
    <3>2. Scopes(more)[k + 1] = w
      BY <2>2, <2>3 DEF w
    <3> QED
      BY <1>2, <1>5, <1>6, <2>6, <3>1, <3>2 DEF Inside
  <2>8. w.middleware \o <<>> = w.middleware
    BY <2>5, ConcatEmptySeq DEF ScopeType, Chains
  <2>9. Scope(more, n, k + 2) = w
    <3> HIDE DEF w
    <3> QED
      BY <2>5, <2>7, <2>8 DEF ScopeType
  <2> QED
    BY <1>0, <1>7, <2>9 DEF more, w
<1>8. CASE ~(o.op = "group" /\ o.group = n)
  <2>1. Made(more, n, k + 2) = j
    BY <1>3, <1>4, <1>8
  <2>2. Scopes(more)[j] = Scopes(ops)[j] /\ Scopes(ops)[j] \in ScopeType
    BY <1>0, <1>1, <1>4, ScopesAlike, ScopesIs
  <2> DEFINE s == Scopes(ops)[j]
             added == Added(ops, n, j)[k]
  <2>3. Added(more, n, j)[k + 1] = IF o.op = "use" /\ o.group = n THEN Append(added, o.middleware) ELSE added
    BY <1>0, <1>4, AddedNext DEF more
  <2>4. added \in Chains /\ s.middleware \in Chains /\ s.prefix \in Chains
    <3>1. j \in Nat /\ k \in 0..Len(ops)
      BY <1>0, <1>1, <1>4
    <3> QED
      BY <2>2, <3>1, AddedIs DEF ScopeType
  <2>5. Scope(ops, n, k + 1) = [prefix |-> s.prefix, middleware |-> s.middleware \o added]
    <3>0. k + 1 \in 1..(Len(ops) + 1)
      BY <1>0, <1>1
    <3>1. Scope(ops, n, k + 1) = Inside(s, ops, n, k + 1)
      BY <3>0, ScopeIs
    <3> HIDE DEF s
    <3> QED
      BY <3>1, <1>2, <1>6 DEF Inside
  <2>6. Scope(more, n, k + 2) = [prefix |-> s.prefix, middleware |-> s.middleware \o Added(more, n, j)[k + 1]]
    <3>1. Scope(more, n, k + 2) = Inside(s, more, n, k + 2)
      BY <1>5, <2>1, <2>2
    <3> HIDE DEF s, j
    <3> QED
      BY <3>1, <1>2, <1>6, <2>1 DEF Inside
  <2> HIDE DEF s, added, j
  <2>7. CASE o.op = "use" /\ o.group = n
    <3>1. o.middleware \in Labels
      BY <2>7, OperationFields
    <3>2. s.middleware \o Append(added, o.middleware) = Append(s.middleware \o added, o.middleware)
      <4>1. \A a, b \in Chains : \A e \in Labels : a \o Append(b, e) = Append(a \o b, e)
        BY AppendConcat DEF Chains
      <4> QED
        BY <2>4, <3>1, <4>1, Zenon
    <3>3. Scope(ops, n, k + 1).middleware = s.middleware \o added
      BY <2>5
    <3>4. [Scope(ops, n, k + 1) EXCEPT !.middleware = Append(@, o.middleware)] =
              [prefix |-> s.prefix, middleware |-> Append(s.middleware \o added, o.middleware)]
      <4>1. \A p, c, e : [[prefix |-> p, middleware |-> c] EXCEPT !.middleware = Append(@, e)] =
               [prefix |-> p, middleware |-> Append(c, e)]
        BY ScopeExcept
      <4> DEFINE c == s.middleware \o added
      <4>2. Scope(ops, n, k + 1) = [prefix |-> s.prefix, middleware |-> c]
        BY <2>5
      <4> HIDE DEF c
      <4>3. [Scope(ops, n, k + 1) EXCEPT !.middleware = Append(@, o.middleware)] =
              [prefix |-> s.prefix, middleware |-> Append(c, o.middleware)]
        BY <4>1, <4>2
      <4> QED
        BY <4>3 DEF c
    <3>5. Scope(more, n, k + 2) = [Scope(ops, n, k + 1) EXCEPT !.middleware = Append(@, o.middleware)]
      BY <2>3, <2>6, <2>7, <3>2, <3>4
    <3> QED
      BY <1>0, <2>7, <3>5 DEF more
  <2>8. CASE ~(o.op = "use" /\ o.group = n)
    BY <1>0, <1>8, <2>3, <2>5, <2>6, <2>8 DEF more
  <2> QED
    BY <2>7, <2>8
<1> QED
  BY <1>7, <1>8

NewRoute(scope, o) ==
    [method |-> o.method, name |-> o.name, path |-> NormalizePath(scope.prefix \o o.path),
     chain |-> scope.middleware \o o.middleware]

\* The operations of one kind.
LEMMA AtNext ==
    ASSUME NEW ops \in Seq(Operations), NEW o \in Operations, NEW op
    PROVE  At(Append(ops, o), op) = IF o.op = op THEN At(ops, op) \union {Len(ops) + 1} ELSE At(ops, op)
<1> DEFINE more == Append(ops, o)
           k == Len(ops)
<1>1. /\ k \in Nat /\ more[k + 1] = o /\ \A i \in 1..k : more[i] = ops[i]
      /\ DOMAIN ops = 1..k /\ DOMAIN more = 1..(k + 1)
  BY OneMore
<1> HIDE DEF more, k
<1>2. \A i : i \in 1..(k + 1) <=> i \in 1..k \/ i = k + 1
  BY <1>1
<1>3. \A i : i \in At(more, op) <=> (i \in At(ops, op) \/ (i = k + 1 /\ o.op = op))
  BY <1>1, <1>2 DEF At
<1> QED
  BY <1>3 DEF more, k

\* A route is registered with what its group gives at that time, and stays as it is.
LEMMA RoutesNext ==
    ASSUME NEW ops \in Seq(Operations), NEW o \in Operations
    PROVE  OwnRoutes(Append(ops, o)) =
               IF o.op = "handle" THEN OwnRoutes(ops) \union {NewRoute(Scope(ops, o.group, Len(ops) + 1), o)}
               ELSE OwnRoutes(ops)
<1> DEFINE more == Append(ops, o)
           k == Len(ops)
<1>1. /\ more \in Seq(Operations) /\ k \in Nat /\ more[k + 1] = o /\ \A i \in 1..k : more[i] = ops[i]
      /\ Alike(ops, more, k) /\ DOMAIN ops = 1..k
  BY OneMore
<1>2. At(more, "handle") = IF o.op = "handle" THEN At(ops, "handle") \union {k + 1} ELSE At(ops, "handle")
  BY AtNext
<1> HIDE DEF more, k
<1>3. \A n : \A i \in 1..(k + 1) : Scope(more, n, i) = Scope(ops, n, i)
  BY <1>1, ScopeAlike
<1>4. \A i : RouteAt(more, i) = NewRoute(Scope(more, more[i].group, i), more[i])
  BY DEF RouteAt, NewRoute, Scope
<1>5. \A i : RouteAt(ops, i) = NewRoute(Scope(ops, ops[i].group, i), ops[i])
  BY DEF RouteAt, NewRoute, Scope
<1>6. \A i \in At(ops, "handle") : RouteAt(more, i) = RouteAt(ops, i)
  <2> TAKE i \in At(ops, "handle")
  <2>1. i \in 1..k /\ i \in 1..(k + 1)
    BY <1>1 DEF At
  <2>2. more[i] = ops[i] /\ Scope(more, ops[i].group, i) = Scope(ops, ops[i].group, i)
    BY <1>1, <1>3, <2>1
  <2> QED
    BY <2>2, <1>4, <1>5
<1>7. RouteAt(more, k + 1) = NewRoute(Scope(ops, o.group, k + 1), o)
  <2>1. k + 1 \in 1..(k + 1)
    BY <1>1
  <2> QED
    BY <1>1, <1>3, <1>4, <2>1
<1>8. OwnRoutes(more) = IF o.op = "handle" THEN OwnRoutes(ops) \union {RouteAt(more, k + 1)} ELSE OwnRoutes(ops)
  BY <1>2, <1>6 DEF OwnRoutes
<1> QED
  BY <1>7, <1>8 DEF more, k

\* The tasks of one operation more.
LEMMA TasksNext ==
    ASSUME NEW ops \in Seq(Operations), NEW o \in Operations
    PROVE  OwnTasks(Append(ops, o)) = IF o.op = "go" THEN OwnTasks(ops) \union {o.name} ELSE OwnTasks(ops)
<1> DEFINE more == Append(ops, o)
           k == Len(ops)
<1>1. k \in Nat /\ more[k + 1] = o /\ (\A i \in 1..k : more[i] = ops[i]) /\ DOMAIN ops = 1..k
  BY OneMore
<1>2. At(more, "go") = IF o.op = "go" THEN At(ops, "go") \union {k + 1} ELSE At(ops, "go")
  BY AtNext
<1> HIDE DEF more, k
<1>3. \A i \in At(ops, "go") : more[i] = ops[i]
  BY <1>1 DEF At
<1>4. OwnTasks(more) = IF o.op = "go" THEN OwnTasks(ops) \union {o.name} ELSE OwnTasks(ops)
  BY <1>1, <1>2, <1>3 DEF OwnTasks
<1> QED
  BY <1>4 DEF more

\* The modules of one operation more.
LEMMA ModulesNext ==
    ASSUME NEW ops \in Seq(Operations), NEW o \in Operations
    PROVE  ModulesOf(Append(ops, o)) =
               IF o.op = "register" THEN ModulesOf(ops) \union ToSet(o.modules) ELSE ModulesOf(ops)
<1> DEFINE more == Append(ops, o)
           k == Len(ops)
<1>1. k \in Nat /\ more[k + 1] = o /\ (\A i \in 1..k : more[i] = ops[i]) /\ DOMAIN ops = 1..k
  BY OneMore
<1>2. At(more, "register") = IF o.op = "register" THEN At(ops, "register") \union {k + 1} ELSE At(ops, "register")
  BY AtNext
<1> HIDE DEF more, k
<1>3. \A i \in At(ops, "register") : more[i] = ops[i]
  BY <1>1 DEF At
<1>4. \A m : m \in ModulesOf(more) <=> \E i \in At(more, "register") : m \in ToSet(more[i].modules)
  BY DEF ModulesOf
<1>5. \A m : m \in ModulesOf(ops) <=> \E i \in At(ops, "register") : m \in ToSet(ops[i].modules)
  BY DEF ModulesOf
<1>6. CASE o.op = "register"
  <2>1. \A m : m \in ModulesOf(more) <=> m \in ModulesOf(ops) \/ m \in ToSet(o.modules)
    BY <1>1, <1>2, <1>3, <1>4, <1>5, <1>6
  <2> QED
    BY <1>6, <2>1 DEF more
<1>7. CASE o.op # "register"
  <2>1. \A m : m \in ModulesOf(more) <=> m \in ModulesOf(ops)
    BY <1>1, <1>2, <1>3, <1>4, <1>5, <1>7
  <2> QED
    BY <1>7, <2>1 DEF more
<1> QED
  BY <1>6, <1>7

\* The modules that are registered are modules.
LEMMA ModulesOfTyped ==
    ASSUME NEW ops \in Seq(Operations)
    PROVE  ModulesOf(ops) \subseteq DOMAIN Modules
<1>1. ASSUME NEW i \in At(ops, "register") PROVE ToSet(ops[i].modules) \subseteq DOMAIN Modules
  <2>1. ops[i] \in Operations /\ ops[i].op = "register"
    BY DEF At
  <2>2. ops[i].modules \in Seq(DOMAIN Modules)
    BY <2>1, OperationFields
  <2> QED
    BY <2>2 DEF ToSet
<1> QED
  BY <1>1 DEF ModulesOf

--------------------------------------------------------------------------------
\* The operations on an application.

\* b is typed, and has these in place of what a had.
Becomes(a, b, middleware, groups, routes, tasks) ==
    /\ b \in AppType
    /\ b.middleware = middleware /\ b.groups = groups /\ b.routes = routes /\ b.tasks = tasks

\* What is registered has the type of each of its parts.
LEMMA AppFields ==
    ASSUME NEW a \in AppType
    PROVE  /\ a.middleware \in Chains /\ a.http \in Chains /\ a.routes \in Seq(RouteType) /\ a.modules \in Chains
           /\ a.groups \in [Groups -> ScopeType] /\ a.startHooks \in Nat /\ a.stopHooks \in Nat
           /\ a.tasks \in Chains /\ a.async \in {0, 1}
BY DEF AppType

\* App.Use changes the middleware.
LEMMA UseChanges ==
    ASSUME NEW a \in AppType, NEW e \in Labels
    PROVE  LET b == [a EXCEPT !.middleware = Append(@, e)]
           IN  Becomes(a, b, Append(a.middleware, e), a.groups, a.routes, a.tasks)
<1> DEFINE c == Append(a.middleware, e)
<1>1. c \in Chains
  BY AppFields, AppendProperties DEF Chains
<1> HIDE DEF c
<1>2. Becomes(a, [a EXCEPT !.middleware = c], c, a.groups, a.routes, a.tasks)
  BY <1>1 DEF Becomes, AppType
<1> QED
  BY <1>2 DEF c

\* App.UseHTTP changes what no route has.
LEMMA HttpChanges ==
    ASSUME NEW a \in AppType, NEW e \in Labels
    PROVE  LET b == [a EXCEPT !.http = Append(@, e)]
           IN  Becomes(a, b, a.middleware, a.groups, a.routes, a.tasks)
<1> DEFINE c == Append(a.http, e)
<1>1. c \in Chains
  BY AppFields, AppendProperties DEF Chains
<1> HIDE DEF c
<1>2. Becomes(a, [a EXCEPT !.http = c], a.middleware, a.groups, a.routes, a.tasks)
  BY <1>1 DEF Becomes, AppType
<1> QED
  BY <1>2 DEF c

\* App.Go changes the tasks.
LEMMA TasksChange ==
    ASSUME NEW a \in AppType, NEW e \in Labels
    PROVE  LET b == [a EXCEPT !.tasks = Append(@, e)]
           IN  Becomes(a, b, a.middleware, a.groups, a.routes, Append(a.tasks, e))
<1> DEFINE c == Append(a.tasks, e)
<1>1. c \in Chains
  BY AppFields, AppendProperties DEF Chains
<1> HIDE DEF c
<1>2. Becomes(a, [a EXCEPT !.tasks = c], a.middleware, a.groups, a.routes, c)
  BY <1>1 DEF Becomes, AppType
<1> QED
  BY <1>2 DEF c

\* App.Handle and Group.Handle change the routes.
LEMMA RoutesChange ==
    ASSUME NEW a \in AppType, NEW r \in RouteType
    PROVE  Becomes(a, AddRoute(a, r), a.middleware, a.groups, Append(a.routes, r), a.tasks)
<1> DEFINE c == Append(a.routes, r)
<1>1. c \in Seq(RouteType)
  BY AppFields, AppendProperties
<1>2. AddRoute(a, r) = [a EXCEPT !.routes = c]
  BY DEF AddRoute
<1> HIDE DEF c
<1>3. Becomes(a, [a EXCEPT !.routes = c], a.middleware, a.groups, c, a.tasks)
  BY <1>1 DEF Becomes, AppType
<1> QED
  BY <1>2, <1>3 DEF c

\* App.Group, Group.Group and Group.Use change the groups.
LEMMA GroupsChange ==
    ASSUME NEW a \in AppType, NEW g \in [Groups -> ScopeType]
    PROVE  Becomes(a, [a EXCEPT !.groups = g], a.middleware, g, a.routes, a.tasks)
BY DEF Becomes, AppType

\* Hooks and an executor are counted.
LEMMA CountsChange ==
    ASSUME NEW a \in AppType
    PROVE  /\ Becomes(a, OnStart(a), a.middleware, a.groups, a.routes, a.tasks)
           /\ Becomes(a, OnStop(a), a.middleware, a.groups, a.routes, a.tasks)
           /\ Becomes(a, Async(a), a.middleware, a.groups, a.routes, a.tasks)
<1> DEFINE i == a.startHooks + 1
           j == a.stopHooks + 1
<1>1. i \in Nat /\ j \in Nat
  BY AppFields
<1>2. OnStart(a) = [a EXCEPT !.startHooks = i] /\ OnStop(a) = [a EXCEPT !.stopHooks = j] /\ Async(a) = [a EXCEPT !.async = 1]
  BY DEF OnStart, OnStop, Async
<1> HIDE DEF i, j
<1>3. Becomes(a, [a EXCEPT !.startHooks = i], a.middleware, a.groups, a.routes, a.tasks)
  BY <1>1 DEF Becomes, AppType
<1>4. Becomes(a, [a EXCEPT !.stopHooks = j], a.middleware, a.groups, a.routes, a.tasks)
  BY <1>1 DEF Becomes, AppType
<1>5. Becomes(a, [a EXCEPT !.async = 1], a.middleware, a.groups, a.routes, a.tasks)
  BY DEF Becomes, AppType
<1> QED
  BY <1>2, <1>3, <1>4, <1>5

\* The elements of a sequence that grows.
LEMMA ToSetAppend ==
    ASSUME NEW S, NEW s \in Seq(S), NEW e \in S
    PROVE  ToSet(Append(s, e)) = ToSet(s) \union {e}
<1>1. /\ Len(s) \in Nat /\ DOMAIN s = 1..Len(s) /\ DOMAIN Append(s, e) = 1..(Len(s) + 1)
      /\ Append(s, e)[Len(s) + 1] = e /\ \A i \in 1..Len(s) : Append(s, e)[i] = s[i]
  BY AppendProperties, LenProperties
<1>2. \A i : i \in 1..(Len(s) + 1) <=> i \in 1..Len(s) \/ i = Len(s) + 1
  BY <1>1
<1> QED
  BY <1>1, <1>2 DEF ToSet

\* The elements of two sequences.
LEMMA ToSetConcat ==
    ASSUME NEW S, NEW s \in Seq(S), NEW t \in Seq(S)
    PROVE  ToSet(s \o t) = ToSet(s) \union ToSet(t)
<1>1. /\ Len(s) \in Nat /\ Len(t) \in Nat /\ DOMAIN s = 1..Len(s) /\ DOMAIN t = 1..Len(t)
      /\ s \o t \in Seq(S) /\ Len(s \o t) = Len(s) + Len(t)
      /\ \A i \in 1..(Len(s) + Len(t)) : (s \o t)[i] = IF i <= Len(s) THEN s[i] ELSE t[i - Len(s)]
  BY ConcatProperties, LenProperties
<1>2. DOMAIN (s \o t) = 1..(Len(s) + Len(t))
  BY <1>1, LenProperties
<1> DEFINE u == s \o t
<1> HIDE DEF u
<1>3. \A i \in DOMAIN u : u[i] \in ToSet(s) \union ToSet(t)
  <2> TAKE i \in DOMAIN u
  <2>1. CASE i <= Len(s)
    BY <2>1, <1>1, <1>2 DEF ToSet, u
  <2>2. CASE ~(i <= Len(s))
    <3>1. i - Len(s) \in 1..Len(t) /\ u[i] = t[i - Len(s)]
      BY <2>2, <1>1, <1>2 DEF u
    <3> QED
      BY <3>1, <1>1 DEF ToSet
  <2> QED
    BY <2>1, <2>2
<1>4. \A i \in DOMAIN s : s[i] \in ToSet(u)
  <2> TAKE i \in DOMAIN s
  <2>1. i \in DOMAIN u /\ u[i] = s[i]
    BY <1>1, <1>2 DEF u
  <2> QED
    BY <2>1 DEF ToSet
<1>5. \A i \in DOMAIN t : t[i] \in ToSet(u)
  <2> TAKE i \in DOMAIN t
  <2>1. i + Len(s) \in DOMAIN u /\ u[i + Len(s)] = t[(i + Len(s)) - Len(s)] /\ (i + Len(s)) - Len(s) = i
    BY <1>1, <1>2 DEF u
  <2> QED
    BY <2>1 DEF ToSet
<1> QED
  BY <1>3, <1>4, <1>5 DEF ToSet, u

--------------------------------------------------------------------------------
\* An application and the operations that made it.

Entry(r) == [method |-> r.method, name |-> r.name, path |-> r.path, chain |-> r.middleware]
Entries(routes) == {Entry(r) : r \in ToSet(routes)}

\* The application has what the operations ask for.
Agrees(a, ops) ==
    /\ a.middleware = Uses(ops)
    /\ \A n \in Groups : a.groups[n] = Scope(ops, n, Len(ops) + 1) /\ NoSlash(a.groups[n].prefix)
    /\ Entries(a.routes) = AllRoutes(ops)
    /\ ToSet(a.tasks) = AllTasks(ops)

ModuleRoutes(m) == Behind(Uses(Modules[m].script), OwnRoutes(Modules[m].script))

\* The routes and the tasks, those of modules included, of one operation more that is no Register.
LEMMA AllNext ==
    ASSUME NEW ops \in Seq(Operations), NEW o \in Operations, o.op # "register"
    PROVE  /\ AllRoutes(Append(ops, o)) =
                  IF o.op = "handle" THEN AllRoutes(ops) \union {NewRoute(Scope(ops, o.group, Len(ops) + 1), o)}
                  ELSE AllRoutes(ops)
           /\ AllTasks(Append(ops, o)) = IF o.op = "go" THEN AllTasks(ops) \union {o.name} ELSE AllTasks(ops)
<1>1. ModulesOf(Append(ops, o)) = ModulesOf(ops)
  BY ModulesNext
<1> QED
  BY <1>1, RoutesNext, TasksNext DEF AllRoutes, AllTasks

\* The routes that are registered, and one more.
LEMMA EntriesAppend ==
    ASSUME NEW routes \in Seq(RouteType), NEW r \in RouteType
    PROVE  Entries(Append(routes, r)) = Entries(routes) \union {Entry(r)}
<1>1. ToSet(Append(routes, r)) = ToSet(routes) \union {r}
  BY ToSetAppend
<1> QED
  BY <1>1 DEF Entries

\* The route of an operation, in its scope.
LEMMA RouteIs ==
    ASSUME NEW o \in Operations, o.op = "handle", NEW scope \in ScopeType, NoSlash(scope.prefix)
    PROVE  LET r == Route(o, JoinPath(scope.prefix, o.path), scope.middleware)
           IN  r \in RouteType /\ Entry(r) = NewRoute(scope, o)
<1> DEFINE path == JoinPath(scope.prefix, o.path)
           chain == scope.middleware \o o.middleware
<1>1. /\ o.method \in Labels /\ o.path \in Paths /\ o.name \in Labels /\ o.middleware \in Chains /\ "" \in Labels
      /\ scope.prefix \in Chains /\ scope.middleware \in Chains
  BY OperationFields, LabelsAssumption DEF ScopeType
<1>2. o.path \in Chains
  BY <1>1, TrimSlashIs
<1>3. path = NormalizePath(scope.prefix \o o.path)
  BY <1>1, <1>2, JoinPathIs
<1>4. scope.prefix \o o.path \in Chains /\ chain \in Chains
  BY <1>1, <1>2, ConcatProperties DEF Chains
<1>5. <<"">> \in Chains
  BY <1>1, SingleTyped DEF Chains
<1>6. path \in Chains
  BY <1>3, <1>4, <1>5 DEF NormalizePath
<1> DEFINE r == Route(o, path, scope.middleware)
<1>7. r = [method |-> o.method, path |-> path, name |-> o.name, module |-> "", middleware |-> chain]
  BY DEF Route
<1> HIDE DEF path, chain, r
<1>8. r \in RouteType
  BY <1>1, <1>4, <1>6, <1>7 DEF RouteType
<1>9. Entry(r) = [method |-> o.method, name |-> o.name, path |-> path, chain |-> chain]
  BY <1>7 DEF Entry
<1>10. Entry(r) = NewRoute(scope, o)
  BY <1>3, <1>9 DEF NewRoute, chain
<1> QED
  BY <1>8, <1>10 DEF path, r

\* An operation that changes neither groups nor what Agrees compares.
LEMMA AgreesAside ==
    ASSUME NEW a \in AppType, NEW ops \in Seq(Operations), NEW o \in Operations, NEW b, Agrees(a, ops),
           o.op \in {"useHTTP", "onStart", "onStop", "async"},
           Becomes(a, b, a.middleware, a.groups, a.routes, a.tasks)
    PROVE  Agrees(b, Append(ops, o))
<1>1. Len(Append(ops, o)) + 1 = Len(ops) + 2
  BY OneMore
<1>2. Uses(Append(ops, o)) = Uses(ops)
  BY UsesNext
<1>3. \A n \in Groups : Scope(Append(ops, o), n, Len(ops) + 2) = Scope(ops, n, Len(ops) + 1)
  BY ScopeNext
<1>4. AllRoutes(Append(ops, o)) = AllRoutes(ops) /\ AllTasks(Append(ops, o)) = AllTasks(ops)
  BY AllNext
<1> QED
  BY <1>1, <1>2, <1>3, <1>4 DEF Agrees, Becomes

\* App.Use and Group.Use do what they are asked for.
LEMMA UseAgrees ==
    ASSUME NEW a \in AppType, NEW ops \in Seq(Operations), NEW o \in Operations, Agrees(a, ops), o.op = "use"
    PROVE  Apply(a, o) \in AppType /\ Agrees(Apply(a, o), Append(ops, o))
<1> DEFINE b == Apply(a, o)
           more == Append(ops, o)
<1>1. o.middleware \in Labels /\ o.group \in Owners
  BY OperationFields
<1>2. Len(more) + 1 = Len(ops) + 2
  BY OneMore
<1>3. Uses(more) = IF o.group = NoGroup THEN Append(Uses(ops), o.middleware) ELSE Uses(ops)
  BY UsesNext
<1>4. \A n \in Groups : Scope(more, n, Len(ops) + 2) =
          IF o.group = n THEN [Scope(ops, n, Len(ops) + 1) EXCEPT !.middleware = Append(@, o.middleware)]
          ELSE Scope(ops, n, Len(ops) + 1)
  BY ScopeNext
<1>5. AllRoutes(more) = AllRoutes(ops) /\ AllTasks(more) = AllTasks(ops)
  BY AllNext
<1>6. CASE o.group = NoGroup
  <2>1. Becomes(a, b, Append(a.middleware, o.middleware), a.groups, a.routes, a.tasks)
    <3>1. b = [a EXCEPT !.middleware = Append(@, o.middleware)]
      BY <1>6 DEF Apply, Use
    <3> HIDE DEF b
    <3> QED
      BY <3>1, <1>1, UseChanges
  <2>2. \A n \in Groups : o.group # n
    BY <1>6, GroupsAssumption
  <2> HIDE DEF b, more
  <2>3. Agrees(b, more)
    BY <1>2, <1>3, <1>4, <1>5, <1>6, <2>1, <2>2 DEF Agrees, Becomes
  <2> QED
    BY <2>1, <2>3 DEF Becomes, b, more
<1>7. CASE o.group # NoGroup
  <2> DEFINE n == o.group
             s == [a.groups[n] EXCEPT !.middleware = Append(@, o.middleware)]
             groups == [a.groups EXCEPT ![n] = s]
  <2>1. n \in Groups /\ a.groups \in [Groups -> ScopeType] /\ a.groups[n] \in ScopeType
    BY <1>1, <1>7, AppFields DEF Owners
  <2>2. b = [a EXCEPT !.groups = groups]
    BY <1>7 DEF Apply, GroupUse
  <2>3. s \in ScopeType /\ s.prefix = a.groups[n].prefix
    <3>1. Append(a.groups[n].middleware, o.middleware) \in Chains
      BY <1>1, <2>1, AppendProperties DEF ScopeType, Chains
    <3> QED
      BY <2>1, <3>1 DEF ScopeType
  <2>4. s = Scope(more, n, Len(ops) + 2)
    BY <1>4, <2>1 DEF Agrees
  <2> HIDE DEF s
  <2>5. groups \in [Groups -> ScopeType] /\ groups[n] = s /\ \A x \in Groups \ {n} : groups[x] = a.groups[x]
    BY <2>1, <2>3
  <2> HIDE DEF groups, b, more
  <2>6. Becomes(a, b, a.middleware, groups, a.routes, a.tasks)
    BY <2>2, <2>5, GroupsChange
  <2>7. \A x \in Groups : groups[x] = Scope(more, x, Len(ops) + 2) /\ NoSlash(groups[x].prefix)
    <3> TAKE x \in Groups
    <3>1. CASE x = n
      BY <3>1, <2>1, <2>3, <2>4, <2>5 DEF Agrees
    <3>2. CASE x # n
      BY <3>2, <2>5, <1>4 DEF Agrees
    <3> QED
      BY <3>1, <3>2
  <2>8. Agrees(b, more)
    BY <1>2, <1>3, <1>5, <1>7, <2>6, <2>7 DEF Agrees, Becomes
  <2> QED
    BY <2>6, <2>8 DEF Becomes, b, more
<1> QED
  BY <1>6, <1>7

\* So do App.Handle and Group.Handle.
LEMMA HandleAgrees ==
    ASSUME NEW a \in AppType, NEW ops \in Seq(Operations), NEW o \in Operations, Agrees(a, ops), o.op = "handle"
    PROVE  Apply(a, o) \in AppType /\ Agrees(Apply(a, o), Append(ops, o))
<1> DEFINE b == Apply(a, o)
           more == Append(ops, o)
           scope == Scope(ops, o.group, Len(ops) + 1)
           r == Route(o, JoinPath(scope.prefix, o.path), scope.middleware)
<1>1. o.group \in Owners /\ o.path \in Paths
  BY OperationFields
<1>2. Len(more) + 1 = Len(ops) + 2 /\ Len(ops) + 1 \in 1..(Len(ops) + 1)
  BY OneMore
<1>3. scope \in ScopeType
  BY <1>2, ScopeIs
<1>4. NoSlash(scope.prefix) /\ b = AddRoute(a, r)
  <2>1. CASE o.group = NoGroup
    <3>1. scope = Root
      BY <2>1 DEF Scope, Inherited
    <3>2. scope.prefix = <<>> /\ scope.middleware = <<>>
      BY <3>1 DEF Root
    <3>3. JoinPath(<<>>, o.path) = NormalizePath(o.path)
      BY DEF JoinPath
    <3>4. b = AddRoute(a, Route(o, NormalizePath(o.path), <<>>))
      BY <2>1 DEF Apply, Handle
    <3> QED
      BY <3>2, <3>3, <3>4 DEF NoSlash
  <2>2. CASE o.group # NoGroup
    <3>1. o.group \in Groups
      BY <1>1, <2>2 DEF Owners
    <3>2. a.groups[o.group] = scope /\ NoSlash(scope.prefix)
      BY <3>1 DEF Agrees
    <3>3. b = AddRoute(a, Route(o, JoinPath(a.groups[o.group].prefix, o.path), a.groups[o.group].middleware))
      BY <2>2 DEF Apply, GroupHandle
    <3> QED
      BY <3>2, <3>3
  <2> QED
    BY <2>1, <2>2
<1>5. r \in RouteType /\ Entry(r) = NewRoute(scope, o)
  <2> HIDE DEF scope
  <2> QED
    BY <1>3, <1>4, RouteIs
<1> HIDE DEF b, r, more
<1>6. Becomes(a, b, a.middleware, a.groups, Append(a.routes, r), a.tasks)
  BY <1>4, <1>5, RoutesChange
<1>7. Entries(Append(a.routes, r)) = Entries(a.routes) \union {Entry(r)}
  BY <1>5, AppFields, EntriesAppend
<1>8. Uses(more) = Uses(ops)
  BY UsesNext DEF more
<1>9. \A n \in Groups : Scope(more, n, Len(ops) + 2) = Scope(ops, n, Len(ops) + 1)
  BY ScopeNext DEF more
<1>10. AllRoutes(more) = AllRoutes(ops) \union {NewRoute(scope, o)} /\ AllTasks(more) = AllTasks(ops)
  BY AllNext DEF more
<1> HIDE DEF scope
<1>11. Agrees(b, more)
  BY <1>2, <1>5, <1>6, <1>7, <1>8, <1>9, <1>10 DEF Agrees, Becomes
<1> QED
  BY <1>6, <1>11 DEF Becomes, b, more

\* So do App.Group and Group.Group.
LEMMA GroupAgrees ==
    ASSUME NEW a \in AppType, NEW ops \in Seq(Operations), NEW o \in Operations, Agrees(a, ops), o.op = "group"
    PROVE  Apply(a, o) \in AppType /\ Agrees(Apply(a, o), Append(ops, o))
<1> DEFINE b == Apply(a, o)
           more == Append(ops, o)
           outer == Scope(ops, o.parent, Len(ops) + 1)
           s == Within(outer, o.prefix)
           groups == [a.groups EXCEPT ![o.group] = s]
<1>1. o.group \in Groups /\ o.parent \in Owners /\ o.prefix \in Paths /\ a.groups \in [Groups -> ScopeType]
  BY OperationFields, AppFields
<1>2. Len(more) + 1 = Len(ops) + 2 /\ Len(ops) + 1 \in 1..(Len(ops) + 1)
  BY OneMore
<1>3. outer \in ScopeType
  BY <1>2, ScopeIs
<1>4. NoSlash(outer.prefix) /\ outer = IF o.parent = NoGroup THEN Root ELSE a.groups[o.parent]
  <2>1. CASE o.parent = NoGroup
    <3>1. outer = Root
      BY <2>1 DEF Scope, Inherited
    <3>2. outer.prefix = <<>>
      BY <3>1 DEF Root
    <3> QED
      BY <2>1, <3>1, <3>2 DEF NoSlash
  <2>2. CASE o.parent # NoGroup
    <3>1. o.parent \in Groups
      BY <1>1, <2>2 DEF Owners
    <3> QED
      BY <2>2, <3>1 DEF Agrees
  <2> QED
    BY <2>1, <2>2
<1> HIDE DEF outer
<1>5. outer.prefix \in Chains
  BY <1>3 DEF ScopeType
<1>6. /\ NormalizeGroupPrefix(JoinPath(outer.prefix, o.prefix)) = outer.prefix \o TrimSlash(o.prefix)
      /\ NoSlash(outer.prefix \o TrimSlash(o.prefix))
  BY <1>1, <1>4, <1>5, GroupPrefixIs
<1>7. s \in ScopeType /\ NoSlash(s.prefix)
  <2>1. s = [prefix |-> outer.prefix \o TrimSlash(o.prefix), middleware |-> outer.middleware] /\ s \in ScopeType
    BY <1>1, <1>3, WithinTyped
  <2> HIDE DEF s
  <2>2. s.prefix = outer.prefix \o TrimSlash(o.prefix)
    BY <2>1
  <2> QED
    BY <1>6, <2>1, <2>2
<1>8. b = [a EXCEPT !.groups = groups]
  <2>1. b = [a EXCEPT !.groups[o.group] = [outer EXCEPT !.prefix = NormalizeGroupPrefix(JoinPath(@, o.prefix))]]
    BY <1>4 DEF Apply, NewGroup
  <2>2. [outer EXCEPT !.prefix = NormalizeGroupPrefix(JoinPath(@, o.prefix))] = s
    BY <1>3, <1>6 DEF Within, ScopeType
  <2> HIDE DEF s, b
  <2> QED
    BY <2>1, <2>2
<1> HIDE DEF s
<1>9. groups \in [Groups -> ScopeType] /\ groups[o.group] = s /\ \A x \in Groups \ {o.group} : groups[x] = a.groups[x]
  BY <1>1, <1>7
<1> HIDE DEF groups, b, more
<1>10. Becomes(a, b, a.middleware, groups, a.routes, a.tasks)
  BY <1>8, <1>9, GroupsChange
<1>11. Uses(more) = Uses(ops)
  BY UsesNext DEF more
<1>12. \A n \in Groups : Scope(more, n, Len(ops) + 2) = IF o.group = n THEN s ELSE Scope(ops, n, Len(ops) + 1)
  BY ScopeNext DEF more, s, outer
<1>13. AllRoutes(more) = AllRoutes(ops) /\ AllTasks(more) = AllTasks(ops)
  BY AllNext DEF more
<1>14. \A x \in Groups : groups[x] = Scope(more, x, Len(ops) + 2) /\ NoSlash(groups[x].prefix)
  <2> TAKE x \in Groups
  <2>1. CASE x = o.group
    BY <2>1, <1>7, <1>9, <1>12
  <2>2. CASE x # o.group
    BY <2>2, <1>9, <1>12 DEF Agrees
  <2> QED
    BY <2>1, <2>2
<1>15. Agrees(b, more)
  BY <1>2, <1>10, <1>11, <1>13, <1>14 DEF Agrees, Becomes
<1> QED
  BY <1>10, <1>15 DEF Becomes, b, more

\* So does App.Go.
LEMMA GoAgrees ==
    ASSUME NEW a \in AppType, NEW ops \in Seq(Operations), NEW o \in Operations, Agrees(a, ops), o.op = "go"
    PROVE  Apply(a, o) \in AppType /\ Agrees(Apply(a, o), Append(ops, o))
<1> DEFINE b == Apply(a, o)
           more == Append(ops, o)
<1>1. o.name \in Labels /\ a.tasks \in Seq(Labels)
  BY OperationFields, AppFields DEF Chains
<1>2. Len(more) + 1 = Len(ops) + 2
  BY OneMore
<1>3. Becomes(a, b, a.middleware, a.groups, a.routes, Append(a.tasks, o.name))
  <2>1. b = [a EXCEPT !.tasks = Append(@, o.name)]
    BY DEF Apply, Go
  <2> HIDE DEF b
  <2> QED
    BY <1>1, <2>1, TasksChange
<1>4. ToSet(Append(a.tasks, o.name)) = ToSet(a.tasks) \union {o.name}
  BY <1>1, ToSetAppend
<1> HIDE DEF b, more
<1>5. Uses(more) = Uses(ops)
  BY UsesNext DEF more
<1>6. \A n \in Groups : Scope(more, n, Len(ops) + 2) = Scope(ops, n, Len(ops) + 1)
  BY ScopeNext DEF more
<1>7. AllRoutes(more) = AllRoutes(ops) /\ AllTasks(more) = AllTasks(ops) \union {o.name}
  BY AllNext DEF more
<1>8. Agrees(b, more)
  BY <1>2, <1>3, <1>4, <1>5, <1>6, <1>7 DEF Agrees, Becomes
<1> QED
  BY <1>3, <1>8 DEF Becomes, b, more

\* Every operation but Register does what it asks for.
LEMMA ApplyAgrees ==
    ASSUME NEW a \in AppType, NEW ops \in Seq(Operations), NEW o \in Operations, Agrees(a, ops), o.op # "register"
    PROVE  Apply(a, o) \in AppType /\ Agrees(Apply(a, o), Append(ops, o))
<1>1. o.op \in {"use", "handle", "group", "go", "onStart", "onStop", "useHTTP", "async"}
  BY OperationFields
<1>2. CASE o.op = "use"
  BY <1>2, UseAgrees
<1>3. CASE o.op = "handle"
  BY <1>3, HandleAgrees
<1>4. CASE o.op = "group"
  BY <1>4, GroupAgrees
<1>5. CASE o.op = "go"
  BY <1>5, GoAgrees
<1>6. CASE o.op \in {"useHTTP", "onStart", "onStop", "async"}
  <2>1. Becomes(a, Apply(a, o), a.middleware, a.groups, a.routes, a.tasks)
    <3>1. CASE o.op = "useHTTP"
      <4>1. Apply(a, o) = [a EXCEPT !.http = Append(@, o.handler)] /\ o.handler \in Labels
        BY <3>1, OperationFields DEF Apply, UseHTTP
      <4> QED
        BY <4>1, HttpChanges
    <3>2. CASE o.op = "onStart"
      <4>1. Apply(a, o) = OnStart(a)
        BY <3>2 DEF Apply
      <4> QED
        BY <4>1, CountsChange
    <3>3. CASE o.op = "onStop"
      <4>1. Apply(a, o) = OnStop(a)
        BY <3>3 DEF Apply
      <4> QED
        BY <4>1, CountsChange
    <3>4. CASE o.op = "async"
      <4>1. Apply(a, o) = Async(a)
        BY <3>4 DEF Apply
      <4> QED
        BY <4>1, CountsChange
    <3> QED
      BY <1>6, <3>1, <3>2, <3>3, <3>4
  <2>2. Agrees(Apply(a, o), Append(ops, o))
    BY <1>6, <2>1, AgreesAside
  <2> QED
    BY <2>1, <2>2 DEF Becomes
<1> QED
  BY <1>1, <1>2, <1>3, <1>4, <1>5, <1>6

\* No operations ask for nothing.
LEMMA NothingAsked ==
    ASSUME NEW ops \in Seq(Operations), Len(ops) = 0
    PROVE  /\ Uses(ops) = <<>> /\ AllRoutes(ops) = {} /\ AllTasks(ops) = {}
           /\ \A n \in Groups : Scope(ops, n, Len(ops) + 1) = Root
<1>1. 0 \in 0..Len(ops) /\ 1 \in 1..(Len(ops) + 1) /\ DOMAIN ops = {} /\ Len(ops) + 1 = 1 /\ 1 - 1 = 0
  OBVIOUS
<1>2. \A n : \A j \in Nat : Added(ops, n, j)[0] = <<>>
  <2> TAKE n
  <2> TAKE j \in Nat
  <2>1. Added(ops, n, j)[0] = AddedStep(Added(ops, n, j), ops, n, j, 0)
    BY <1>1, AddedIs
  <2> QED
    BY <2>1 DEF AddedStep
<1>3. Uses(ops) = <<>>
  BY <1>2 DEF Uses
<1>4. \A n \in Groups : Scope(ops, n, 1) = Root
  <2> TAKE n \in Groups
  <2>1. Made(ops, n, 1) = 0
    <3>1. Made(ops, n, 1) \in 0..(1 - 1)
      BY MadeBefore
    <3> QED
      BY <3>1
  <2>2. Scopes(ops)[0] = Root
    <3>1. Scopes(ops)[0] = ScopesStep(Scopes(ops), ops, 0)
      BY <1>1, ScopesIs
    <3> QED
      BY <3>1 DEF ScopesStep
  <2>3. Scope(ops, n, 1) = Inside(Scopes(ops)[Made(ops, n, 1)], ops, n, 1)
    BY <1>1, ScopeIs
  <2>4. n # NoGroup
    BY GroupsAssumption
  <2>5. Added(ops, n, 0)[1 - 1] = <<>>
    BY <1>1, <1>2
  <2>6. Scope(ops, n, 1) = [prefix |-> Root.prefix, middleware |-> Root.middleware \o <<>>]
    BY <2>1, <2>2, <2>3, <2>4, <2>5 DEF Inside
  <2>7. <<>> \o <<>> = <<>>
    BY ConcatEmptySeq, EmptySeq
  <2> QED
    BY <2>6, <2>7 DEF Root
<1>5. \A op : At(ops, op) = {}
  BY <1>1 DEF At
<1>6. ModulesOf(ops) = {}
  BY <1>5 DEF ModulesOf
<1>7. AllRoutes(ops) = {} /\ AllTasks(ops) = {}
  BY <1>5, <1>6 DEF AllRoutes, AllTasks, OwnRoutes, OwnTasks
<1> QED
  BY <1>1, <1>3, <1>4, <1>7

\* A new application has nothing.
LEMMA NewAppAgrees == NewApp \in AppType /\ Agrees(NewApp, <<>>)
<1>1. <<>> \in Seq(Operations) /\ Len(<<>>) = 0 /\ DOMAIN <<>> = {}
  BY EmptySeq
<1>2. NewApp \in AppType
  <2>1. <<>> \in Chains /\ <<>> \in Seq(RouteType)
    BY DEF Chains
  <2>2. Root \in ScopeType
    BY <2>1 DEF Root, ScopeType
  <2>3. [n \in Groups |-> Root] \in [Groups -> ScopeType]
    BY <2>2
  <2> QED
    BY <2>1, <2>3 DEF NewApp, AppType
<1>3. /\ Uses(<<>>) = <<>> /\ AllRoutes(<<>>) = {} /\ AllTasks(<<>>) = {}
      /\ \A n \in Groups : Scope(<<>>, n, Len(<<>>) + 1) = Root
  BY <1>1, NothingAsked
<1>4. NewApp.middleware = <<>> /\ NewApp.routes = <<>> /\ NewApp.tasks = <<>> /\ NewApp.groups = [n \in Groups |-> Root]
  BY DEF NewApp
<1>5. Entries(<<>>) = {} /\ ToSet(<<>>) = {}
  BY <1>1 DEF Entries, ToSet
<1>6. NoSlash(Root.prefix)
  BY DEF NoSlash, Root
<1>7. \A n \in Groups : NewApp.groups[n] = Root
  BY <1>4
<1>8. Agrees(NewApp, <<>>)
  BY <1>3, <1>4, <1>5, <1>6, <1>7 DEF Agrees
<1> QED
  BY <1>2, <1>8

\* The operations up to i, and the next one.
LEMMA PrefixGrows ==
    ASSUME NEW S, NEW s \in Seq(S), NEW i \in 1..Len(s)
    PROVE  /\ SubSeq(s, 1, i - 1) \in Seq(S) /\ s[i] \in S
           /\ SubSeq(s, 1, i) = Append(SubSeq(s, 1, i - 1), s[i])
<1>1. i \in Nat /\ i - 1 \in Nat /\ Len(s) \in Nat
  OBVIOUS
<1>2. \A j \in 1..i : s[j] \in S
  OBVIOUS
<1> DEFINE t == SubSeq(s, 1, i - 1)
           u == SubSeq(s, 1, i)
<1>3. /\ u \in Seq(S) /\ Len(u) = IF 1 <= i THEN i - 1 + 1 ELSE 0
      /\ \A j \in 1..(i - 1 + 1) : u[j] = s[1 + j - 1]
  BY <1>1, <1>2, SubSeqProperties
<1>4. /\ t \in Seq(S) /\ Len(t) = IF 1 <= i - 1 THEN (i - 1) - 1 + 1 ELSE 0
      /\ \A j \in 1..((i - 1) - 1 + 1) : t[j] = s[1 + j - 1]
  BY <1>1, <1>2, SubSeqProperties
<1> HIDE DEF t, u
<1>5. Len(u) = i /\ Len(t) = i - 1 /\ (\A j \in 1..i : u[j] = s[j]) /\ \A j \in 1..(i - 1) : t[j] = s[j]
  BY <1>1, <1>3, <1>4
<1>6. /\ Append(t, s[i]) \in Seq(S) /\ Len(Append(t, s[i])) = i /\ Append(t, s[i])[i] = s[i]
      /\ \A j \in 1..(i - 1) : Append(t, s[i])[j] = s[j]
  <2>1. /\ Append(t, s[i]) \in Seq(S) /\ Len(Append(t, s[i])) = Len(t) + 1
        /\ Append(t, s[i])[Len(t) + 1] = s[i] /\ \A j \in 1..Len(t) : Append(t, s[i])[j] = t[j]
    BY <1>2, <1>4, AppendProperties
  <2>2. Len(t) + 1 = i
    BY <1>1, <1>5
  <2> QED
    BY <1>5, <2>1, <2>2
<1>7. \A j \in 1..i : u[j] = Append(t, s[i])[j]
  <2> TAKE j \in 1..i
  <2>1. j = i \/ j \in 1..(i - 1)
    OBVIOUS
  <2> QED
    BY <2>1, <1>5, <1>6
<1>8. u = Append(t, s[i])
  BY <1>3, <1>5, <1>6, <1>7, SeqEqual
<1> QED
  BY <1>4, <1>8 DEF t, u

\* An application on which the operations of a module are executed one after the other.
LEMMA AppliedAgrees ==
    ASSUME NEW ops \in Seq(Operations), \A i \in 1..Len(ops) : ops[i].op # "register"
    PROVE  Applied(ops) \in AppType /\ Agrees(Applied(ops), ops)
<1> DEFINE After(f) == [i \in 0..Len(ops) |-> IF i = 0 THEN NewApp ELSE Apply(f[i - 1], ops[i])]
           folded == CHOOSE f : f = After(f)
           upTo(i) == SubSeq(ops, 1, i)
           from == [i \in 1..Len(ops) |-> i - 1]
           step(i, v) == IF Apply(v, ops[i]) \in AppType THEN Apply(v, ops[i]) ELSE v
           steps == [i \in 1..Len(ops) |-> [v \in AppType |-> step(i, v)]]
<1>1. Len(ops) \in Nat /\ upTo(0) = <<>> /\ upTo(Len(ops)) = ops
  BY SubSeqEmpty, SubSeqFull
<1>2. steps \in [1..Len(ops) -> [AppType -> AppType]] /\ from \in [1..Len(ops) -> Nat] /\ \A i \in 1..Len(ops) : from[i] < i
  OBVIOUS
<1>3. NewApp \in AppType /\ Agrees(NewApp, <<>>)
  BY NewAppAgrees
<1>4. PICK f \in [0..Len(ops) -> AppType] : Follows(f, Len(ops), NewApp, from, steps)
  <2> HIDE DEF from, steps
  <2> QED
    BY <1>1, <1>2, <1>3, RecursionTo
<1>5. \A i \in 1..Len(ops) : upTo(i - 1) \in Seq(Operations) /\ ops[i] \in Operations /\ upTo(i) = Append(upTo(i - 1), ops[i])
  BY PrefixGrows
<1> HIDE DEF upTo
<1>6. \A i \in 1..Len(ops) : \A v \in AppType :
          Agrees(v, upTo(i - 1)) => Apply(v, ops[i]) \in AppType /\ Agrees(Apply(v, ops[i]), upTo(i))
  BY <1>5, ApplyAgrees
<1>7. \A i \in 1..Len(ops) : f[i] = step(i, f[i - 1])
  <2> TAKE i \in 1..Len(ops)
  <2>1. f[i] = steps[i][f[i - 1]] /\ f[i - 1] \in AppType
    BY <1>4 DEF Follows
  <2> QED
    BY <2>1
<1> DEFINE S == {i \in 0..Len(ops) : Agrees(f[i], upTo(i)) /\ (i # 0 => f[i] = Apply(f[i - 1], ops[i]))}
<1>8. ASSUME NEW i \in 0..Len(ops), \A k \in 0..Len(ops) : k < i => k \in S
      PROVE  i \in S
  <2>1. CASE i = 0
    BY <2>1, <1>1, <1>3, <1>4 DEF Follows
  <2>2. CASE i # 0
    <3>1. i \in 1..Len(ops) /\ i - 1 \in S /\ f[i - 1] \in AppType
      BY <2>2, <1>1, <1>8
    <3>2. Apply(f[i - 1], ops[i]) \in AppType /\ Agrees(Apply(f[i - 1], ops[i]), upTo(i))
      BY <3>1, <1>6
    <3>3. f[i] = Apply(f[i - 1], ops[i])
      BY <3>1, <3>2, <1>7
    <3> QED
      BY <3>2, <3>3
  <2> QED
    BY <2>1, <2>2
<1>9. 0..Len(ops) \subseteq S
  <2> HIDE DEF S
  <2> QED
    BY <1>1, <1>8, InductionTo
<1>10. \A i \in 0..Len(ops) : f[i] = IF i = 0 THEN NewApp ELSE Apply(f[i - 1], ops[i])
  BY <1>4, <1>9 DEF Follows
<1>11. f = After(f)
  BY <1>10
<1>12. folded = After(folded)
  <2> HIDE DEF After
  <2> QED
    BY <1>11
<1>13. Applied(ops) = folded[Len(ops)]
  BY DEF Applied
<1> DEFINE T == {i \in 0..Len(ops) : folded[i] = f[i]}
<1> HIDE DEF folded
<1>14. ASSUME NEW i \in 0..Len(ops), \A k \in 0..Len(ops) : k < i => k \in T
       PROVE  i \in T
  <2>1. folded[i] = IF i = 0 THEN NewApp ELSE Apply(folded[i - 1], ops[i])
    BY <1>12
  <2>2. i # 0 => folded[i - 1] = f[i - 1]
    BY <1>14
  <2> QED
    BY <2>1, <2>2, <1>10
<1>15. 0..Len(ops) \subseteq T
  <2> HIDE DEF T
  <2> QED
    BY <1>1, <1>14, InductionTo
<1>16. folded[Len(ops)] = f[Len(ops)] /\ f[Len(ops)] \in AppType /\ Agrees(f[Len(ops)], upTo(Len(ops)))
  BY <1>1, <1>9, <1>15
<1> QED
  BY <1>1, <1>13, <1>16

--------------------------------------------------------------------------------
\* Modules.

\* A function on 1..n is a sequence.
LEMMA FunctionIsSeq ==
    ASSUME NEW S, NEW n \in Nat, NEW f \in [1..n -> S]
    PROVE  f \in Seq(S)
OBVIOUS

\* A route of a module is behind the middleware of the module.
LEMMA OfModuleIs ==
    ASSUME NEW r \in RouteType, NEW m \in Labels, NEW before \in Chains
    PROVE  /\ OfModule(r, m, before) \in RouteType
           /\ Entry(OfModule(r, m, before)) = [Entry(r) EXCEPT !.chain = before \o @]
<1> DEFINE c == before \o r.middleware
           s == OfModule(r, m, before)
<1>1. /\ r.method \in Labels /\ r.path \in Chains /\ r.name \in Labels /\ r.module \in Labels /\ r.middleware \in Chains
      /\ r = [method |-> r.method, path |-> r.path, name |-> r.name, module |-> r.module, middleware |-> r.middleware]
  BY DEF RouteType
<1>2. c \in Chains
  BY <1>1, ConcatProperties DEF Chains
<1>3. s = [[r EXCEPT !.module = m] EXCEPT !.middleware = c]
  BY DEF OfModule, RouteType
<1> HIDE DEF c, s
<1>4. [r EXCEPT !.module = m] \in RouteType /\ [r EXCEPT !.module = m].method = r.method
      /\ [r EXCEPT !.module = m].path = r.path /\ [r EXCEPT !.module = m].name = r.name
  BY <1>1 DEF RouteType
<1>5. s \in RouteType /\ s.middleware = c /\ s.method = r.method /\ s.path = r.path /\ s.name = r.name
  BY <1>2, <1>3, <1>4 DEF RouteType
<1>6. Entry(s) = [method |-> r.method, name |-> r.name, path |-> r.path, chain |-> c]
  BY <1>5 DEF Entry
<1>7. Entry(r) = [method |-> r.method, name |-> r.name, path |-> r.path, chain |-> r.middleware]
  BY DEF Entry
<1>8. [Entry(r) EXCEPT !.chain = before \o @] = [method |-> r.method, name |-> r.name, path |-> r.path, chain |-> c]
  <2>1. before \o Entry(r).chain = c
    BY <1>7 DEF c
  <2>2. [Entry(r) EXCEPT !.chain = before \o @] = [Entry(r) EXCEPT !.chain = c]
    BY <2>1
  <2> QED
    BY <1>7, <2>2
<1> QED
  BY <1>5, <1>6, <1>8 DEF s

\* What the operations of a module make.
LEMMA StageIs ==
    ASSUME NEW m \in DOMAIN Modules
    PROVE  /\ Stage(m) \in AppType
           /\ Entries(Stage(m).routes) = ModuleRoutes(m)
           /\ ToSet(Stage(m).tasks) = OwnTasks(Modules[m].script)
<1> DEFINE ops == Modules[m].script
           own == Applied(ops)
           routes == [i \in DOMAIN own.routes |-> OfModule(own.routes[i], m, own.middleware)]
<1>1. ops \in Seq(Operations) /\ \A i \in 1..Len(ops) : ops[i].op \in {"use", "handle", "group", "go", "onStart", "onStop"}
  BY ModuleScript
<1>2. own \in AppType /\ Agrees(own, ops)
  <2> HIDE DEF ops
  <2>1. \A i \in 1..Len(ops) : ops[i].op # "register"
    BY <1>1
  <2> QED
    BY <1>1, <2>1, AppliedAgrees
<1>3. Stage(m) = [own EXCEPT !.routes = routes]
  BY DEF Stage
<1> HIDE DEF own
<1>4. own.middleware \in Chains /\ own.routes \in Seq(RouteType) /\ m \in Labels /\ DOMAIN own.routes = 1..Len(own.routes)
  BY <1>2, AppFields, LabelsAssumption, LenProperties
<1>5. \A i \in 1..Len(own.routes) : own.routes[i] \in RouteType
  BY <1>4
<1>6. \A i \in 1..Len(own.routes) : routes[i] \in RouteType /\ routes[i] = OfModule(own.routes[i], m, own.middleware)
  BY <1>4, <1>5, OfModuleIs
<1>7. Len(own.routes) \in Nat /\ routes = [i \in 1..Len(own.routes) |-> routes[i]]
  BY <1>4
<1>8. DOMAIN routes = 1..Len(own.routes)
  BY <1>4
<1> HIDE DEF routes
<1>9. routes \in Seq(RouteType)
  <2>1. routes \in [1..Len(own.routes) -> RouteType]
    BY <1>6, <1>7
  <2> QED
    BY <1>7, <2>1, FunctionIsSeq
<1>10. Stage(m) \in AppType /\ Stage(m).routes = routes /\ Stage(m).tasks = own.tasks
  BY <1>2, <1>3, <1>9 DEF AppType
<1>11. ModulesOf(ops) = {}
  <2> HIDE DEF ops
  <2>1. DOMAIN ops = 1..Len(ops)
    BY <1>1, LenProperties
  <2>2. At(ops, "register") = {}
    BY <1>1, <2>1 DEF At
  <2> QED
    BY <2>2 DEF ModulesOf
<1>12. Entries(own.routes) = OwnRoutes(ops) /\ ToSet(own.tasks) = OwnTasks(ops) /\ own.middleware = Uses(ops)
  <2> HIDE DEF ops
  <2> QED
    BY <1>2, <1>11 DEF Agrees, AllRoutes, AllTasks
<1>13. Entries(routes) = Behind(own.middleware, Entries(own.routes))
  <2> DEFINE B(e) == [e EXCEPT !.chain = own.middleware \o @]
  <2>1. \A i \in 1..Len(own.routes) : Entry(routes[i]) = B(Entry(own.routes[i]))
    <3> TAKE i \in 1..Len(own.routes)
    <3>1. own.routes[i] \in RouteType /\ routes[i] = OfModule(own.routes[i], m, own.middleware)
      BY <1>5, <1>6
    <3>2. Entry(OfModule(own.routes[i], m, own.middleware)) = B(Entry(own.routes[i]))
      BY <1>4, <3>1, OfModuleIs
    <3> QED
      BY <3>1, <3>2
  <2>2. Entries(routes) = {Entry(routes[i]) : i \in 1..Len(own.routes)}
    BY <1>8 DEF Entries, ToSet
  <2>3. Entries(own.routes) = {Entry(own.routes[i]) : i \in 1..Len(own.routes)}
    BY <1>4 DEF Entries, ToSet
  <2>4. Behind(own.middleware, Entries(own.routes)) = {B(e) : e \in Entries(own.routes)}
    BY DEF Behind
  <2> HIDE DEF B
  <2> QED
    BY <2>1, <2>2, <2>3, <2>4
<1> QED
  BY <1>10, <1>12, <1>13 DEF ModuleRoutes

\* One module is added.
LEMMA JoinIs ==
    ASSUME NEW a \in AppType, NEW m \in DOMAIN Modules
    PROVE  /\ Becomes(a, Join(a, m), a.middleware, a.groups, a.routes \o Stage(m).routes, a.tasks \o Stage(m).tasks)
           /\ a.routes \in Seq(RouteType) /\ Stage(m).routes \in Seq(RouteType)
           /\ a.tasks \in Chains /\ Stage(m).tasks \in Chains
<1> DEFINE s == Stage(m)
           routes == a.routes \o s.routes
           modules == Append(a.modules, m)
           starts == a.startHooks + s.startHooks
           stops == a.stopHooks + s.stopHooks
           tasks == a.tasks \o s.tasks
<1>1. s \in AppType /\ m \in Labels
  BY StageIs, LabelsAssumption
<1> HIDE DEF s
<1>2. /\ a.routes \in Seq(RouteType) /\ s.routes \in Seq(RouteType) /\ a.tasks \in Chains /\ s.tasks \in Chains
      /\ a.modules \in Chains /\ a.startHooks \in Nat /\ a.stopHooks \in Nat /\ s.startHooks \in Nat /\ s.stopHooks \in Nat
  BY <1>1, AppFields
<1>3. routes \in Seq(RouteType)
  BY <1>2, ConcatProperties
<1>4. tasks \in Chains
  BY <1>2, ConcatProperties DEF Chains
<1>5. modules \in Chains
  BY <1>1, <1>2, AppendProperties DEF Chains
<1>6. starts \in Nat /\ stops \in Nat
  BY <1>2
<1>7. Join(a, m) = [a EXCEPT !.routes = routes, !.modules = modules, !.startHooks = starts, !.stopHooks = stops, !.tasks = tasks]
  BY DEF Join, s
<1> HIDE DEF routes, modules, starts, stops, tasks
<1>8. Join(a, m) = [middleware |-> a.middleware, http |-> a.http, routes |-> routes, modules |-> modules, groups |-> a.groups,
                    startHooks |-> starts, stopHooks |-> stops, tasks |-> tasks, async |-> a.async]
  BY <1>7 DEF AppType
<1>9. /\ a.middleware \in Chains /\ a.http \in Chains /\ a.groups \in [Groups -> ScopeType] /\ a.async \in {0, 1}
  BY AppFields
<1>10. Becomes(a, Join(a, m), a.middleware, a.groups, routes, tasks)
  BY <1>3, <1>4, <1>5, <1>6, <1>8, <1>9 DEF Becomes, AppType
<1> QED
  BY <1>2, <1>10 DEF routes, tasks, s

\* b is a with the modules of M.
Extends(a, b, M) ==
    /\ b \in AppType /\ b.middleware = a.middleware /\ b.groups = a.groups
    /\ Entries(b.routes) = Entries(a.routes) \union UNION {ModuleRoutes(m) : m \in M}
    /\ ToSet(b.tasks) = ToSet(a.tasks) \union UNION {OwnTasks(Modules[m].script) : m \in M}

\* One module more is added.
LEMMA JoinExtends ==
    ASSUME NEW a, NEW b, NEW M, Extends(a, b, M), NEW m \in DOMAIN Modules
    PROVE  Extends(a, Join(b, m), M \union {m})
<1> DEFINE c == Join(b, m)
<1>1. b \in AppType
  BY DEF Extends
<1>2. /\ Becomes(b, c, b.middleware, b.groups, b.routes \o Stage(m).routes, b.tasks \o Stage(m).tasks)
      /\ b.routes \in Seq(RouteType) /\ Stage(m).routes \in Seq(RouteType)
      /\ b.tasks \in Seq(Labels) /\ Stage(m).tasks \in Seq(Labels)
  BY <1>1, JoinIs DEF Chains
<1> HIDE DEF c
<1>3. ToSet(b.routes \o Stage(m).routes) = ToSet(b.routes) \union ToSet(Stage(m).routes)
  BY <1>2, ToSetConcat
<1>4. ToSet(b.tasks \o Stage(m).tasks) = ToSet(b.tasks) \union ToSet(Stage(m).tasks)
  BY <1>2, ToSetConcat
<1>5. Entries(Stage(m).routes) = ModuleRoutes(m) /\ ToSet(Stage(m).tasks) = OwnTasks(Modules[m].script)
  BY StageIs
<1>6. Entries(c.routes) = Entries(b.routes) \union ModuleRoutes(m)
  BY <1>2, <1>3, <1>5 DEF Entries, Becomes
<1>7. ToSet(c.tasks) = ToSet(b.tasks) \union OwnTasks(Modules[m].script)
  BY <1>2, <1>4, <1>5 DEF Becomes
<1>8. Entries(c.routes) = Entries(a.routes) \union UNION {ModuleRoutes(x) : x \in M \union {m}}
  BY <1>6 DEF Extends
<1>9. ToSet(c.tasks) = ToSet(a.tasks) \union UNION {OwnTasks(Modules[x].script) : x \in M \union {m}}
  BY <1>7 DEF Extends
<1>10. c \in AppType /\ c.middleware = a.middleware /\ c.groups = a.groups
  BY <1>2 DEF Extends, Becomes
<1> QED
  BY <1>8, <1>9, <1>10 DEF Extends, c

\* The modules of a call of Register are added together.
LEMMA JoinedExtends ==
    ASSUME NEW a \in AppType, NEW ms \in Seq(DOMAIN Modules)
    PROVE  Extends(a, Joined(a, ms), ToSet(ms))
<1> DEFINE After(f) == [i \in 0..Len(ms) |-> IF i = 0 THEN a ELSE Join(f[i - 1], ms[i])]
           joined == CHOOSE f : f = After(f)
           upTo(i) == ToSet(SubSeq(ms, 1, i))
           from == [i \in 1..Len(ms) |-> i - 1]
           steps == [i \in 1..Len(ms) |-> [v \in AppType |-> Join(v, ms[i])]]
<1>1. Len(ms) \in Nat /\ SubSeq(ms, 1, 0) = <<>> /\ SubSeq(ms, 1, Len(ms)) = ms
  BY SubSeqEmpty, SubSeqFull
<1>2. \A i \in 1..Len(ms) : ms[i] \in DOMAIN Modules /\ upTo(i) = upTo(i - 1) \union {ms[i]}
  <2> TAKE i \in 1..Len(ms)
  <2>1. /\ SubSeq(ms, 1, i - 1) \in Seq(DOMAIN Modules) /\ ms[i] \in DOMAIN Modules
        /\ SubSeq(ms, 1, i) = Append(SubSeq(ms, 1, i - 1), ms[i])
    BY PrefixGrows
  <2> DEFINE t == SubSeq(ms, 1, i - 1)
             m == ms[i]
             all == DOMAIN Modules
  <2>2. t \in Seq(all) /\ m \in all
    BY <2>1
  <2> HIDE DEF t, m, all
  <2>3. ToSet(Append(t, m)) = ToSet(t) \union {m}
    BY <2>2, ToSetAppend
  <2> QED
    BY <2>1, <2>3 DEF t, m
<1>3. upTo(0) = {} /\ upTo(Len(ms)) = ToSet(ms)
  <2>1. ToSet(<<>>) = {}
    BY EmptySeq DEF ToSet
  <2> QED
    BY <1>1, <2>1
<1> HIDE DEF upTo
<1>4. \A i \in 1..Len(ms) : \A v \in AppType : Join(v, ms[i]) \in AppType
  BY <1>2, JoinIs DEF Becomes
<1>5. steps \in [1..Len(ms) -> [AppType -> AppType]] /\ from \in [1..Len(ms) -> Nat] /\ \A i \in 1..Len(ms) : from[i] < i
  BY <1>4
<1>6. PICK f \in [0..Len(ms) -> AppType] : Follows(f, Len(ms), a, from, steps)
  <2> HIDE DEF from, steps
  <2> QED
    BY <1>1, <1>5, RecursionTo
<1>7. \A i \in 1..Len(ms) : f[i] = Join(f[i - 1], ms[i])
  <2> TAKE i \in 1..Len(ms)
  <2>1. f[i] = steps[i][f[i - 1]] /\ f[i - 1] \in AppType
    BY <1>6 DEF Follows
  <2> QED
    BY <2>1
<1>8. \A i \in 0..Len(ms) : f[i] = IF i = 0 THEN a ELSE Join(f[i - 1], ms[i])
  <2>1. \A i \in 0..Len(ms) : i = 0 \/ i \in 1..Len(ms)
    BY <1>1
  <2> QED
    BY <1>6, <1>7, <2>1 DEF Follows
<1>9. f = After(f)
  BY <1>8
<1>10. joined = After(joined)
  <2> HIDE DEF After
  <2> QED
    BY <1>9
<1>11. Joined(a, ms) = joined[Len(ms)]
  BY DEF Joined
<1> HIDE DEF joined
<1> DEFINE S == {i \in 0..Len(ms) : Extends(a, joined[i], upTo(i))}
<1>12. ASSUME NEW i \in 0..Len(ms), \A k \in 0..Len(ms) : k < i => k \in S
       PROVE  i \in S
  <2>1. joined[i] = IF i = 0 THEN a ELSE Join(joined[i - 1], ms[i])
    BY <1>10
  <2>2. CASE i = 0
    BY <2>1, <2>2, <1>3 DEF Extends
  <2>3. CASE i # 0
    <3>1. i \in 1..Len(ms) /\ Extends(a, joined[i - 1], upTo(i - 1))
      BY <2>3, <1>1, <1>12
    <3>2. Extends(a, Join(joined[i - 1], ms[i]), upTo(i - 1) \union {ms[i]})
      BY <3>1, <1>2, JoinExtends
    <3> QED
      BY <2>1, <2>3, <3>1, <3>2, <1>2
  <2> QED
    BY <2>2, <2>3
<1>13. 0..Len(ms) \subseteq S
  <2> HIDE DEF S
  <2> QED
    BY <1>1, <1>12, InductionTo
<1> QED
  BY <1>1, <1>3, <1>11, <1>13

\* A call of Register does what it asks for.
LEMMA RegisterAgrees ==
    ASSUME NEW a \in AppType, NEW ops \in Seq(Operations), NEW o \in Operations, Agrees(a, ops), o.op = "register"
    PROVE  Joined(a, o.modules) \in AppType /\ Agrees(Joined(a, o.modules), Append(ops, o))
<1> DEFINE b == Joined(a, o.modules)
           more == Append(ops, o)
           M == ToSet(o.modules)
<1>1. o.modules \in Seq(DOMAIN Modules)
  BY OperationFields
<1>2. Extends(a, b, M)
  BY <1>1, JoinedExtends
<1>3. Len(more) + 1 = Len(ops) + 2
  BY OneMore
<1>4. Uses(more) = Uses(ops)
  BY UsesNext
<1>5. \A n \in Groups : Scope(more, n, Len(ops) + 2) = Scope(ops, n, Len(ops) + 1)
  BY ScopeNext
<1>6. OwnRoutes(more) = OwnRoutes(ops) /\ OwnTasks(more) = OwnTasks(ops)
  BY RoutesNext, TasksNext
<1>7. ModulesOf(more) = ModulesOf(ops) \union M
  BY ModulesNext
<1> HIDE DEF b, more, M
<1>8. AllRoutes(more) = AllRoutes(ops) \union UNION {ModuleRoutes(m) : m \in M}
  BY <1>6, <1>7 DEF AllRoutes, ModuleRoutes
<1>9. AllTasks(more) = AllTasks(ops) \union UNION {OwnTasks(Modules[m].script) : m \in M}
  BY <1>6, <1>7 DEF AllTasks
<1>10. Agrees(b, more)
  BY <1>2, <1>3, <1>4, <1>5, <1>8, <1>9 DEF Agrees, Extends
<1> QED
  BY <1>2, <1>10 DEF Extends, b, more

--------------------------------------------------------------------------------
\* The invariant of registration and first use.

UserPlaces == {"load", "build", "serve", "listen", "run", "failed", "ran"}

\* What has been registered is what was asked for, and what is left to do are operations.
RegistrationInv ==
    /\ app \in AppType
    /\ log \in Seq(Operations)
    /\ script \in [Registrars -> Seq(Operations)]
    /\ checked \in [Registrars -> BOOLEAN]
    /\ \A g \in Registrars : checked[g] => script[g] # <<>> /\ Head(script[g]).op = "register"
    /\ Agrees(app, log)

\* What is served and run is what is registered, which does not change any more.
FirstUseInv ==
    /\ user \in [Users -> UserPlaces]
    /\ listening \subseteq Users
    /\ built => ~Mutable /\ compiled = Compile(app)
    /\ ~Mutable => buildErr \/ built
    /\ started # Nothing => built /\ started = Registered
    /\ \A u \in Users : user[u] \in {"listen", "run"} => built
    /\ \A u \in Users : user[u] = "ran" => state = "starting"
    /\ \A u, v \in Users : user[u] = "ran" /\ user[v] = "ran" => u = v
    /\ \A u \in listening : user[u] \in {"run", "ran"}

RegistryInv == RegistrationInv /\ FirstUseInv

\* It holds in a new application.
LEMMA RegistryInitInv == RegistryInit => RegistryInv
<1> SUFFICES ASSUME RegistryInit PROVE RegistryInv
  OBVIOUS
<1>1. RegistrationInv
  <2>1. app \in AppType /\ log = <<>> /\ Agrees(app, log) /\ <<>> \in Seq(Operations)
    BY NewAppAgrees, EmptySeq DEF RegistryInit
  <2>2. script \in [Registrars -> Seq(Operations)]
    BY ScriptsAssumption DEF RegistryInit
  <2>3. checked \in [Registrars -> BOOLEAN] /\ \A g \in Registrars : ~checked[g]
    BY DEF RegistryInit
  <2> QED
    BY <2>1, <2>2, <2>3 DEF RegistrationInv
<1>2. FirstUseInv
  <2>1. user \in [Users -> UserPlaces] /\ \A u \in Users : user[u] \in {"load", "build"}
    BY DEF RegistryInit, UserPlaces
  <2>2. listening = {} /\ built = FALSE /\ Mutable /\ started = Nothing
    BY DEF RegistryInit, Mutable
  <2> QED
    BY <2>1, <2>2 DEF FirstUseInv
<1> QED
  BY <1>1, <1>2 DEF RegistryInv

\* Head and tail of what a goroutine has left.
LEMMA ScriptStep ==
    ASSUME RegistrationInv, NEW g \in Registrars, script[g] # <<>>
    PROVE  /\ Head(script[g]) \in Operations
           /\ \A s \in Seq(Operations) : [script EXCEPT ![g] = s] \in [Registrars -> Seq(Operations)]
           /\ Tail(script[g]) \in Seq(Operations)
           /\ [script EXCEPT ![g] = Tail(@)] = [script EXCEPT ![g] = Tail(script[g])]
<1>1. script[g] \in Seq(Operations)
  BY DEF RegistrationInv
<1>2. Head(script[g]) \in Operations /\ Tail(script[g]) \in Seq(Operations)
  BY <1>1, HeadTailProperties
<1>3. \A s \in Seq(Operations) : [script EXCEPT ![g] = s] \in [Registrars -> Seq(Operations)]
  BY DEF RegistrationInv
<1> QED
  BY <1>2, <1>3

\* What is compiled and what is run depend on parts of the application that only a group
\* leaves alone.
LEMMA GroupAside ==
    ASSUME NEW a \in AppType, NEW o, o.op = "group"
    PROVE  /\ Compile(Apply(a, o)) = Compile(a)
           /\ Apply(a, o).startHooks = a.startHooks /\ Apply(a, o).stopHooks = a.stopHooks
           /\ Apply(a, o).tasks = a.tasks /\ Apply(a, o).async = a.async
<1>1. PICK groups : Apply(a, o) = [a EXCEPT !.groups = groups]
  BY DEF Apply, NewGroup
<1>2. /\ [a EXCEPT !.groups = groups].routes = a.routes /\ [a EXCEPT !.groups = groups].middleware = a.middleware
      /\ [a EXCEPT !.groups = groups].startHooks = a.startHooks /\ [a EXCEPT !.groups = groups].stopHooks = a.stopHooks
      /\ [a EXCEPT !.groups = groups].tasks = a.tasks /\ [a EXCEPT !.groups = groups].async = a.async
  BY DEF AppType
<1> QED
  BY <1>1, <1>2 DEF Compile

\* The first use is not disturbed by what is registered before it, nor by a group.
LEMMA FirstUseAside ==
    ASSUME FirstUseInv, UNCHANGED <<state, buildErr, built, compiled, user, listening, started>>,
           \/ Mutable
           \/ Compile(app') = Compile(app) /\ Registered' = Registered
    PROVE  FirstUseInv'
<1>1. CASE Mutable
  <2>1. ~built /\ started = Nothing /\ Mutable'
    BY <1>1 DEF FirstUseInv, Mutable
  <2> QED
    BY <1>1, <2>1 DEF FirstUseInv, Mutable, Nothing
<1>2. CASE Compile(app') = Compile(app) /\ Registered' = Registered
  <2>1. Mutable' = Mutable
    BY DEF Mutable
  <2>2. Compile(app)' = Compile(app')
    BY DEF Compile
  <2>3. built => ~Mutable /\ compiled = Compile(app)
    BY DEF FirstUseInv
  <2>4. (built => ~Mutable /\ compiled = Compile(app))'
    BY <1>2, <2>1, <2>2, <2>3
  <2>5. (started # Nothing => built /\ started = Registered)'
    BY <1>2 DEF FirstUseInv, Nothing
  <2>6. (~Mutable => buildErr \/ built)'
    BY <2>1 DEF FirstUseInv
  <2>7. /\ user' \in [Users -> UserPlaces] /\ listening' \subseteq Users
        /\ \A u \in Users : user'[u] \in {"listen", "run"} => built'
        /\ \A u \in Users : user'[u] = "ran" => state' = "starting"
        /\ \A u, v \in Users : user'[u] = "ran" /\ user'[v] = "ran" => u = v
        /\ \A u \in listening' : user'[u] \in {"run", "ran"}
    BY DEF FirstUseInv
  <2> QED
    BY <2>4, <2>5, <2>6, <2>7 DEF FirstUseInv
<1> QED
  BY <1>1, <1>2

\* A goroutine that has taken its first look stays before its call of Register.
LEMMA ScriptAside ==
    ASSUME RegistrationInv, NEW g \in Registrars, script[g] # <<>>, NEW s \in Seq(Operations),
           script' = [script EXCEPT ![g] = s], checked' = [checked EXCEPT ![g] = FALSE]
    PROVE  /\ script' \in [Registrars -> Seq(Operations)]
           /\ checked' \in [Registrars -> BOOLEAN]
           /\ \A h \in Registrars : checked'[h] => script'[h] # <<>> /\ Head(script'[h]).op = "register"
<1>1. script' \in [Registrars -> Seq(Operations)]
  BY ScriptStep
<1>2. checked' \in [Registrars -> BOOLEAN] /\ ~checked'[g] /\ \A h \in Registrars \ {g} : checked'[h] = checked[h]
  BY DEF RegistrationInv
<1>3. \A h \in Registrars \ {g} : script'[h] = script[h]
  BY DEF RegistrationInv
<1> QED
  BY <1>1, <1>2, <1>3 DEF RegistrationInv

\* Every operation but Register keeps the invariant.
LEMMA RegistersStep ==
    ASSUME RegistryInv, NEW g \in Registrars, Registers(g)
    PROVE  RegistryInv'
<1> DEFINE o == Head(script[g])
<1>1. /\ script[g] # <<>> /\ o.op # "register" /\ RegistrationInv /\ FirstUseInv
      /\ UNCHANGED <<config, checked, state, buildErr, built, compiled, user, listening, started>>
  BY DEF Registers, RegistryInv
<1>2. o \in Operations /\ Tail(script[g]) \in Seq(Operations) /\ <<>> \in Seq(Operations)
  BY <1>1, ScriptStep, EmptySeq
<1>3. ~checked[g] /\ checked' = [checked EXCEPT ![g] = FALSE]
  BY <1>1 DEF RegistrationInv
<1>4. \E s \in Seq(Operations) : script' = [script EXCEPT ![g] = s]
  <2>1. \/ script' = [script EXCEPT ![g] = Tail(script[g])]
        \/ script' = [script EXCEPT ![g] = <<>>]
    BY <1>1, ScriptStep DEF Registers, Advance
  <2> QED
    BY <1>2, <2>1
<1>5. /\ script' \in [Registrars -> Seq(Operations)]
      /\ checked' \in [Registrars -> BOOLEAN]
      /\ \A h \in Registrars : checked'[h] => script'[h] # <<>> /\ Head(script'[h]).op = "register"
  BY <1>1, <1>3, <1>4, ScriptAside
<1>6. \/ (Mutable \/ o.op = "group") /\ app' = Apply(app, o) /\ log' = Append(log, o)
      \/ UNCHANGED <<app, log>>
  BY DEF Registers
<1>7. CASE (Mutable \/ o.op = "group") /\ app' = Apply(app, o) /\ log' = Append(log, o)
  <2>1. app' \in AppType /\ Agrees(app', log')
    BY <1>1, <1>2, <1>7, ApplyAgrees DEF RegistrationInv
  <2>2. log' \in Seq(Operations)
    BY <1>1, <1>2, <1>7, OneMore DEF RegistrationInv
  <2>3. RegistrationInv'
    BY <1>5, <2>1, <2>2 DEF RegistrationInv
  <2>4. Mutable \/ (Compile(app') = Compile(app) /\ Registered' = Registered)
    <3>1. SUFFICES ASSUME o.op = "group" PROVE Compile(app') = Compile(app) /\ Registered' = Registered
      BY <1>7
    <3>2. app \in AppType
      BY <1>1 DEF RegistrationInv
    <3> HIDE DEF o
    <3>3. /\ Compile(app') = Compile(app) /\ app'.startHooks = app.startHooks /\ app'.stopHooks = app.stopHooks
          /\ app'.tasks = app.tasks /\ app'.async = app.async
      BY <1>7, <3>1, <3>2, GroupAside
    <3> QED
      BY <3>3 DEF Registered
  <2>5. FirstUseInv'
    BY <1>1, <2>4, FirstUseAside
  <2> QED
    BY <2>3, <2>5 DEF RegistryInv
<1>8. CASE UNCHANGED <<app, log>>
  <2>1. RegistrationInv'
    BY <1>1, <1>5, <1>8 DEF RegistrationInv, Agrees
  <2>2. Compile(app') = Compile(app) /\ Registered' = Registered
    BY <1>8 DEF Registered
  <2>3. FirstUseInv'
    BY <1>1, <2>2, FirstUseAside
  <2> QED
    BY <2>1, <2>3 DEF RegistryInv
<1> QED
  BY <1>6, <1>7, <1>8

\* So does the first look of Register.
LEMMA StagesStep ==
    ASSUME RegistryInv, NEW g \in Registrars, RegisterStages(g)
    PROVE  RegistryInv'
<1>1. /\ script[g] # <<>> /\ Head(script[g]).op = "register" /\ ~checked[g] /\ RegistrationInv /\ FirstUseInv
      /\ UNCHANGED <<config, app, state, buildErr, built, compiled, user, listening, started, log>>
  BY DEF RegisterStages, RegistryInv
<1>2. /\ script' \in [Registrars -> Seq(Operations)]
      /\ checked' \in [Registrars -> BOOLEAN]
      /\ \A h \in Registrars : checked'[h] => script'[h] # <<>> /\ Head(script'[h]).op = "register"
  <2>1. CASE checked' = [checked EXCEPT ![g] = TRUE] /\ UNCHANGED script
    BY <1>1, <2>1 DEF RegistrationInv
  <2>2. CASE Advance(g) /\ UNCHANGED checked
    <3>1. checked' = [checked EXCEPT ![g] = FALSE]
      BY <1>1, <2>2 DEF RegistrationInv
    <3>2. script' = [script EXCEPT ![g] = Tail(script[g])] /\ Tail(script[g]) \in Seq(Operations)
      BY <1>1, <2>2, ScriptStep DEF Advance
    <3> QED
      BY <1>1, <3>1, <3>2, ScriptAside
  <2> QED
    BY <2>1, <2>2 DEF RegisterStages
<1>3. RegistrationInv'
  BY <1>1, <1>2 DEF RegistrationInv, Agrees
<1>4. Compile(app') = Compile(app) /\ Registered' = Registered
  BY <1>1 DEF Registered
<1>5. FirstUseInv'
  BY <1>1, <1>4, FirstUseAside
<1> QED
  BY <1>3, <1>5 DEF RegistryInv

\* So does its commit, which looks at the state again.
LEMMA CommitsStep ==
    ASSUME RegistryInv, NEW g \in Registrars, RegisterCommits(g)
    PROVE  RegistryInv'
<1> DEFINE o == Head(script[g])
<1>1. /\ checked[g] /\ checked' = [checked EXCEPT ![g] = FALSE] /\ RegistrationInv /\ FirstUseInv /\ Advance(g)
      /\ UNCHANGED <<config, state, buildErr, built, compiled, user, listening, started>>
  BY DEF RegisterCommits, RegistryInv
<1>2. script[g] # <<>> /\ o.op = "register"
  BY <1>1 DEF RegistrationInv
<1>3. o \in Operations /\ Tail(script[g]) \in Seq(Operations) /\ script' = [script EXCEPT ![g] = Tail(script[g])]
  BY <1>1, <1>2, ScriptStep DEF Advance
<1>4. /\ script' \in [Registrars -> Seq(Operations)]
      /\ checked' \in [Registrars -> BOOLEAN]
      /\ \A h \in Registrars : checked'[h] => script'[h] # <<>> /\ Head(script'[h]).op = "register"
  BY <1>1, <1>2, <1>3, ScriptAside
<1>5. \/ Mutable /\ app' = Joined(app, o.modules) /\ log' = Append(log, o)
      \/ UNCHANGED <<app, log>>
  BY DEF RegisterCommits
<1>6. CASE Mutable /\ app' = Joined(app, o.modules) /\ log' = Append(log, o)
  <2>1. app' \in AppType /\ Agrees(app', log')
    BY <1>1, <1>2, <1>3, <1>6, RegisterAgrees DEF RegistrationInv
  <2>2. log' \in Seq(Operations)
    BY <1>1, <1>3, <1>6, OneMore DEF RegistrationInv
  <2>3. RegistrationInv'
    BY <1>4, <2>1, <2>2 DEF RegistrationInv
  <2>4. FirstUseInv'
    BY <1>1, <1>6, FirstUseAside
  <2> QED
    BY <2>3, <2>4 DEF RegistryInv
<1>7. CASE UNCHANGED <<app, log>>
  <2>1. RegistrationInv'
    BY <1>1, <1>4, <1>7 DEF RegistrationInv, Agrees
  <2>2. Compile(app') = Compile(app) /\ Registered' = Registered
    BY <1>7 DEF Registered
  <2>3. FirstUseInv'
    BY <1>1, <2>2, FirstUseAside
  <2> QED
    BY <2>1, <2>3 DEF RegistryInv
<1> QED
  BY <1>5, <1>6, <1>7

--------------------------------------------------------------------------------
\* The users.

\* What is registered does not depend on the users.
LEMMA RegistrationAside ==
    ASSUME RegistrationInv, UNCHANGED <<script, checked, app, log>>
    PROVE  RegistrationInv'
BY DEF RegistrationInv, Agrees

\* The fast path of ServeHTTP keeps the invariant.
LEMMA LoadsStep ==
    ASSUME RegistryInv, NEW u \in Users, Loads(u)
    PROVE  RegistryInv'
<1>1. /\ user[u] = "load" /\ user' = [user EXCEPT ![u] = IF built THEN "serve" ELSE "build"]
      /\ UNCHANGED <<config, script, checked, app, state, buildErr, built, compiled, listening, started, log>>
      /\ RegistrationInv /\ FirstUseInv
  BY DEF Loads, appVars, RegistryInv
<1>2. RegistrationInv'
  BY <1>1, RegistrationAside
<1>3. user'[u] \in {"serve", "build"} /\ user' \in [Users -> UserPlaces] /\ \A v \in Users \ {u} : user'[v] = user[v]
  BY <1>1 DEF FirstUseInv, UserPlaces
<1>4. Mutable' = Mutable /\ Compile(app)' = Compile(app) /\ Registered' = Registered /\ Nothing' = Nothing
  BY <1>1 DEF Mutable, Compile, Registered, Nothing
<1>5. u \notin listening
  BY <1>1 DEF FirstUseInv
<1>6. FirstUseInv'
  BY <1>1, <1>3, <1>4, <1>5 DEF FirstUseInv
<1> QED
  BY <1>2, <1>6 DEF RegistryInv

\* So does Build, which freezes what is registered.
LEMMA BuildsStep ==
    ASSUME RegistryInv, NEW u \in Users, Builds(u)
    PROVE  RegistryInv'
<1> DEFINE place == IF buildErr' THEN "failed" ELSE IF u \in RunCallers THEN "listen" ELSE "serve"
<1>1. /\ user[u] = "build" /\ user' = [user EXCEPT ![u] = place] /\ Build
      /\ UNCHANGED <<config, script, checked, app, listening, started, log>>
      /\ RegistrationInv /\ FirstUseInv
  BY DEF Builds, RegistryInv
<1>2. RegistrationInv'
  BY <1>1, RegistrationAside
<1>3. Compile(app)' = Compile(app) /\ Registered' = Registered /\ Nothing' = Nothing
  BY <1>1 DEF Compile, Registered, Nothing
<1>4. /\ built' => ~Mutable' /\ compiled' = Compile(app)
      /\ ~Mutable' /\ (buildErr' \/ built')
      /\ built => built'
      /\ state = "starting" => state' = "starting"
  <2>1. CASE Mutable
    <3>1. /\ state' = "built" /\ buildErr' = ~Valid(app) /\ built' = Valid(app)
          /\ compiled' = IF Valid(app) THEN Compile(app) ELSE compiled
      BY <1>1, <2>1 DEF Build
    <3>2. ~built /\ state # "starting" /\ ~Mutable'
      BY <2>1, <3>1 DEF FirstUseInv, Mutable, RegistryInv
    <3> HIDE DEF place
    <3>3. CASE Valid(app)
      BY <3>1, <3>2, <3>3
    <3>4. CASE ~Valid(app)
      BY <3>1, <3>2, <3>4
    <3> QED
      BY <3>3, <3>4
  <2>2. CASE ~Mutable
    BY <1>1, <2>2 DEF Build, FirstUseInv, Mutable
  <2> QED
    BY <2>1, <2>2
<1>5. /\ user'[u] = place /\ user' \in [Users -> UserPlaces] /\ \A v \in Users \ {u} : user'[v] = user[v]
      /\ place \in {"failed", "listen", "serve"} /\ (place = "listen" => ~buildErr')
  <2>1. place \in {"failed", "listen", "serve"} /\ (place = "listen" => ~buildErr')
    OBVIOUS
  <2> HIDE DEF place
  <2> QED
    BY <1>1, <2>1 DEF FirstUseInv, UserPlaces
<1> HIDE DEF place
<1>6. u \notin listening
  BY <1>1 DEF FirstUseInv
<1>7. \A v \in Users : user'[v] \in {"listen", "run"} => built'
  BY <1>1, <1>4, <1>5 DEF FirstUseInv
<1>8. \A v \in Users : user'[v] = "ran" => v # u /\ user[v] = "ran"
  BY <1>5
<1>9. \A v \in listening' : user'[v] \in {"run", "ran"}
  BY <1>1, <1>5, <1>6 DEF FirstUseInv
<1>10. started' # Nothing => built' /\ started' = Registered'
  BY <1>1, <1>3, <1>4 DEF FirstUseInv
<1>11. FirstUseInv'
  BY <1>1, <1>3, <1>4, <1>5, <1>7, <1>8, <1>9, <1>10 DEF FirstUseInv
<1> QED
  BY <1>2, <1>11 DEF RegistryInv

\* So does the listener of Run.
LEMMA ListensStep ==
    ASSUME RegistryInv, NEW u \in Users, Listens(u)
    PROVE  RegistryInv'
<1>1. /\ user[u] = "listen"
      /\ UNCHANGED <<config, script, checked, app, state, buildErr, built, compiled, started, log>>
      /\ RegistrationInv /\ FirstUseInv
  BY DEF Listens, RegistryInv
<1>2. \/ listening' = listening \union {u} /\ user' = [user EXCEPT ![u] = "run"]
      \/ listening' = listening /\ user' = [user EXCEPT ![u] = "failed"]
  BY DEF Listens
<1>3. RegistrationInv'
  BY <1>1, RegistrationAside
<1>4. Mutable' = Mutable /\ Compile(app)' = Compile(app) /\ Registered' = Registered /\ Nothing' = Nothing
  BY <1>1 DEF Mutable, Compile, Registered, Nothing
<1>5. built /\ u \notin listening
  BY <1>1 DEF FirstUseInv
<1>6. user' \in [Users -> UserPlaces] /\ (\A v \in Users \ {u} : user'[v] = user[v]) /\ user'[u] \in {"run", "failed"}
  BY <1>2, <1>1 DEF FirstUseInv, UserPlaces
<1>7. listening' \subseteq Users /\ \A v \in listening' : user'[v] \in {"run", "ran"}
  <2>1. CASE listening' = listening \union {u} /\ user' = [user EXCEPT ![u] = "run"]
    BY <2>1, <1>1, <1>6 DEF FirstUseInv
  <2>2. CASE listening' = listening /\ user' = [user EXCEPT ![u] = "failed"]
    BY <2>2, <1>1, <1>5, <1>6 DEF FirstUseInv
  <2> QED
    BY <1>2, <2>1, <2>2
<1>8. FirstUseInv'
  BY <1>1, <1>4, <1>5, <1>6, <1>7 DEF FirstUseInv
<1> QED
  BY <1>3, <1>8 DEF RegistryInv

\* So does the copy of runLifecycle, which only one Run takes.
LEMMA RunsStep ==
    ASSUME RegistryInv, NEW u \in Users, Runs(u)
    PROVE  RegistryInv'
<1>1. /\ user[u] = "run"
      /\ UNCHANGED <<config, script, checked, app, buildErr, built, compiled, log>>
      /\ RegistrationInv /\ FirstUseInv
  BY DEF Runs, RegistryInv
<1>2. RegistrationInv'
  BY <1>1, RegistrationAside
<1>3. Compile(app)' = Compile(app) /\ Registered' = Registered /\ Nothing' = Nothing
  BY <1>1 DEF Compile, Registered, Nothing
<1>4. built /\ ~Mutable
  BY <1>1 DEF FirstUseInv
<1>5. CASE state = "built" /\ state' = "starting" /\ started' = Registered /\ user' = [user EXCEPT ![u] = "ran"] /\ UNCHANGED listening
  <2>1. /\ user'[u] = "ran" /\ user' \in [Users -> UserPlaces] /\ \A v \in Users \ {u} : user'[v] = user[v]
    BY <1>1, <1>5 DEF FirstUseInv, UserPlaces
  <2>2. \A v \in Users : user[v] # "ran"
    BY <1>1, <1>5 DEF FirstUseInv
  <2>3. ~Mutable'
    BY <1>5 DEF Mutable
  <2>4. \A v \in listening' : user'[v] \in {"run", "ran"}
    BY <1>1, <1>5, <2>1 DEF FirstUseInv
  <2>5. \A v \in Users : user'[v] = "ran" => v = u
    BY <2>1, <2>2
  <2>6. FirstUseInv'
    BY <1>1, <1>3, <1>4, <1>5, <2>1, <2>3, <2>4, <2>5 DEF FirstUseInv
  <2> QED
    BY <1>2, <2>6 DEF RegistryInv
<1>6. CASE user' = [user EXCEPT ![u] = "failed"] /\ listening' = listening \ {u} /\ UNCHANGED <<state, started>>
  <2>1. /\ user'[u] = "failed" /\ user' \in [Users -> UserPlaces] /\ \A v \in Users \ {u} : user'[v] = user[v]
    BY <1>1, <1>6 DEF FirstUseInv, UserPlaces
  <2>2. Mutable' = Mutable
    BY <1>6 DEF Mutable
  <2>3. listening' \subseteq Users /\ \A v \in listening' : user'[v] \in {"run", "ran"}
    BY <1>1, <1>6, <2>1 DEF FirstUseInv
  <2>4. FirstUseInv'
    BY <1>1, <1>3, <1>4, <1>6, <2>1, <2>2, <2>3 DEF FirstUseInv
  <2> QED
    BY <1>2, <2>4 DEF RegistryInv
<1> QED
  BY <1>5, <1>6 DEF Runs

\* All that the application does: the limiter and the time leave the registry alone.
LEMMA RegistryAside ==
    ASSUME RegistryInv, UNCHANGED registryVars
    PROVE  RegistryInv'
<1>1. /\ UNCHANGED <<config, script, checked, app, state, buildErr, built, compiled, listening, started, log, user>>
      /\ RegistrationInv /\ FirstUseInv
  BY DEF registryVars, appVars, RegistryInv
<1>2. RegistrationInv'
  BY <1>1, RegistrationAside
<1>3. Compile(app') = Compile(app) /\ Registered' = Registered
  BY <1>1 DEF Registered
<1>4. FirstUseInv'
  BY <1>1, <1>3, FirstUseAside
<1> QED
  BY <1>2, <1>4 DEF RegistryInv

\* Every step of the application keeps the invariant.
LEMMA RegistryNextInv == RegistryInv /\ [AppNext]_allVars => RegistryInv'
<1> SUFFICES ASSUME RegistryInv, [AppNext]_allVars PROVE RegistryInv'
  OBVIOUS
<1>1. ASSUME NEW g \in Registrars, Register(g) PROVE RegistryInv'
  BY <1>1, RegistersStep, StagesStep, CommitsStep DEF Register
<1>2. ASSUME NEW u \in Users, FirstUse(u) PROVE RegistryInv'
  BY <1>2, LoadsStep, BuildsStep, ListensStep, RunsStep DEF FirstUse
<1>3. CASE UNCHANGED registryVars
  BY <1>3, RegistryAside
<1>4. AllDone => UNCHANGED registryVars
  BY DEF AllDone, allVars
<1>5. UNCHANGED allVars => UNCHANGED registryVars
  BY DEF allVars
<1> QED
  BY <1>1, <1>2, <1>3, <1>4, <1>5 DEF AppNext

\* Compile puts the middleware of the application before that of every route.
LEMMA CompiledIs ==
    ASSUME NEW a
    PROVE  {Served(c) : c \in ToSet(Compile(a))} = Behind(a.middleware, Entries(a.routes))
<1> DEFINE whole(r) == [route |-> r, chain |-> a.middleware \o r.middleware]
           compiled_ == Compile(a)
<1>1. DOMAIN compiled_ = DOMAIN a.routes /\ \A i \in DOMAIN a.routes : compiled_[i] = whole(a.routes[i])
  BY DEF Compile
<1>2. ToSet(compiled_) = {compiled_[i] : i \in DOMAIN compiled_} /\ ToSet(a.routes) = {a.routes[i] : i \in DOMAIN a.routes}
  BY DEF ToSet
<1>3. \A r : Served(whole(r)) = [Entry(r) EXCEPT !.chain = a.middleware \o @]
  <2> TAKE r
  <2> DEFINE chain_ == a.middleware \o r.middleware
  <2>1. Entry(r).chain = r.middleware
    BY DEF Entry
  <2>2. [Entry(r) EXCEPT !.chain = a.middleware \o @] = [Entry(r) EXCEPT !.chain = chain_]
    BY <2>1
  <2>3. Served(whole(r)) = [method |-> r.method, name |-> r.name, path |-> r.path, chain |-> chain_]
    BY DEF Served
  <2> HIDE DEF chain_
  <2>4. [Entry(r) EXCEPT !.chain = chain_] = [method |-> r.method, name |-> r.name, path |-> r.path, chain |-> chain_]
    BY DEF Entry
  <2> QED
    BY <2>2, <2>3, <2>4
<1> HIDE DEF whole, compiled_
<1>4. ToSet(compiled_) = {whole(r) : r \in ToSet(a.routes)}
  BY <1>1, <1>2
<1>5. {Served(c) : c \in ToSet(compiled_)} = {Served(whole(r)) : r \in ToSet(a.routes)}
  BY <1>4
<1>6. Behind(a.middleware, Entries(a.routes)) = {[Entry(r) EXCEPT !.chain = a.middleware \o @] : r \in ToSet(a.routes)}
  BY DEF Behind, Entries
<1> QED
  BY <1>3, <1>5, <1>6 DEF compiled_

\* What the invariant says of what is served and run.
LEMMA ServedFromInv == RegistryInv => ServedAsRegistered
<1> SUFFICES ASSUME RegistryInv PROVE ServedAsRegistered
  OBVIOUS
<1>1. RegistrationInv /\ FirstUseInv /\ Agrees(app, log)
  BY DEF RegistryInv, RegistrationInv
<1>2. built => {Served(c) : c \in ToSet(compiled)} = Behind(Uses(log), AllRoutes(log))
  <2>1. built => compiled = Compile(app)
    BY <1>1 DEF FirstUseInv
  <2>2. app.middleware = Uses(log) /\ Entries(app.routes) = AllRoutes(log)
    BY <1>1 DEF Agrees
  <2> QED
    BY <2>1, <2>2, CompiledIs
<1>3. started # Nothing => built /\ started = Registered /\ ToSet(started.tasks) = AllTasks(log)
  <2>1. started # Nothing => built /\ started = Registered
    BY <1>1 DEF FirstUseInv
  <2>2. Registered.tasks = app.tasks
    BY DEF Registered
  <2> QED
    BY <1>1, <2>1, <2>2 DEF Agrees
<1>4. /\ \A u, v \in Users : user[u] = "ran" /\ user[v] = "ran" => u = v
      /\ \A u \in listening : user[u] \in {"run", "ran"}
  BY <1>1 DEF FirstUseInv
<1> QED
  BY <1>2, <1>3, <1>4 DEF ServedAsRegistered

\* However registration and the first use interleave, what is served and what is run is what
\* the accepted operations ask for, modules and groups included (Register, Build, Run).
THEOREM ServedIsRegistered == AppSpec => []ServedAsRegistered
<1>1. AppInit => RegistryInv
  BY RegistryInitInv DEF AppInit
<1> QED
  BY <1>1, RegistryNextInv, ServedFromInv, PTL DEF AppSpec

\* The limiter of an application is the limiter by itself: an application only decides when
\* requests reach it.
THEOREM AppLimits == AppSpec => LimiterSpec
<1>1. AppInit => LimiterInit
  BY DEF AppInit
<1>2. [AppNext]_allVars => [LimiterNext]_limiterVars
  <2> SUFFICES ASSUME [AppNext]_allVars PROVE [LimiterNext]_limiterVars
    OBVIOUS
  <2>1. AllDone \/ UNCHANGED allVars => UNCHANGED limiterVars
    BY DEF AllDone, allVars
  <2> QED
    BY <2>1 DEF AppNext, LimiterNext
<1> QED
  BY <1>1, <1>2, PTL DEF AppSpec, LimiterSpec

\* So what holds of the limiter holds in an application (RateLimit).
THEOREM AppTypeCorrect == AppSpec => []LimiterTypeOK
BY AppLimits, LimiterTypeCorrect

\* No request of an application is admitted beyond the rate, whoever builds it.
THEOREM AppRateIsKept == AppSpec => []AdmittedWithinRate
BY AppLimits, RateIsKept

--------------------------------------------------------------------------------
\* The inductive invariant of Serving.

Has(s, x) == \E i \in DOMAIN s : s[i] = x
HasOne(s, x) == \E i \in DOMAIN s : s[i] = x /\ \A j \in DOMAIN s : s[j] = x => j = i

\* The metrics have their hook from the start of the request until it has run, once.
Waiting == HasOne(after, "metrics") /\ active = 1 /\ observed = <<>>
Counted == ~Has(after, "metrics") /\ active = 0 /\ observed = <<Status>>

CountInv ==
    /\ pc = "metrics" => ~Has(after, "metrics") /\ active = 0 /\ observed = <<>>
    /\ pc \notin {"metrics", "after", "done"} => Waiting
    /\ pc \in {"after", "done"} => Waiting \/ Counted
    /\ pc = "done" => after = <<>> /\ ~stored

\* The tracked response and net/http agree, unless a hook wrote by itself.
AnswerInv ==
    /\ pc \in Chain => ~wroteHeader
    /\ pc = "commit" => ~wroteHeader /\ next # 0
    /\ wire # 0 /\ "written" \notin misused => wroteHeader /\ status = wire
    /\ wroteHeader => wire # 0 \/ hijacked
    /\ pc \in {"after", "done"} => wroteHeader \/ hijacked \/ status = 500

\* Who has answered an error.
ErrorInv ==
    /\ pc \in Chain \union {"handler"} => failure = NoError /\ caller = "handler"
    /\ pc = "commit" /\ caller \in {"handler", "answer"} => failure = NoError
    /\ ~custom /\ pc = "finish" /\ ~wroteHeader => failure = NoError
    /\ ~custom /\ failure # NoError /\ caller # "handler" =>
         /\ pc = "commit" => next >= 400
         /\ wroteHeader => status >= 400

\* Until the commit the session has its hook; in it, what the hook has read is one of
\* the values that were pending since it began.
Loaded == pc \in {"auth", "csrf", "dispatch", "guard", "entered", "bound", "handler"} \/ helper # "idle"

CookieInv ==
    misused = {} =>
        /\ pc # "commit" /\ ~wroteHeader =>
             /\ header = None
             /\ (pending = None /\ ~Loaded) \/ Has(hooks, "session")
        /\ pc = "commit" => pending \in late /\ (header \in late \/ (header = None /\ Has(hooks, "session")))
        /\ wire # 0 => sent \in late

\* What the chain has let through.

AdmitInv ==
    /\ pc \in Chain => request \in Requests
    /\ pc \in Chain \ {"metrics", "cors"} => Cors(request) = Pass
    /\ pc \in {"dispatch", "guard", "entered", "bound"} => Csrf(request) = Pass
    /\ pc \in {"guard", "entered", "bound"} => Dispatch(request) = Pass
    /\ pc \in {"entered", "bound"} => Require(request) = Pass
    /\ pc = "bound" => bound = Bind(request).dest

ServingInv == TypeOK /\ CountInv /\ AnswerInv /\ ErrorInv /\ CookieInv /\ AdmitInv
--------------------------------------------------------------------------------
\* What the operators of the chain return.

Outcome == [kind: {"next", "error", "answer"}, err: ErrorKind]

\* A field of an error may be replaced.
LEMMA ErrorFields ==
    ASSUME NEW H, NEW O, NEW S, NEW F, NEW e \in [http: H, operation: O, sentinel: S, fault: F]
    PROVE  /\ \A x \in H : [e EXCEPT !.http = x] \in [http: H, operation: O, sentinel: S, fault: F]
           /\ \A x \in F : [e EXCEPT !.fault = x] \in [http: H, operation: O, sentinel: S, fault: F]
OBVIOUS

Faults == DOMAIN FaultStatus \union {"none", "plain"}

\* The constructors of errors make errors.
LEMMA ErrorsTyped ==
    /\ NoError \in ErrorKind /\ Plain \in ErrorKind
    /\ \A n \in Nat : HTTPError(n) \in ErrorKind
    /\ \A k \in Faults : Fault(k) \in ErrorKind
<1> DEFINE sentinels == DOMAIN SentinelStatus \union {"none"}
<1>1. "none" \in sentinels /\ "none" \in Faults /\ "plain" \in Faults
  BY DEF Faults
<1> HIDE DEF sentinels
<1>2. [http: Nat, operation: BOOLEAN, sentinel: sentinels, fault: Faults] = ErrorKind
  BY DEF ErrorKind, sentinels, Faults
<1>3. NoError \in ErrorKind
  BY <1>1, <1>2 DEF NoError
<1>4. \A n \in Nat : HTTPError(n) \in ErrorKind
  BY <1>2, <1>3, ErrorFields DEF HTTPError
<1>5. \A k \in Faults : Fault(k) \in ErrorKind
  BY <1>2, <1>3, ErrorFields DEF Fault
<1> QED
  BY <1>1, <1>3, <1>4, <1>5 DEF Plain

\* Every error is rendered with the status of an error.
LEMMA MapErrorIsError ==
    ASSUME NEW e \in ErrorKind
    PROVE  MapError(e) \in 400..599
<1>1. \A s \in DOMAIN SentinelStatus : SentinelStatus[s] \in 400..599
  BY DEF SentinelStatus
<1>2. \A s \in DOMAIN FaultStatus : FaultStatus[s] \in 400..599
  BY DEF FaultStatus
<1>3. e.sentinel \in DOMAIN SentinelStatus \union {"none"} /\ e.http \in Nat
  BY DEF ErrorKind
<1> QED
  BY <1>1, <1>2, <1>3 DEF MapError

\* What the checks of the chain answer are outcomes.
LEMMA OutcomesTyped ==
    ASSUME NEW r
    PROVE  {Pass, Answer, Cors(r), Authenticate(r), Csrf(r), Dispatch(r), Require(r)} \subseteq Outcome
<1>1. \A e \in ErrorKind : Refuse(e) \in Outcome
  BY DEF Refuse, Outcome
<1>2. Pass \in Outcome /\ Answer \in Outcome
  BY ErrorsTyped DEF Pass, Answer, Outcome
<1>3. {HTTPError(400), HTTPError(401), HTTPError(403), HTTPError(404), HTTPError(405), HTTPError(413), HTTPError(415),
       HTTPError(500)} \subseteq ErrorKind
  BY ErrorsTyped
<1>4. ParseForm(r) \in ErrorKind /\ NormalizeIdentity(r) \in ErrorKind
  BY <1>3, ErrorsTyped DEF ParseForm, NormalizeIdentity
<1>5. Cors(r) \in Outcome /\ Dispatch(r) \in Outcome /\ Require(r) \in Outcome
  BY <1>1, <1>2, <1>3 DEF Cors, Dispatch, Require
<1>6. Authenticate(r) \in Outcome
  BY <1>1, <1>2, <1>3, <1>4, ErrorsTyped DEF Authenticate
<1>7. Csrf(r) \in Outcome
  BY <1>1, <1>2, <1>3, <1>4, ErrorsTyped DEF Csrf, IssueToken
<1> QED
  BY <1>2, <1>5, <1>6, <1>7

\* Bind fails with an error that mapHTTPError knows.
LEMMA BindErrorTyped ==
    ASSUME NEW r
    PROVE  Bind(r).err \in ErrorKind
<1>1. {HTTPError(400), HTTPError(413), HTTPError(415), Fault("invalid"), NoError} \subseteq ErrorKind
  <2>1. "invalid" \in Faults
    BY DEF Faults, FaultStatus
  <2> QED
    BY <2>1, ErrorsTyped
<1>2. BodyError(r) \in ErrorKind
  BY <1>1 DEF BodyError, BindJSON, ParseForm
<1>3. Validate(r) \in ErrorKind
  <2>1. r.valid \in DOMAIN FaultStatus => Fault(r.valid) \in ErrorKind
    BY ErrorsTyped DEF Faults
  <2> QED
    BY <1>1, <2>1 DEF Validate
<1>4. Bind(r).err = IF BodyError(r) # NoError THEN BodyError(r)
                    ELSE IF \E i \in DOMAIN Sources : Refused(r, Sources[i]) THEN Fault("invalid")
                    ELSE Validate(r)
  BY DEF Bind
<1> QED
  BY <1>1, <1>2, <1>3, <1>4

\* What binding gives a field: the value of the last source that has one.
LEMMA BindDest ==
    ASSUME NEW r
    PROVE  LET body == BindBody(r, [f \in Fields |-> Absent]) IN
           Bind(r).dest = BindSource(r, BindSource(r, BindSource(r, BindSource(r, body,
                              "cookie"), "header"), "query"), "path")
<1> DEFINE body == BindBody(r, [f \in Fields |-> Absent])
           S(d, s) == BindSource(r, d, s)
           d1 == S(body, "cookie")
           d2 == S(d1, "header")
           d3 == S(d2, "query")
           d4 == S(d3, "path")
           u == [i \in 0..4 |-> IF i = 0 THEN body ELSE IF i = 1 THEN d1 ELSE IF i = 2 THEN d2
                                ELSE IF i = 3 THEN d3 ELSE d4]
           IsUpTo(v) == v = [i \in 0..Len(Sources) |->
                               IF i = 0 THEN body ELSE BindSource(r, v[i - 1], Sources[i])]
           w == CHOOSE v : IsUpTo(v)
<1>1. Len(Sources) = 4 /\ Sources[1] = "cookie" /\ Sources[2] = "header" /\ Sources[3] = "query" /\ Sources[4] = "path"
  BY DEF Sources
<1>2. Bind(r).dest = w[4]
  BY <1>1 DEF Bind
<1> HIDE DEF body, d1, d2, d3, d4
<1>3. IsUpTo(u)
  <2>1. u[0] = body /\ u[1] = d1 /\ u[2] = d2 /\ u[3] = d3 /\ u[4] = d4
    OBVIOUS
  <2>2. \A i \in 0..4 : u[i] = IF i = 0 THEN body ELSE BindSource(r, u[i - 1], Sources[i])
    <3> HIDE DEF u
    <3>1. u[1] = BindSource(r, u[1 - 1], Sources[1]) /\ u[2] = BindSource(r, u[2 - 1], Sources[2])
      BY <1>1, <2>1 DEF d1, d2
    <3>2. u[3] = BindSource(r, u[3 - 1], Sources[3]) /\ u[4] = BindSource(r, u[4 - 1], Sources[4])
      BY <1>1, <2>1 DEF d3, d4
    <3>3. \A i \in 0..4 : i = 0 \/ i = 1 \/ i = 2 \/ i = 3 \/ i = 4
      OBVIOUS
    <3> QED
      BY <2>1, <3>1, <3>2, <3>3
  <2>3. u = [i \in 0..4 |-> u[i]]
    OBVIOUS
  <2> HIDE DEF u
  <2>4. u = [i \in 0..4 |-> IF i = 0 THEN body ELSE BindSource(r, u[i - 1], Sources[i])]
    BY <2>2, <2>3
  <2> QED
    BY <1>1, <2>4
<1> HIDE DEF u
<1>4. IsUpTo(w)
  <2> HIDE DEF IsUpTo
  <2> QED
    BY <1>3
<1> HIDE DEF w
<1>5. \A i \in 0..4 : w[i] = IF i = 0 THEN body ELSE BindSource(r, w[i - 1], Sources[i])
  <2> DEFINE F == [i \in 0..4 |-> IF i = 0 THEN body ELSE BindSource(r, w[i - 1], Sources[i])]
  <2>1. w = F
    BY <1>1, <1>4
  <2>2. \A i \in 0..4 : F[i] = IF i = 0 THEN body ELSE BindSource(r, w[i - 1], Sources[i])
    OBVIOUS
  <2> HIDE DEF F
  <2> QED
    BY <2>1, <2>2
<1>6. w[0] = body
  BY <1>5
<1>7. w[1] = d1
  BY <1>1, <1>5, <1>6 DEF d1
<1>8. w[2] = d2
  BY <1>1, <1>5, <1>7 DEF d2
<1>9. w[3] = d3
  BY <1>1, <1>5, <1>8 DEF d3
<1>10. w[4] = d4
  BY <1>1, <1>5, <1>9 DEF d4
<1> QED
  BY <1>2, <1>10 DEF body, d1, d2, d3, d4

\* Bind gives every field a value.
LEMMA BindTyped ==
    ASSUME NEW r
    PROVE  DOMAIN Bind(r).dest = Fields
BY BindDest DEF BindSource

\* The value of a source for a field wins over what there was.
LEMMA SourceWins ==
    ASSUME NEW r, NEW d, NEW s, NEW f \in Fields
    PROVE  BindSource(r, d, s)[f] = IF s \in Tags[f] /\ r.values[s][f] # Absent THEN r.values[s][f] ELSE d[f]
BY DEF BindSource

\* A field has the value of the source of the highest rank that gives it one.
LEMMA BindWins ==
    ASSUME NEW r, NEW f \in Fields
    PROVE  LET givers == Givers(r, f)
           IN  IF givers = {} THEN Bind(r).dest[f] = Absent
               ELSE \E s \in givers : /\ Bind(r).dest[f] = r.values[s][f]
                                      /\ \A t \in givers : Rank[t] <= Rank[s]
<1> DEFINE zero == [g \in Fields |-> Absent]
           body == BindBody(r, zero)
           d1 == BindSource(r, body, "cookie")
           d2 == BindSource(r, d1, "header")
           d3 == BindSource(r, d2, "query")
           d4 == BindSource(r, d3, "path")
           Gives(s) == s \in Tags[f] /\ r.values[s][f] # Absent
           givers == Givers(r, f)
<1>1. Bind(r).dest[f] = d4[f]
  BY BindDest
<1>2. /\ d4[f] = IF Gives("path") THEN r.values["path"][f] ELSE d3[f]
      /\ d3[f] = IF Gives("query") THEN r.values["query"][f] ELSE d2[f]
      /\ d2[f] = IF Gives("header") THEN r.values["header"][f] ELSE d1[f]
      /\ d1[f] = IF Gives("cookie") THEN r.values["cookie"][f] ELSE body[f]
  BY SourceWins
<1>3. DOMAIN Rank = {"json", "form", "cookie", "header", "query", "path"}
      /\ Rank["json"] = 1 /\ Rank["form"] = 1 /\ Rank["cookie"] = 2 /\ Rank["header"] = 3 /\ Rank["query"] = 4
      /\ Rank["path"] = 5
  BY DEF Rank
<1>4. /\ "path" \in givers <=> Gives("path")
      /\ "query" \in givers <=> Gives("query")
      /\ "header" \in givers <=> Gives("header")
      /\ "cookie" \in givers <=> Gives("cookie")
  BY <1>3 DEF Givers
<1>5. givers \subseteq {"json", "form", "cookie", "header", "query", "path"}
  BY <1>3 DEF Givers
<1>6. /\ "json" \in givers <=> r.contentType = "json" /\ ~Implicit(f) /\ r.values["json"][f] # Absent
      /\ "form" \in givers <=> r.contentType \in FormTypes /\ Gives("form")
  BY <1>3 DEF Givers, Implicit
<1>7. /\ "json" \in givers => body[f] = r.values["json"][f] /\ "form" \notin givers
      /\ "form" \in givers => body[f] = r.values["form"][f] /\ "json" \notin givers
      /\ "json" \notin givers /\ "form" \notin givers => body[f] = Absent
  <2>1. zero[f] = Absent
    OBVIOUS
  <2>2. "json" \notin FormTypes
    BY DEF FormTypes
  <2> HIDE DEF zero
  <2>3. CASE r.contentType = "json"
    <3>1. body[f] = IF Implicit(f) THEN zero[f] ELSE IF r.values["json"][f] # Absent THEN r.values["json"][f] ELSE zero[f]
      BY <2>3 DEF BindBody
    <3> HIDE DEF body, givers
    <3> QED
      BY <1>6, <2>1, <2>2, <2>3, <3>1
  <2>4. CASE r.contentType # "json" /\ r.contentType \in FormTypes
    <3>1. body = BindSource(r, zero, "form")
      BY <2>4 DEF BindBody
    <3>2. body[f] = IF Gives("form") THEN r.values["form"][f] ELSE zero[f]
      BY <3>1, SourceWins
    <3> HIDE DEF body, givers
    <3> QED
      BY <1>6, <2>1, <2>4, <3>2
  <2>5. CASE r.contentType # "json" /\ r.contentType \notin FormTypes
    <3>1. body = zero
      BY <2>5 DEF BindBody
    <3> HIDE DEF body, givers
    <3> QED
      BY <1>6, <2>1, <2>5, <3>1
  <2> QED
    BY <2>3, <2>4, <2>5
<1> HIDE DEF body, d1, d2, d3, d4, givers
<1>8. CASE Gives("path")
  <2>1. d4[f] = r.values["path"][f] /\ "path" \in givers
    BY <1>2, <1>4, <1>8
  <2>2. \A t \in givers : Rank[t] <= Rank["path"]
    BY <1>3, <1>5
  <2> QED
    BY <2>1, <2>2, <1>1 DEF givers
<1>9. CASE ~Gives("path") /\ Gives("query")
  <2>1. d4[f] = r.values["query"][f] /\ "query" \in givers
    BY <1>2, <1>4, <1>9
  <2>2. \A t \in givers : Rank[t] <= Rank["query"]
    BY <1>3, <1>4, <1>5, <1>9
  <2> QED
    BY <2>1, <2>2, <1>1 DEF givers
<1>10. CASE ~Gives("path") /\ ~Gives("query") /\ Gives("header")
  <2>1. d4[f] = r.values["header"][f] /\ "header" \in givers
    BY <1>2, <1>4, <1>10
  <2>2. \A t \in givers : Rank[t] <= Rank["header"]
    BY <1>3, <1>4, <1>5, <1>10
  <2> QED
    BY <2>1, <2>2, <1>1 DEF givers
<1>11. CASE ~Gives("path") /\ ~Gives("query") /\ ~Gives("header") /\ Gives("cookie")
  <2>1. d4[f] = r.values["cookie"][f] /\ "cookie" \in givers
    BY <1>2, <1>4, <1>11
  <2>2. \A t \in givers : Rank[t] <= Rank["cookie"]
    BY <1>3, <1>4, <1>5, <1>11
  <2> QED
    BY <2>1, <2>2, <1>1 DEF givers
<1>12. CASE ~Gives("path") /\ ~Gives("query") /\ ~Gives("header") /\ ~Gives("cookie")
  <2>1. d4[f] = body[f] /\ givers \subseteq {"json", "form"}
    BY <1>2, <1>4, <1>5, <1>12
  <2>2. CASE "json" \in givers
    <3>1. givers = {"json"} /\ d4[f] = r.values["json"][f]
      BY <1>7, <2>1, <2>2
    <3>2. \A t \in givers : Rank[t] <= Rank["json"]
      BY <1>3, <3>1
    <3> QED
      BY <1>1, <2>2, <3>1, <3>2 DEF givers
  <2>3. CASE "form" \in givers
    <3>1. givers = {"form"} /\ d4[f] = r.values["form"][f]
      BY <1>7, <2>1, <2>3
    <3>2. \A t \in givers : Rank[t] <= Rank["form"]
      BY <1>3, <3>1
    <3> QED
      BY <1>1, <2>3, <3>1, <3>2 DEF givers
  <2>4. CASE "json" \notin givers /\ "form" \notin givers
    <3>1. givers = {} /\ d4[f] = Absent
      BY <1>7, <2>1, <2>4
    <3> QED
      BY <1>1, <3>1 DEF givers
  <2> QED
    BY <2>2, <2>3, <2>4
<1> QED
  BY <1>8, <1>9, <1>10, <1>11, <1>12

\* A request that CSRF lets through with POST.
LEMMA CsrfMeans ==
    ASSUME NEW r, Csrf(r) = Pass, r.method = "POST"
    PROVE  /\ r.cookieToken \in Signed
           /\ r.cookieToken \in {r.headerToken, r.formToken}
           /\ r.origin \in Sites \/ (r.origin = "none" /\ r.referer \in Sites)
<1>1. \A e : Refuse(e) # Pass
  BY DEF Refuse, Pass
<1>2. ~SafeMethod(r)
  BY DEF SafeMethod
<1>3. AllowsRequestOrigin(r) /\ ValidToken(r.cookieToken) /\ RequestToken(r) = r.cookieToken
  BY <1>1, <1>2 DEF Csrf
<1> QED
  BY <1>3 DEF AllowsRequestOrigin, ValidToken, RequestToken, Sites

\* A request that has passed the chain up to its place is one that OnlyAdmitted lets through.
LEMMA AdmittedFromChain == AdmitInv => OnlyAdmitted
<1> SUFFICES ASSUME AdmitInv PROVE OnlyAdmitted
  OBVIOUS
<1>1. \A e : Refuse(e) # Pass
  BY DEF Refuse, Pass
<1>2. ASSUME pc \in {"entered", "bound"}
      PROVE  /\ Required \subseteq request.grants
             /\ request.route = "found"
             /\ Preflight(request) => request.origin = "none"
             /\ request.method = "POST" =>
                  /\ request.cookieToken \in Signed
                  /\ request.cookieToken \in {request.headerToken, request.formToken}
                  /\ \/ request.origin \in Sites
                     \/ request.origin = "none" /\ request.referer \in Sites
  <2>1. /\ request \in Requests /\ Cors(request) = Pass /\ Csrf(request) = Pass
        /\ Dispatch(request) = Pass /\ Require(request) = Pass
    BY <1>2 DEF AdmitInv, Chain
  <2>2. Required \subseteq request.grants
    BY <1>1, <2>1 DEF Require, Identity, Anonymous
  <2>3. request.route = "found"
    BY <1>1, <2>1, RequestsAssumption DEF Dispatch
  <2>4. Preflight(request) => request.origin = "none"
    <3>1. Answer # Pass
      BY DEF Answer, Pass
    <3> QED
      BY <1>1, <2>1, <3>1 DEF Cors
  <2> QED
    BY <2>1, <2>2, <2>3, <2>4, CsrfMeans
<1>3. ASSUME pc = "bound", NEW f \in Fields
      PROVE  LET givers == Givers(request, f)
             IN  IF givers = {} THEN bound[f] = Absent
                 ELSE \E s \in givers : /\ bound[f] = request.values[s][f]
                                        /\ \A t \in givers : Rank[t] <= Rank[s]
  BY <1>3, BindWins DEF AdmitInv
<1> QED
  BY <1>2, <1>3 DEF OnlyAdmitted

\* The parts of TypeOK.
ResponseTypes ==
    /\ wroteHeader \in BOOLEAN /\ hijacked \in BOOLEAN
    /\ next \in Nat /\ status \in Nat /\ wire \in Nat /\ header \in Nat /\ sent \in Nat
    /\ hooks \in Seq({"session", "plain", "writes", "panics"})
    /\ caller \in {"answer", "handler", "render", "fallback", "final"}
    /\ failure \in ErrorKind

SessionTypes ==
    /\ locked \in BOOLEAN /\ data \in Nat /\ pending \in Nat
    /\ helper \in {"idle", "called", "locking", "storing", "refused", "changed"}
    /\ late \subseteq Nat /\ misused \subseteq {"written", "panicked"}

MetricTypes ==
    active \in Nat /\ after \in Seq({"metrics", "plain", "panics"}) /\ observed \in Seq(Nat)

RequestTypes ==
    /\ recovers \in BOOLEAN /\ custom \in BOOLEAN /\ stored \in BOOLEAN
    /\ request \in Requests \union {NoRequest}
    /\ DOMAIN bound = Fields

\* The types, by the groups of variables that actions leave alone together.
LEMMA TypeSplit == TypeOK <=> ResponseTypes /\ SessionTypes /\ MetricTypes /\ RequestTypes /\ pc \in Places
<1>1. {recovers, custom, wroteHeader, hijacked, stored, locked} \subseteq BOOLEAN <=>
         /\ recovers \in BOOLEAN /\ custom \in BOOLEAN /\ wroteHeader \in BOOLEAN
         /\ hijacked \in BOOLEAN /\ stored \in BOOLEAN /\ locked \in BOOLEAN
  OBVIOUS
<1>2. {next, status, wire, header, sent, data, pending, active} \subseteq Nat <=>
         /\ next \in Nat /\ status \in Nat /\ wire \in Nat /\ header \in Nat /\ sent \in Nat
         /\ data \in Nat /\ pending \in Nat /\ active \in Nat
  OBVIOUS
<1> QED
  BY <1>1, <1>2, Zenon DEF TypeOK, ResponseTypes, SessionTypes, MetricTypes, RequestTypes

\* Sequences over a set: the empty one,
LEMMA EmptyTyped ==
    ASSUME NEW S
    PROVE  <<>> \in Seq(S)
OBVIOUS

\* and one that is longer by an element.
LEMMA AppendTyped ==
    ASSUME NEW S, NEW s \in Seq(S), NEW x \in S
    PROVE  Append(s, x) \in Seq(S)
OBVIOUS

\* The invariant of a request holds when it arrives.
LEMMA ServingInitInv == Init => ServingInv
<1> SUFFICES ASSUME Init PROVE ServingInv
  OBVIOUS
<1>1. TypeOK
  <2>1. ResponseTypes
    <3>1. /\ status = 0 /\ wroteHeader = FALSE /\ hijacked = FALSE /\ hooks = <<>> /\ next = 0
          /\ caller = "handler" /\ wire = 0 /\ header = None /\ sent = None /\ failure = NoError
      BY DEF Init
    <3>2. failure \in ErrorKind
      BY <3>1, ErrorsTyped
    <3>3. wroteHeader \in BOOLEAN /\ hijacked \in BOOLEAN
      BY <3>1
    <3>4. hooks \in Seq({"session", "plain", "writes", "panics"})
      BY <3>1, EmptyTyped
    <3>5. next \in Nat /\ status \in Nat /\ wire \in Nat /\ header \in Nat /\ sent \in Nat
      BY <3>1 DEF None
    <3> QED
      BY <3>1, <3>2, <3>3, <3>4, <3>5 DEF ResponseTypes
  <2>2. SessionTypes
    <3>1. data = Empty /\ pending = None /\ locked = FALSE /\ helper = "idle" /\ late = {} /\ misused = {}
      BY DEF Init
    <3>2. locked \in BOOLEAN
      BY <3>1
    <3>3. data \in Nat /\ pending \in Nat
      BY <3>1 DEF None, Empty
    <3> QED
      BY <3>1, <3>2, <3>3 DEF SessionTypes
  <2>3. MetricTypes
    <3>1. active = 0 /\ observed = <<>> /\ after \in {<<>>, <<"panics">>}
      BY DEF Init
    <3>2. after \in Seq({"metrics", "plain", "panics"})
      <4>1. CASE after = <<>>
        BY <4>1, EmptyTyped
      <4>2. CASE after = <<"panics">>
        BY <4>2, SingleTyped
      <4> QED
        BY <3>1, <4>1, <4>2
    <3> QED
      BY <3>1, <3>2 DEF MetricTypes
  <2>4. RequestTypes
    BY DEF Init, RequestTypes, Unbound
  <2>5. pc \in Places
    BY DEF Init, Places, Chain
  <2> QED
    BY <2>1, <2>2, <2>3, <2>4, <2>5, TypeSplit
<1>2. CountInv
  <2>1. CASE after = <<>>
    BY <2>1 DEF Init, CountInv, Has
  <2>2. CASE after = <<"panics">>
    <3>1. DOMAIN after = {1} /\ after[1] = "panics"
      BY <2>2
    <3>2. ~Has(after, "metrics")
      BY <3>1 DEF Has
    <3> QED
      BY <3>2 DEF Init, CountInv
  <2> QED
    BY <2>1, <2>2 DEF Init
<1>3. AnswerInv /\ ErrorInv
  BY DEF Init, AnswerInv, ErrorInv, Chain
<1>4. CookieInv
  BY DEF Init, CookieInv, Loaded
<1>5. AdmitInv
  BY DEF Init, AdmitInv, Chain
<1> QED
  BY <1>1, <1>2, <1>3, <1>4, <1>5 DEF ServingInv

\* and the two parts of one that is not empty.
LEMMA HeadAndTail ==
    ASSUME NEW S, NEW s \in Seq(S), s # <<>>
    PROVE  /\ Head(s) \in S /\ Tail(s) \in Seq(S) /\ Head(s) = s[1] /\ 1 \in DOMAIN s
           /\ DOMAIN Tail(s) = 1..(Len(s) - 1) /\ DOMAIN s = 1..Len(s) /\ Len(s) \in Nat
           /\ \A i \in DOMAIN Tail(s) : Tail(s)[i] = s[i + 1]
OBVIOUS

\* What a check hands on is an error of the program, or none.
LEMMA ThroughTyped ==
    ASSUME NEW o \in Outcome, NEW step, Through(o, step)
    PROVE  failure' \in ErrorKind
BY DEF Through, Outcome

\* A change of the session keeps the types.
LEMMA StoreTyped ==
    ASSUME SessionTypes, NEW v \in Nat, Store(v)
    PROVE  data' \in Nat /\ pending' \in Nat /\ late' \subseteq Nat
<1>1. EncodedCookie(v) \in Nat
  BY DEF EncodedCookie, Expired
<1> QED
  BY <1>1 DEF Store, SessionTypes

\* Type correctness is kept, part by part.
LEMMA RequestTypesStep ==
    ASSUME RequestTypes, [Next]_vars
    PROVE  RequestTypes'
<1>1. CASE CountActive
  BY <1>1
     DEF CountActive, requestVars, configVars, RequestTypes
<1>2. CASE CheckOrigin
  BY <1>2
     DEF CheckOrigin, requestVars, configVars, RequestTypes
<1>3. CASE LoadSession
  BY <1>3
     DEF LoadSession, requestVars, configVars, RequestTypes
<1>4. CASE LoadSessionFails
  BY <1>4
     DEF LoadSessionFails, chainVars, requestVars, configVars, RequestTypes
<1>5. CASE CheckCaller
  BY <1>5
     DEF CheckCaller, chainVars, requestVars, configVars, RequestTypes
<1>6. CASE CheckToken
  BY <1>6
     DEF CheckToken, configVars, RequestTypes
<1>7. CASE FindRoute
  BY <1>7
     DEF FindRoute, chainVars, requestVars, configVars, RequestTypes
<1>8. CASE CheckGrants
  BY <1>8
     DEF CheckGrants, chainVars, requestVars, configVars, RequestTypes
<1>9. CASE BindRequest
  BY <1>9, BindTyped
     DEF BindRequest, configVars, Unbound, RequestTypes
<1>10. CASE Enter
  BY <1>10
     DEF Enter, configVars, Unbound, RequestTypes
<1>11. ASSUME NEW code \in {101, 103, 200, 404}, WriteHeader(code) PROVE RequestTypes'
  BY <1>11
     DEF WriteHeader, handlerVars, requestVars, configVars, RequestTypes
<1>12. ASSUME NEW hook \in {"plain", "writes", "panics"}, BeforeCommit(hook) PROVE RequestTypes'
  BY <1>12
     DEF BeforeCommit, handlerVars, requestVars, configVars, RequestTypes
<1>13. ASSUME NEW hook \in {"plain", "panics"}, AfterResponse(hook) PROVE RequestTypes'
  BY <1>13
     DEF AfterResponse, handlerVars, requestVars, configVars, RequestTypes
<1>14. CASE Hijack
  BY <1>14
     DEF Hijack, handlerVars, requestVars, configVars, RequestTypes
<1>15. CASE ChangeSession
  BY <1>15
     DEF ChangeSession, handlerVars, requestVars, configVars, RequestTypes
<1>16. CASE HandlerPanics
  BY <1>16
     DEF HandlerPanics, handlerVars, requestVars, configVars, RequestTypes
<1>17. ASSUME NEW err \in Errors \union {NoError}, HandlerReturns(err) PROVE RequestTypes'
  BY <1>17
     DEF HandlerReturns, handlerVars, requestVars, configVars, RequestTypes
<1>18. CASE RunHook
  BY <1>18
     DEF RunHook, requestVars, configVars, RequestTypes
<1>19. CASE EndCommit
  BY <1>19
     DEF EndCommit, requestVars, configVars, RequestTypes
<1>20. CASE HelperChecks
  BY <1>20
     DEF HelperChecks, handlerVars, requestVars, configVars, RequestTypes
<1>21. CASE HelperLocks
  BY <1>21
     DEF HelperLocks, handlerVars, requestVars, configVars, RequestTypes
<1>22. CASE HelperStores
  BY <1>22
     DEF HelperStores, handlerVars, requestVars, configVars, RequestTypes
<1>23. CASE RenderError
  BY <1>23
     DEF RenderError, handlerVars, requestVars, configVars, RequestTypes
<1>24. CASE RenderCustom
  BY <1>24
     DEF RenderCustom, handlerVars, requestVars, configVars, RequestTypes
<1>25. CASE Fallback
  BY <1>25
     DEF Fallback, handlerVars, requestVars, configVars, RequestTypes
<1>26. CASE Finish
  BY <1>26
     DEF Finish, handlerVars, requestVars, configVars, RequestTypes
<1>27. CASE RunAfterHook
  BY <1>27
     DEF RunAfterHook, handlerVars, requestVars, configVars, RequestTypes
<1>28. CASE Done
  BY <1>28
     DEF Done, configVars, RequestTypes
<1>29. CASE UNCHANGED vars
  BY <1>29
     DEF vars, requestVars, configVars, RequestTypes
<1> QED
  BY <1>1, <1>2, <1>3, <1>4, <1>5, <1>6, <1>7, <1>8, <1>9, <1>10, <1>11, <1>12, <1>13, <1>14,
       <1>15, <1>16, <1>17, <1>18, <1>19, <1>20, <1>21, <1>22, <1>23, <1>24, <1>25, <1>26,
       <1>27, <1>28, <1>29 DEF Next, Rest

\* A step leads from place to place.
LEMMA PlacesStep ==
    ASSUME pc \in Places, caller \in {"answer", "handler", "render", "fallback", "final"}, [Next]_vars
    PROVE  pc' \in Places
<1>1. CASE CountActive
  BY <1>1
     DEF CountActive, Places, Chain
<1>2. CASE CheckOrigin
  BY <1>2
     DEF CheckOrigin, Through, BeginCommit, Places, Chain
<1>3. CASE LoadSession
  BY <1>3
     DEF LoadSession, Places, Chain
<1>4. CASE LoadSessionFails
  BY <1>4
     DEF LoadSessionFails, Through, Places, Chain
<1>5. CASE CheckCaller
  BY <1>5
     DEF CheckCaller, Through, Places, Chain
<1>6. CASE CheckToken
  BY <1>6
     DEF CheckToken, Through, Places, Chain
<1>7. CASE FindRoute
  BY <1>7
     DEF FindRoute, Through, Places, Chain
<1>8. CASE CheckGrants
  BY <1>8
     DEF CheckGrants, Through, Places, Chain
<1>9. CASE BindRequest
  BY <1>9
     DEF BindRequest, Through, Places, Chain
<1>10. CASE Enter
  BY <1>10
     DEF Enter, Places, Chain
<1>11. ASSUME NEW code \in {101, 103, 200, 404}, WriteHeader(code) PROVE pc' \in Places
  BY <1>11
     DEF WriteHeader, BeginCommit, Places, Chain
<1>12. ASSUME NEW hook \in {"plain", "writes", "panics"}, BeforeCommit(hook) PROVE pc' \in Places
  BY <1>12
     DEF BeforeCommit, Places, Chain
<1>13. ASSUME NEW hook \in {"plain", "panics"}, AfterResponse(hook) PROVE pc' \in Places
  BY <1>13
     DEF AfterResponse, Places, Chain
<1>14. CASE Hijack
  BY <1>14
     DEF Hijack, Places, Chain
<1>15. CASE ChangeSession
  BY <1>15
     DEF ChangeSession, Places, Chain
<1>16. CASE HandlerPanics
  BY <1>16
     DEF HandlerPanics, Escape, Places, Chain
<1>17. ASSUME NEW err \in Errors \union {NoError}, HandlerReturns(err) PROVE pc' \in Places
  BY <1>17
     DEF HandlerReturns, Places, Chain
<1>18. CASE RunHook
  BY <1>18
     DEF RunHook, Panic, Escape, Places, Chain
<1>19. CASE EndCommit
  BY <1>19
     DEF EndCommit, Places, Chain
<1>20. CASE HelperChecks
  BY <1>20
     DEF HelperChecks, Places, Chain
<1>21. CASE HelperLocks
  BY <1>21
     DEF HelperLocks, Places, Chain
<1>22. CASE HelperStores
  BY <1>22
     DEF HelperStores, Places, Chain
<1>23. CASE RenderError
  BY <1>23
     DEF RenderError, BeginCommit, Places, Chain
<1>24. CASE RenderCustom
  BY <1>24
     DEF RenderCustom, BeginCommit, Places, Chain
<1>25. CASE Fallback
  BY <1>25
     DEF Fallback, BeginCommit, Places, Chain
<1>26. CASE Finish
  BY <1>26
     DEF Finish, BeginCommit, Places, Chain
<1>27. CASE RunAfterHook
  BY <1>27
     DEF RunAfterHook, Places, Chain
<1>28. CASE Done
  BY <1>28
     DEF Done, Places, Chain
<1>29. CASE UNCHANGED vars
  BY <1>29
     DEF vars, Places, Chain
<1> QED
  BY <1>1, <1>2, <1>3, <1>4, <1>5, <1>6, <1>7, <1>8, <1>9, <1>10, <1>11, <1>12, <1>13, <1>14,
       <1>15, <1>16, <1>17, <1>18, <1>19, <1>20, <1>21, <1>22, <1>23, <1>24, <1>25, <1>26,
       <1>27, <1>28, <1>29 DEF Next, Rest

\* A step keeps the types of the metrics: the gauge goes down only after it went up.
LEMMA MetricTypesStep ==
    ASSUME MetricTypes, CountInv, status \in Nat, [Next]_vars
    PROVE  MetricTypes'
<1>1. CASE CountActive
  BY <1>1
     DEF CountActive, MetricTypes
<1>2. CASE CheckOrigin
  BY <1>2
     DEF CheckOrigin, metricVars, MetricTypes
<1>3. CASE LoadSession
  BY <1>3
     DEF LoadSession, metricVars, MetricTypes
<1>4. CASE LoadSessionFails
  BY <1>4
     DEF LoadSessionFails, chainVars, metricVars, MetricTypes
<1>5. CASE CheckCaller
  BY <1>5
     DEF CheckCaller, chainVars, metricVars, MetricTypes
<1>6. CASE CheckToken
  BY <1>6
     DEF CheckToken, metricVars, MetricTypes
<1>7. CASE FindRoute
  BY <1>7
     DEF FindRoute, chainVars, metricVars, MetricTypes
<1>8. CASE CheckGrants
  BY <1>8
     DEF CheckGrants, chainVars, metricVars, MetricTypes
<1>9. CASE BindRequest
  BY <1>9
     DEF BindRequest, metricVars, MetricTypes
<1>10. CASE Enter
  BY <1>10
     DEF Enter, metricVars, MetricTypes
<1>11. ASSUME NEW code \in {101, 103, 200, 404}, WriteHeader(code) PROVE MetricTypes'
  BY <1>11
     DEF WriteHeader, metricVars, MetricTypes
<1>12. ASSUME NEW hook \in {"plain", "writes", "panics"}, BeforeCommit(hook) PROVE MetricTypes'
  BY <1>12
     DEF BeforeCommit, metricVars, MetricTypes
<1>13. ASSUME NEW hook \in {"plain", "panics"}, AfterResponse(hook) PROVE MetricTypes'
  BY <1>13
     DEF AfterResponse, metricVars, MetricTypes
<1>14. CASE Hijack
  BY <1>14
     DEF Hijack, metricVars, MetricTypes
<1>15. CASE ChangeSession
  BY <1>15
     DEF ChangeSession, metricVars, MetricTypes
<1>16. CASE HandlerPanics
  BY <1>16
     DEF HandlerPanics, metricVars, MetricTypes
<1>17. ASSUME NEW err \in Errors \union {NoError}, HandlerReturns(err) PROVE MetricTypes'
  BY <1>17
     DEF HandlerReturns, metricVars, MetricTypes
<1>18. CASE RunHook
  BY <1>18
     DEF RunHook, metricVars, MetricTypes
<1>19. CASE EndCommit
  BY <1>19
     DEF EndCommit, metricVars, MetricTypes
<1>20. CASE HelperChecks
  BY <1>20
     DEF HelperChecks, metricVars, MetricTypes
<1>21. CASE HelperLocks
  BY <1>21
     DEF HelperLocks, metricVars, MetricTypes
<1>22. CASE HelperStores
  BY <1>22
     DEF HelperStores, metricVars, MetricTypes
<1>23. CASE RenderError
  BY <1>23
     DEF RenderError, metricVars, MetricTypes
<1>24. CASE RenderCustom
  BY <1>24
     DEF RenderCustom, metricVars, MetricTypes
<1>25. CASE Fallback
  BY <1>25
     DEF Fallback, metricVars, MetricTypes
<1>26. CASE Finish
  BY <1>26
     DEF Finish, metricVars, MetricTypes
<1>27. CASE RunAfterHook
  <2>1. /\ pc = "after" /\ after # <<>> /\ after' = Tail(after)
        /\ IF Head(after) = "metrics" THEN Observe ELSE UNCHANGED metricVars
    BY <1>27 DEF RunAfterHook
  <2>2. after' \in Seq({"metrics", "plain", "panics"}) /\ after[1] = Head(after) /\ 1 \in DOMAIN after
    BY <2>1, HeadAndTail DEF MetricTypes
  <2>3. CASE Head(after) = "metrics"
    <3>1. active = 1
      BY <2>1, <2>2, <2>3 DEF CountInv, Waiting, Counted, Has
    <3>2. active' \in Nat
      BY <2>1, <2>3, <3>1 DEF Observe
    <3>3. observed' \in Seq(Nat)
      <4>1. Status \in Nat
        BY DEF Status
      <4>2. observed' = Append(observed, Status) /\ observed \in Seq(Nat)
        BY <2>1, <2>3 DEF Observe, MetricTypes
      <4> QED
        BY <4>1, <4>2, AppendTyped
    <3> QED
      BY <2>2, <3>2, <3>3 DEF MetricTypes
  <2>4. CASE Head(after) # "metrics"
    BY <2>1, <2>2, <2>4 DEF MetricTypes, metricVars
  <2> QED
    BY <2>3, <2>4
<1>28. CASE Done
  BY <1>28
     DEF Done, metricVars, MetricTypes
<1>29. CASE UNCHANGED vars
  BY <1>29
     DEF vars, metricVars, MetricTypes
<1> QED
  BY <1>1, <1>2, <1>3, <1>4, <1>5, <1>6, <1>7, <1>8, <1>9, <1>10, <1>11, <1>12, <1>13, <1>14,
       <1>15, <1>16, <1>17, <1>18, <1>19, <1>20, <1>21, <1>22, <1>23, <1>24, <1>25, <1>26,
       <1>27, <1>28, <1>29 DEF Next, Rest

\* A step keeps the types of the session.
LEMMA SessionTypesStep ==
    ASSUME SessionTypes, [Next]_vars
    PROVE  SessionTypes'
<1>1. CASE CountActive
  BY <1>1
     DEF CountActive, sessionVars, historyVars, SessionTypes
<1>2. CASE CheckOrigin
  <2>1. UNCHANGED <<sessionVars, misused>> /\ (late' = late \/ late' = {pending})
    BY <1>2 DEF CheckOrigin, BeginCommit
  <2>2. late' \subseteq Nat
    BY <2>1 DEF SessionTypes
  <2>3. UNCHANGED <<locked, data, pending, helper, misused>>
    BY <2>1 DEF sessionVars
  <2> QED
    BY <2>2, <2>3 DEF SessionTypes
<1>3. CASE LoadSession
  BY <1>3
     DEF LoadSession, historyVars, EncodedCookie, Expired, None, Empty, SessionTypes
<1>4. CASE LoadSessionFails
  BY <1>4
     DEF LoadSessionFails, chainVars, sessionVars, historyVars, SessionTypes
<1>5. CASE CheckCaller
  BY <1>5
     DEF CheckCaller, chainVars, sessionVars, historyVars, SessionTypes
<1>6. CASE CheckToken
  BY <1>6
     DEF CheckToken, sessionVars, historyVars, SessionTypes
<1>7. CASE FindRoute
  BY <1>7
     DEF FindRoute, chainVars, sessionVars, historyVars, SessionTypes
<1>8. CASE CheckGrants
  BY <1>8
     DEF CheckGrants, chainVars, sessionVars, historyVars, SessionTypes
<1>9. CASE BindRequest
  BY <1>9
     DEF BindRequest, sessionVars, historyVars, SessionTypes
<1>10. CASE Enter
  BY <1>10
     DEF Enter, historyVars, SessionTypes
<1>11. ASSUME NEW code \in {101, 103, 200, 404}, WriteHeader(code) PROVE SessionTypes'
  <2>1. UNCHANGED <<sessionVars, misused>> /\ (late' = late \/ late' = {pending})
    BY <1>11 DEF WriteHeader, BeginCommit
  <2>2. late' \subseteq Nat
    BY <2>1 DEF SessionTypes
  <2>3. UNCHANGED <<locked, data, pending, helper, misused>>
    BY <2>1 DEF sessionVars
  <2> QED
    BY <2>2, <2>3 DEF SessionTypes
<1>12. ASSUME NEW hook \in {"plain", "writes", "panics"}, BeforeCommit(hook) PROVE SessionTypes'
  BY <1>12
     DEF BeforeCommit, sessionVars, historyVars, SessionTypes
<1>13. ASSUME NEW hook \in {"plain", "panics"}, AfterResponse(hook) PROVE SessionTypes'
  BY <1>13
     DEF AfterResponse, sessionVars, historyVars, SessionTypes
<1>14. CASE Hijack
  BY <1>14
     DEF Hijack, sessionVars, historyVars, SessionTypes
<1>15. CASE ChangeSession
  <2>1. data + 1 \in Nat /\ Empty \in Nat
    BY DEF SessionTypes, Empty
  <2>2. data' \in Nat /\ pending' \in Nat /\ late' \subseteq Nat
    BY <1>15, <2>1, StoreTyped DEF ChangeSession
  <2> QED
    BY <1>15, <2>2 DEF ChangeSession, SessionTypes
<1>16. CASE HandlerPanics
  BY <1>16
     DEF HandlerPanics, sessionVars, historyVars, SessionTypes
<1>17. ASSUME NEW err \in Errors \union {NoError}, HandlerReturns(err) PROVE SessionTypes'
  BY <1>17
     DEF HandlerReturns, sessionVars, historyVars, SessionTypes
<1>18. CASE RunHook
  <2>1. UNCHANGED <<sessionVars, late>> /\ misused' \subseteq {"written", "panicked"}
    BY <1>18 DEF RunHook, SessionTypes
  <2> QED
    BY <2>1 DEF SessionTypes, sessionVars
<1>19. CASE EndCommit
  BY <1>19
     DEF EndCommit, sessionVars, historyVars, SessionTypes
<1>20. CASE HelperChecks
  BY <1>20
     DEF HelperChecks, historyVars, SessionTypes
<1>21. CASE HelperLocks
  BY <1>21
     DEF HelperLocks, historyVars, SessionTypes
<1>22. CASE HelperStores
  <2>1. data + 1 \in Nat
    BY DEF SessionTypes
  <2>2. data' \in Nat /\ pending' \in Nat /\ late' \subseteq Nat
    BY <1>22, <2>1, StoreTyped DEF HelperStores
  <2> QED
    BY <1>22, <2>2 DEF HelperStores, SessionTypes
<1>23. CASE RenderError
  <2>1. UNCHANGED <<sessionVars, misused>> /\ (late' = late \/ late' = {pending})
    BY <1>23 DEF RenderError, BeginCommit
  <2>2. late' \subseteq Nat
    BY <2>1 DEF SessionTypes
  <2>3. UNCHANGED <<locked, data, pending, helper, misused>>
    BY <2>1 DEF sessionVars
  <2> QED
    BY <2>2, <2>3 DEF SessionTypes
<1>24. CASE RenderCustom
  <2>1. UNCHANGED <<sessionVars, misused>> /\ (late' = late \/ late' = {pending})
    BY <1>24 DEF RenderCustom, BeginCommit
  <2>2. late' \subseteq Nat
    BY <2>1 DEF SessionTypes
  <2>3. UNCHANGED <<locked, data, pending, helper, misused>>
    BY <2>1 DEF sessionVars
  <2> QED
    BY <2>2, <2>3 DEF SessionTypes
<1>25. CASE Fallback
  <2>1. UNCHANGED <<sessionVars, misused>> /\ (late' = late \/ late' = {pending})
    BY <1>25 DEF Fallback, BeginCommit
  <2>2. late' \subseteq Nat
    BY <2>1 DEF SessionTypes
  <2>3. UNCHANGED <<locked, data, pending, helper, misused>>
    BY <2>1 DEF sessionVars
  <2> QED
    BY <2>2, <2>3 DEF SessionTypes
<1>26. CASE Finish
  <2>1. UNCHANGED <<sessionVars, misused>> /\ (late' = late \/ late' = {pending})
    BY <1>26 DEF Finish, BeginCommit
  <2>2. late' \subseteq Nat
    BY <2>1 DEF SessionTypes
  <2>3. UNCHANGED <<locked, data, pending, helper, misused>>
    BY <2>1 DEF sessionVars
  <2> QED
    BY <2>2, <2>3 DEF SessionTypes
<1>27. CASE RunAfterHook
  BY <1>27
     DEF RunAfterHook, sessionVars, historyVars, SessionTypes
<1>28. CASE Done
  BY <1>28
     DEF Done, sessionVars, historyVars, SessionTypes
<1>29. CASE UNCHANGED vars
  BY <1>29
     DEF vars, sessionVars, historyVars, SessionTypes
<1> QED
  BY <1>1, <1>2, <1>3, <1>4, <1>5, <1>6, <1>7, <1>8, <1>9, <1>10, <1>11, <1>12, <1>13, <1>14,
       <1>15, <1>16, <1>17, <1>18, <1>19, <1>20, <1>21, <1>22, <1>23, <1>24, <1>25, <1>26,
       <1>27, <1>28, <1>29 DEF Next, Rest

\* A step keeps the types of the response.
LEMMA ResponseTypesStep ==
    ASSUME ResponseTypes, SessionTypes, [Next]_vars
    PROVE  ResponseTypes'
<1>1. CASE CountActive
  BY <1>1
     DEF CountActive, responseVars, wireVars, ResponseTypes
<1>2. CASE CheckOrigin
  <2>1. failure' \in ErrorKind
    <3>1. CASE Through(Cors(request), "session")
      BY <3>1, OutcomesTyped, ThroughTyped
    <3>2. CASE UNCHANGED failure
      BY <3>2 DEF ResponseTypes
    <3> QED
      BY <1>2, <3>1, <3>2 DEF CheckOrigin
  <2>2. next' \in Nat /\ caller' \in {"answer", "handler"} \union {caller}
    BY <1>2 DEF CheckOrigin, BeginCommit, ResponseTypes
  <2> QED
    BY <1>2, <2>1, <2>2 DEF CheckOrigin, responseVars, wireVars, ResponseTypes
<1>3. CASE LoadSession
  BY <1>3
     DEF LoadSession, wireVars, ResponseTypes
<1>4. CASE LoadSessionFails
  <2>0. Refuse(Plain) \in Outcome
    BY ErrorsTyped DEF Refuse, Outcome
  <2>1. failure' \in ErrorKind
    BY <1>4, <2>0, ThroughTyped DEF LoadSessionFails
  <2> QED
    BY <1>4, <2>1 DEF LoadSessionFails, chainVars, requestVars, configVars, responseVars,
       wireVars, sessionVars, metricVars, historyVars, ResponseTypes
<1>5. CASE CheckCaller
  <2>1. failure' \in ErrorKind
    BY <1>5, OutcomesTyped, ThroughTyped DEF CheckCaller
  <2> QED
    BY <1>5, <2>1 DEF CheckCaller, chainVars, requestVars, configVars, responseVars, wireVars,
       sessionVars, metricVars, historyVars, ResponseTypes
<1>6. CASE CheckToken
  <2>1. failure' \in ErrorKind
    BY <1>6, OutcomesTyped, ThroughTyped DEF CheckToken
  <2> QED
    BY <1>6, <2>1 DEF CheckToken, configVars, responseVars, wireVars, sessionVars, metricVars,
       historyVars, ResponseTypes
<1>7. CASE FindRoute
  <2>1. failure' \in ErrorKind
    BY <1>7, OutcomesTyped, ThroughTyped DEF FindRoute
  <2> QED
    BY <1>7, <2>1 DEF FindRoute, chainVars, requestVars, configVars, responseVars, wireVars,
       sessionVars, metricVars, historyVars, ResponseTypes
<1>8. CASE CheckGrants
  <2>1. failure' \in ErrorKind
    BY <1>8, OutcomesTyped, ThroughTyped DEF CheckGrants
  <2> QED
    BY <1>8, <2>1 DEF CheckGrants, chainVars, requestVars, configVars, responseVars, wireVars,
       sessionVars, metricVars, historyVars, ResponseTypes
<1>9. CASE BindRequest
  <2> DEFINE o == IF Bind(request).err = NoError THEN Pass ELSE Refuse(Bind(request).err)
  <2>1. o \in Outcome
    BY OutcomesTyped, BindErrorTyped DEF Refuse, Outcome
  <2>2. Through(o, "bound")
    BY <1>9 DEF BindRequest
  <2> HIDE DEF o
  <2>3. failure' \in ErrorKind
    BY <2>1, <2>2, ThroughTyped
  <2> QED
    BY <1>9, <2>3 DEF BindRequest, responseVars, wireVars, ResponseTypes
<1>10. CASE Enter
  BY <1>10
     DEF Enter, responseVars, wireVars, ResponseTypes
<1>11. ASSUME NEW code \in {101, 103, 200, 404}, WriteHeader(code) PROVE ResponseTypes'
  BY <1>11
     DEF WriteHeader, responseVars, wireVars, BeginCommit, ResponseTypes
<1>12. ASSUME NEW hook \in {"plain", "writes", "panics"}, BeforeCommit(hook) PROVE ResponseTypes'
  BY <1>12
     DEF BeforeCommit, wireVars, ResponseTypes
<1>13. ASSUME NEW hook \in {"plain", "panics"}, AfterResponse(hook) PROVE ResponseTypes'
  BY <1>13
     DEF AfterResponse, responseVars, wireVars, ResponseTypes
<1>14. CASE Hijack
  BY <1>14
     DEF Hijack, wireVars, ResponseTypes
<1>15. CASE ChangeSession
  BY <1>15
     DEF ChangeSession, responseVars, wireVars, ResponseTypes
<1>16. CASE HandlerPanics
  <2>1. failure' \in ErrorKind /\ status' \in Nat
    BY <1>16, ErrorsTyped DEF HandlerPanics, Escape, ResponseTypes
  <2> QED
    BY <1>16, <2>1 DEF HandlerPanics, wireVars, ResponseTypes
<1>17. ASSUME NEW err \in Errors \union {NoError}, HandlerReturns(err) PROVE ResponseTypes'
  <2>1. failure' \in ErrorKind
    BY <1>17, ErrorsTyped, ErrorsAssumption DEF HandlerReturns
  <2> QED
    BY <1>17, <2>1 DEF HandlerReturns, responseVars, wireVars, ResponseTypes
<1>18. CASE RunHook
  <2>1. hooks # <<>> /\ UNCHANGED <<caller, next, wroteHeader, hijacked>>
    BY <1>18 DEF RunHook
  <2>2. Tail(hooks) \in Seq({"session", "plain", "writes", "panics"})
    BY <2>1, HeadAndTail DEF ResponseTypes
  <2>3. hooks' = Tail(hooks) \/ hooks' = <<>>
    BY <1>18 DEF RunHook
  <2>4. hooks' \in Seq({"session", "plain", "writes", "panics"})
    BY <2>2, <2>3, EmptyTyped
  <2>5. header' \in Nat /\ wire' \in Nat /\ sent' \in Nat
    BY <1>18 DEF RunHook, SessionHook, Send, wireVars, ResponseTypes, SessionTypes
  <2>6. failure' \in ErrorKind /\ status' \in Nat
    <3>1. CASE Panic
      BY <3>1, ErrorsTyped DEF Panic, Escape, ResponseTypes
    <3>2. CASE UNCHANGED <<failure, status>>
      BY <3>2 DEF ResponseTypes
    <3> QED
      BY <1>18, <3>1, <3>2 DEF RunHook
  <2> QED
    BY <2>1, <2>4, <2>5, <2>6 DEF ResponseTypes
<1>19. CASE EndCommit
  BY <1>19
     DEF EndCommit, Send, ResponseTypes
<1>20. CASE HelperChecks
  BY <1>20
     DEF HelperChecks, responseVars, wireVars, ResponseTypes
<1>21. CASE HelperLocks
  BY <1>21
     DEF HelperLocks, responseVars, wireVars, ResponseTypes
<1>22. CASE HelperStores
  BY <1>22
     DEF HelperStores, responseVars, wireVars, ResponseTypes
<1>23. CASE RenderError
  <2>1. MapError(failure) \in Nat
    <3>1. failure \in ErrorKind
      BY DEF ResponseTypes
    <3>2. MapError(failure) \in 400..599
      BY <3>1, MapErrorIsError
    <3> QED
      BY <3>2
  <2>2. next' \in Nat /\ caller' \in {caller, "render"}
    BY <1>23, <2>1 DEF RenderError, BeginCommit, ResponseTypes
  <2> QED
    BY <1>23, <2>2 DEF RenderError, responseVars, wireVars, ResponseTypes
<1>24. CASE RenderCustom
  <2>1. MapError(failure) \in Nat
    <3>1. failure \in ErrorKind
      BY DEF ResponseTypes
    <3>2. MapError(failure) \in 400..599
      BY <3>1, MapErrorIsError
    <3> QED
      BY <3>2
  <2>2. next' \in Nat /\ caller' \in {caller, "render"}
    BY <1>24, <2>1 DEF RenderCustom, BeginCommit, ResponseTypes
  <2> QED
    BY <1>24, <2>2 DEF RenderCustom, responseVars, wireVars, ResponseTypes
<1>25. CASE Fallback
  <2>1. next' \in Nat /\ caller' \in {caller, "fallback"} /\ header' \in Nat
    BY <1>25 DEF Fallback, BeginCommit, ResponseTypes, None
  <2> QED
    BY <1>25, <2>1 DEF Fallback, responseVars, ResponseTypes
<1>26. CASE Finish
  BY <1>26
     DEF Finish, responseVars, wireVars, BeginCommit, ResponseTypes
<1>27. CASE RunAfterHook
  BY <1>27
     DEF RunAfterHook, responseVars, wireVars, ResponseTypes
<1>28. CASE Done
  BY <1>28
     DEF Done, responseVars, wireVars, ResponseTypes
<1>29. CASE UNCHANGED vars
  BY <1>29
     DEF vars, responseVars, wireVars, ResponseTypes
<1> QED
  BY <1>1, <1>2, <1>3, <1>4, <1>5, <1>6, <1>7, <1>8, <1>9, <1>10, <1>11, <1>12, <1>13, <1>14,
       <1>15, <1>16, <1>17, <1>18, <1>19, <1>20, <1>21, <1>22, <1>23, <1>24, <1>25, <1>26,
       <1>27, <1>28, <1>29 DEF Next, Rest

\* A hook that is registered is in the list, and the others stay.
LEMMA AppendHas ==
    ASSUME NEW S, NEW s \in Seq(S), NEW x, NEW y
    PROVE  /\ Has(Append(s, x), x)
           /\ Has(s, x) => Has(Append(s, y), x)
           /\ ~Has(s, x) => HasOne(Append(s, x), x)
           /\ y # x /\ HasOne(s, x) => HasOne(Append(s, y), x)
<1> DEFINE a(z) == Append(s, z)
<1>1. ASSUME NEW z PROVE /\ DOMAIN a(z) = 1..(Len(s) + 1) /\ a(z)[Len(s) + 1] = z
                         /\ DOMAIN s = 1..Len(s) /\ Len(s) \in Nat
                         /\ \A i \in 1..Len(s) : a(z)[i] = s[i]
  OBVIOUS
<1> HIDE DEF a
<1>2. Has(a(x), x)
  <2>1. Len(s) + 1 \in DOMAIN a(x) /\ a(x)[Len(s) + 1] = x
    BY <1>1
  <2> QED
    BY <2>1 DEF Has
<1>3. Has(s, x) => Has(a(y), x)
  BY <1>1 DEF Has
<1>4. ASSUME ~Has(s, x) PROVE HasOne(a(x), x)
  <2>1. \A j \in DOMAIN a(x) : a(x)[j] = x => j = Len(s) + 1
    BY <1>1, <1>4 DEF Has
  <2> QED
    BY <1>1, <2>1 DEF HasOne
<1>5. ASSUME y # x, HasOne(s, x) PROVE HasOne(a(y), x)
  <2>1. PICK i \in DOMAIN s : s[i] = x /\ \A j \in DOMAIN s : s[j] = x => j = i
    BY <1>5 DEF HasOne
  <2>2. i \in DOMAIN a(y) /\ a(y)[i] = x
    BY <1>1, <2>1
  <2>3. \A j \in DOMAIN a(y) : a(y)[j] = x => j = i
    BY <1>1, <1>5, <2>1
  <2> QED
    BY <2>2, <2>3 DEF HasOne
<1> QED
  BY <1>2, <1>3, <1>4, <1>5 DEF a

\* A hook that has run is off the list, and the others stay.
LEMMA TailHas ==
    ASSUME NEW S, NEW s \in Seq(S), s # <<>>, NEW x
    PROVE  /\ ~Has(s, x) => ~Has(Tail(s), x) /\ Head(s) # x
           /\ Has(s, x) /\ Head(s) # x => Has(Tail(s), x)
           /\ HasOne(s, x) /\ Head(s) = x => ~Has(Tail(s), x)
           /\ HasOne(s, x) /\ Head(s) # x => HasOne(Tail(s), x)
<1> DEFINE t == Tail(s)
<1>1. /\ Head(s) = s[1] /\ 1 \in DOMAIN s /\ DOMAIN t = 1..(Len(s) - 1) /\ DOMAIN s = 1..Len(s)
      /\ Len(s) \in Nat /\ \A i \in DOMAIN t : t[i] = s[i + 1]
  BY HeadAndTail
<1> HIDE DEF t
<1>2. \A i \in DOMAIN t : i + 1 \in DOMAIN s /\ i + 1 # 1
  BY <1>1
<1>3. \A i \in DOMAIN s : i # 1 => i - 1 \in DOMAIN t /\ t[i - 1] = s[i]
  <2> TAKE i \in DOMAIN s
  <2> HAVE i # 1
  <2>1. i - 1 \in DOMAIN t /\ (i - 1) + 1 = i
    BY <1>1
  <2> QED
    BY <1>1, <2>1
<1>4. ~Has(s, x) => ~Has(t, x) /\ Head(s) # x
  BY <1>1, <1>2 DEF Has
<1>5. Has(s, x) /\ Head(s) # x => Has(t, x)
  BY <1>1, <1>3 DEF Has
<1>6. HasOne(s, x) /\ Head(s) = x => ~Has(t, x)
  BY <1>1, <1>2 DEF Has, HasOne
<1>7. ASSUME HasOne(s, x), Head(s) # x PROVE HasOne(t, x)
  <2>1. PICK i \in DOMAIN s : s[i] = x /\ \A j \in DOMAIN s : s[j] = x => j = i
    BY <1>7 DEF HasOne
  <2>2. i - 1 \in DOMAIN t /\ t[i - 1] = x
    BY <1>1, <1>3, <1>7, <2>1
  <2>3. \A j \in DOMAIN t : t[j] = x => j = i - 1
    BY <1>1, <1>2, <2>1
  <2> QED
    BY <2>2, <2>3 DEF HasOne
<1> QED
  BY <1>4, <1>5, <1>6, <1>7 DEF t

\* The hook of the metrics is left alone by all but a few steps.
LEMMA CountAside ==
    ASSUME CountInv, pc \notin {"metrics", "after", "done"}, pc' \notin {"metrics", "done"},
           UNCHANGED <<after, active, observed>>
    PROVE  CountInv'
BY DEF CountInv, Waiting, Counted

\* CountInv speaks of six variables only.
LEMMA CountSame ==
    ASSUME CountInv, UNCHANGED <<pc, after, active, observed, status, stored>>
    PROVE  CountInv'
BY DEF CountInv, Waiting, Counted, Status

\* The gauge and the status of a request are settled once.
LEMMA CountStep ==
    ASSUME ResponseTypes, MetricTypes, CountInv, [Next]_vars
    PROVE  CountInv'
<1>1. CASE CountActive
  <2>1. /\ pc = "metrics" /\ pc' = "cors" /\ active' = active + 1 /\ observed' = observed
        /\ after' = Append(after, "metrics")
    BY <1>1 DEF CountActive
  <2>2. ~Has(after, "metrics") /\ active = 0 /\ observed = <<>>
    BY <2>1 DEF CountInv
  <2>3. HasOne(after', "metrics")
    BY <2>1, <2>2, AppendHas DEF MetricTypes
  <2> QED
    BY <2>1, <2>2, <2>3 DEF CountInv, Waiting
<1>2. CASE CheckOrigin
  <2>1. pc \notin {"metrics", "after", "done"} /\ pc' \notin {"metrics", "done"}
    BY <1>2 DEF CheckOrigin, Through, BeginCommit
  <2>2. UNCHANGED <<after, active, observed>>
    BY <1>2 DEF CheckOrigin, metricVars
  <2> QED
    BY <2>1, <2>2, CountAside
<1>3. CASE LoadSession
  <2>1. pc \notin {"metrics", "after", "done"} /\ pc' \notin {"metrics", "done"}
    BY <1>3 DEF LoadSession
  <2>2. UNCHANGED <<after, active, observed>>
    BY <1>3 DEF LoadSession, metricVars
  <2> QED
    BY <2>1, <2>2, CountAside
<1>4. CASE LoadSessionFails
  <2>1. pc \notin {"metrics", "after", "done"} /\ pc' \notin {"metrics", "done"}
    BY <1>4 DEF LoadSessionFails, Through
  <2>2. UNCHANGED <<after, active, observed>>
    BY <1>4 DEF LoadSessionFails, chainVars, metricVars
  <2> QED
    BY <2>1, <2>2, CountAside
<1>5. CASE CheckCaller
  <2>1. pc \notin {"metrics", "after", "done"} /\ pc' \notin {"metrics", "done"}
    BY <1>5 DEF CheckCaller, Through
  <2>2. UNCHANGED <<after, active, observed>>
    BY <1>5 DEF CheckCaller, chainVars, metricVars
  <2> QED
    BY <2>1, <2>2, CountAside
<1>6. CASE CheckToken
  <2>1. pc \notin {"metrics", "after", "done"} /\ pc' \notin {"metrics", "done"}
    BY <1>6 DEF CheckToken, Through
  <2>2. UNCHANGED <<after, active, observed>>
    BY <1>6 DEF CheckToken, metricVars
  <2> QED
    BY <2>1, <2>2, CountAside
<1>7. CASE FindRoute
  <2>1. pc \notin {"metrics", "after", "done"} /\ pc' \notin {"metrics", "done"}
    BY <1>7 DEF FindRoute, Through
  <2>2. UNCHANGED <<after, active, observed>>
    BY <1>7 DEF FindRoute, chainVars, metricVars
  <2> QED
    BY <2>1, <2>2, CountAside
<1>8. CASE CheckGrants
  <2>1. pc \notin {"metrics", "after", "done"} /\ pc' \notin {"metrics", "done"}
    BY <1>8 DEF CheckGrants, Through
  <2>2. UNCHANGED <<after, active, observed>>
    BY <1>8 DEF CheckGrants, chainVars, metricVars
  <2> QED
    BY <2>1, <2>2, CountAside
<1>9. CASE BindRequest
  <2>1. pc \notin {"metrics", "after", "done"} /\ pc' \notin {"metrics", "done"}
    BY <1>9 DEF BindRequest, Through
  <2>2. UNCHANGED <<after, active, observed>>
    BY <1>9 DEF BindRequest, metricVars
  <2> QED
    BY <2>1, <2>2, CountAside
<1>10. CASE Enter
  <2>1. pc \notin {"metrics", "after", "done"} /\ pc' \notin {"metrics", "done"}
    BY <1>10 DEF Enter
  <2>2. UNCHANGED <<after, active, observed>>
    BY <1>10 DEF Enter, metricVars
  <2> QED
    BY <2>1, <2>2, CountAside
<1>11. ASSUME NEW code \in {101, 103, 200, 404}, WriteHeader(code) PROVE CountInv'
  <2>1. pc \notin {"metrics", "after", "done"} /\ pc' \notin {"metrics", "done"}
    BY <1>11 DEF WriteHeader, BeginCommit
  <2>2. UNCHANGED <<after, active, observed>>
    BY <1>11 DEF WriteHeader, metricVars
  <2> QED
    BY <2>1, <2>2, CountAside
<1>12. ASSUME NEW hook \in {"plain", "writes", "panics"}, BeforeCommit(hook) PROVE CountInv'
  <2>1. pc = "handler" /\ UNCHANGED <<pc, after, active, observed>>
    BY <1>12 DEF BeforeCommit, metricVars
  <2> QED
    BY <2>1, CountAside
<1>13. ASSUME NEW hook \in {"plain", "panics"}, AfterResponse(hook) PROVE CountInv'
  <2>1. pc = "handler" /\ UNCHANGED <<pc, active, observed>> /\ after' = Append(after, hook) /\ hook # "metrics"
    BY <1>13 DEF AfterResponse, metricVars
  <2>2. Waiting
    BY <2>1 DEF CountInv
  <2>3. HasOne(after', "metrics")
    BY <2>1, <2>2, AppendHas DEF MetricTypes, Waiting
  <2> QED
    BY <2>1, <2>2, <2>3 DEF CountInv, Waiting
<1>14. CASE Hijack
  <2>1. pc = "handler" /\ UNCHANGED <<pc, after, active, observed>>
    BY <1>14 DEF Hijack, metricVars
  <2> QED
    BY <2>1, CountAside
<1>15. CASE ChangeSession
  <2>1. pc = "handler" /\ UNCHANGED <<pc, after, active, observed>>
    BY <1>15 DEF ChangeSession, metricVars
  <2> QED
    BY <2>1, CountAside
<1>16. CASE HandlerPanics
  <2>1. pc \notin {"metrics", "after", "done"} /\ pc' \notin {"metrics", "done"}
    BY <1>16 DEF HandlerPanics, Escape
  <2>2. UNCHANGED <<after, active, observed>>
    BY <1>16 DEF HandlerPanics, metricVars
  <2> QED
    BY <2>1, <2>2, CountAside
<1>17. ASSUME NEW err \in Errors \union {NoError}, HandlerReturns(err) PROVE CountInv'
  <2>1. pc \notin {"metrics", "after", "done"} /\ pc' \notin {"metrics", "done"}
    BY <1>17 DEF HandlerReturns
  <2>2. UNCHANGED <<after, active, observed>>
    BY <1>17 DEF HandlerReturns, metricVars
  <2> QED
    BY <2>1, <2>2, CountAside
<1>18. CASE RunHook
  <2>1. pc = "commit" /\ UNCHANGED <<after, active, observed>>
    BY <1>18 DEF RunHook, metricVars
  <2>2. pc' \in {"commit", "render", "fallback", "after"}
    BY <1>18, <2>1 DEF RunHook, Panic, Escape
  <2> QED
    BY <2>1, <2>2, CountAside
<1>19. CASE EndCommit
  <2>1. pc = "commit" /\ pc' \in {"handler", "finish", "after"} /\ UNCHANGED <<after, active, observed>>
    BY <1>19 DEF EndCommit, ResponseTypes, metricVars
  <2> QED
    BY <2>1, CountAside
<1>20. CASE HelperChecks
  BY <1>20, CountSame DEF HelperChecks, handlerVars, requestVars, responseVars, metricVars
<1>21. CASE HelperLocks
  BY <1>21, CountSame DEF HelperLocks, handlerVars, requestVars, responseVars, metricVars
<1>22. CASE HelperStores
  BY <1>22, CountSame DEF HelperStores, handlerVars, requestVars, responseVars, metricVars
<1>23. CASE RenderError
  <2>1. pc \notin {"metrics", "after", "done"} /\ pc' \notin {"metrics", "done"}
    BY <1>23 DEF RenderError, BeginCommit
  <2>2. UNCHANGED <<after, active, observed>>
    BY <1>23 DEF RenderError, metricVars
  <2> QED
    BY <2>1, <2>2, CountAside
<1>24. CASE RenderCustom
  <2>1. pc \notin {"metrics", "after", "done"} /\ pc' \notin {"metrics", "done"}
    BY <1>24 DEF RenderCustom, BeginCommit
  <2>2. UNCHANGED <<after, active, observed>>
    BY <1>24 DEF RenderCustom, metricVars
  <2> QED
    BY <2>1, <2>2, CountAside
<1>25. CASE Fallback
  <2>1. pc \notin {"metrics", "after", "done"} /\ pc' \notin {"metrics", "done"}
    BY <1>25 DEF Fallback, BeginCommit
  <2>2. UNCHANGED <<after, active, observed>>
    BY <1>25 DEF Fallback, metricVars
  <2> QED
    BY <2>1, <2>2, CountAside
<1>26. CASE Finish
  <2>1. pc \notin {"metrics", "after", "done"} /\ pc' \notin {"metrics", "done"}
    BY <1>26 DEF Finish, BeginCommit
  <2>2. UNCHANGED <<after, active, observed>>
    BY <1>26 DEF Finish, metricVars
  <2> QED
    BY <2>1, <2>2, CountAside
<1>27. CASE RunAfterHook
  <2>1. /\ pc = "after" /\ pc' = pc /\ after # <<>> /\ after' = Tail(after) /\ status' = status
        /\ IF Head(after) = "metrics" THEN Observe ELSE UNCHANGED metricVars
    BY <1>27 DEF RunAfterHook, responseVars
  <2>2. Waiting \/ Counted
    BY <2>1 DEF CountInv
  <2>3. /\ ~Has(after, "metrics") => ~Has(after', "metrics") /\ Head(after) # "metrics"
        /\ HasOne(after, "metrics") /\ Head(after) = "metrics" => ~Has(after', "metrics")
        /\ HasOne(after, "metrics") /\ Head(after) # "metrics" => HasOne(after', "metrics")
    BY <2>1, TailHas DEF MetricTypes
  <2>4. Status' = Status
    BY <2>1 DEF Status
  <2>5. CASE Head(after) = "metrics"
    <3>1. Waiting
      BY <2>2, <2>3, <2>5 DEF Counted
    <3>2. active' = 0 /\ observed' = <<Status>>
      BY <2>1, <2>5, <3>1 DEF Waiting, Observe
    <3>3. Counted'
      BY <2>3, <2>4, <2>5, <3>1, <3>2 DEF Waiting, Counted
    <3> QED
      BY <2>1, <3>3 DEF CountInv
  <2>6. CASE Head(after) # "metrics"
    <3>1. UNCHANGED <<active, observed>>
      BY <2>1, <2>6 DEF metricVars
    <3>2. Waiting' \/ Counted'
      BY <2>2, <2>3, <2>4, <2>6, <3>1 DEF Waiting, Counted
    <3> QED
      BY <2>1, <3>2 DEF CountInv
  <2> QED
    BY <2>5, <2>6
<1>28. CASE Done
  <2>1. pc = "after" /\ after = <<>> /\ pc' = "done" /\ stored' = FALSE /\ UNCHANGED <<after, active, observed, status>>
    BY <1>28 DEF Done, responseVars, metricVars
  <2> QED
    BY <2>1 DEF CountInv, Waiting, Counted, Status
<1>29. CASE UNCHANGED vars
  <2>1. UNCHANGED <<pc, after, active, observed, status, stored>>
    BY <1>29 DEF vars, requestVars, responseVars, metricVars
  <2> QED
    BY <2>1, CountSame
<1> QED
  BY <1>1, <1>2, <1>3, <1>4, <1>5, <1>6, <1>7, <1>8, <1>9, <1>10, <1>11, <1>12, <1>13, <1>14,
       <1>15, <1>16, <1>17, <1>18, <1>19, <1>20, <1>21, <1>22, <1>23, <1>24, <1>25, <1>26,
       <1>27, <1>28, <1>29 DEF Next, Rest

\* What a step of the chain does: it goes on because the middleware lets the request
\* pass, or there is an error to be rendered.
LEMMA ChainMeans ==
    ASSUME NEW r, NEW o \in {Cors(r), Authenticate(r), Csrf(r), Dispatch(r), Require(r)}, NEW step, Through(o, step)
    PROVE  (o = Pass /\ pc' = step /\ failure' = NoError) \/ pc' = "render"
<1>1. \A e : Refuse(e).kind = "error"
  BY DEF Refuse
<1>2. Pass.kind = "next" /\ Pass.err = NoError /\ Answer.kind = "answer"
  BY DEF Pass, Answer
<1>3. \A p \in {Cors(r), Dispatch(r), Require(r)} : p = Pass \/ p = Answer \/ \E e : p = Refuse(e)
  BY DEF Cors, Dispatch, Require
<1>4. Authenticate(r) = Pass \/ \E e : Authenticate(r) = Refuse(e)
  BY DEF Authenticate
<1>5. Csrf(r) = Pass \/ \E e : Csrf(r) = Refuse(e)
  BY DEF Csrf, IssueToken
<1>6. o = Pass \/ o = Answer \/ \E e : o = Refuse(e)
  BY <1>3, <1>4, <1>5
<1> QED
  BY <1>1, <1>2, <1>6 DEF Through

\* A request is bound to what Bind made of it, or its error is rendered.
LEMMA BindMeans ==
    ASSUME BindRequest
    PROVE  \/ pc' = "bound" /\ failure' = NoError /\ bound' = Bind(request).dest
           \/ pc' = "render"
<1>1. Pass.kind = "next" /\ Pass.err = NoError /\ \A e : Refuse(e).kind = "error"
  BY DEF Pass, Refuse
<1>2. CASE Bind(request).err = NoError
  BY <1>1, <1>2 DEF BindRequest, Through
<1>3. CASE Bind(request).err # NoError
  BY <1>1, <1>3 DEF BindRequest, Through
<1> QED
  BY <1>2, <1>3

\* A step of the chain hands on no error, or goes to render it.
LEMMA ErrorAside ==
    ASSUME ErrorInv, AnswerInv, pc \in Chain, pc' \in Chain \union {"render"}, pc' = "render" \/ failure' = NoError,
           UNCHANGED <<caller, custom, wroteHeader>>
    PROVE  ErrorInv'
BY DEF ErrorInv, AnswerInv, Chain

\* The tracked response goes on agreeing with net/http.
LEMMA AnswerStep ==
    ASSUME ResponseTypes, AnswerInv, [Next]_vars
    PROVE  AnswerInv'
<1>1. CASE CountActive
  BY <1>1
     DEF CountActive, responseVars, wireVars, historyVars, AnswerInv, ResponseTypes, Chain
<1>2. CASE CheckOrigin
  BY <1>2
     DEF CheckOrigin, responseVars, wireVars, Through, BeginCommit, AnswerInv, ResponseTypes,
       Chain
<1>3. CASE LoadSession
  BY <1>3
     DEF LoadSession, wireVars, historyVars, AnswerInv, ResponseTypes, Chain
<1>4. CASE LoadSessionFails
  BY <1>4
     DEF LoadSessionFails, chainVars, responseVars, wireVars, historyVars, Through, AnswerInv,
       ResponseTypes, Chain
<1>5. CASE CheckCaller
  BY <1>5
     DEF CheckCaller, chainVars, responseVars, wireVars, historyVars, Through, AnswerInv,
       ResponseTypes, Chain
<1>6. CASE CheckToken
  BY <1>6
     DEF CheckToken, responseVars, wireVars, historyVars, Through, AnswerInv, ResponseTypes,
       Chain
<1>7. CASE FindRoute
  BY <1>7
     DEF FindRoute, chainVars, responseVars, wireVars, historyVars, Through, AnswerInv,
       ResponseTypes, Chain
<1>8. CASE CheckGrants
  BY <1>8
     DEF CheckGrants, chainVars, responseVars, wireVars, historyVars, Through, AnswerInv,
       ResponseTypes, Chain
<1>9. CASE BindRequest
  BY <1>9
     DEF BindRequest, responseVars, wireVars, historyVars, Through, AnswerInv, ResponseTypes,
       Chain
<1>10. CASE Enter
  BY <1>10
     DEF Enter, responseVars, wireVars, historyVars, AnswerInv, ResponseTypes, Chain
<1>11. ASSUME NEW code \in {101, 103, 200, 404}, WriteHeader(code) PROVE AnswerInv'
  BY <1>11
     DEF WriteHeader, responseVars, wireVars, BeginCommit, AnswerInv, ResponseTypes, Chain
<1>12. ASSUME NEW hook \in {"plain", "writes", "panics"}, BeforeCommit(hook) PROVE AnswerInv'
  BY <1>12
     DEF BeforeCommit, wireVars, historyVars, AnswerInv, ResponseTypes, Chain
<1>13. ASSUME NEW hook \in {"plain", "panics"}, AfterResponse(hook) PROVE AnswerInv'
  BY <1>13
     DEF AfterResponse, responseVars, wireVars, historyVars, AnswerInv, ResponseTypes, Chain
<1>14. CASE Hijack
  BY <1>14
     DEF Hijack, wireVars, historyVars, AnswerInv, ResponseTypes, Chain
<1>15. CASE ChangeSession
  BY <1>15
     DEF ChangeSession, responseVars, wireVars, AnswerInv, ResponseTypes, Chain
<1>16. CASE HandlerPanics
  BY <1>16
     DEF HandlerPanics, wireVars, historyVars, Escape, AnswerInv, ResponseTypes, Chain
<1>17. ASSUME NEW err \in Errors \union {NoError}, HandlerReturns(err) PROVE AnswerInv'
  BY <1>17
     DEF HandlerReturns, responseVars, wireVars, historyVars, AnswerInv, ResponseTypes, Chain
<1>18. CASE RunHook
  BY <1>18
     DEF RunHook, wireVars, Panic, Escape, Send, AnswerInv, ResponseTypes, Chain
<1>19. CASE EndCommit
  BY <1>19
     DEF EndCommit, historyVars, Send, AnswerInv, ResponseTypes, Chain
<1>20. CASE HelperChecks
  BY <1>20
     DEF HelperChecks, responseVars, wireVars, historyVars, AnswerInv, ResponseTypes, Chain
<1>21. CASE HelperLocks
  BY <1>21
     DEF HelperLocks, responseVars, wireVars, historyVars, AnswerInv, ResponseTypes, Chain
<1>22. CASE HelperStores
  BY <1>22
     DEF HelperStores, responseVars, wireVars, AnswerInv, ResponseTypes, Chain
<1>23. CASE RenderError
  <2>1. MapError(failure) \in 400..599
    BY MapErrorIsError DEF ResponseTypes
  <2>2. MapError(failure) # 0
    BY <2>1
  <2> QED
    BY <1>23, <2>2 DEF RenderError, responseVars, wireVars, BeginCommit, AnswerInv, ResponseTypes, Chain
<1>24. CASE RenderCustom
  <2>1. MapError(failure) \in 400..599
    BY MapErrorIsError DEF ResponseTypes
  <2>2. MapError(failure) # 0
    BY <2>1
  <2> QED
    BY <1>24, <2>2 DEF RenderCustom, responseVars, wireVars, BeginCommit, AnswerInv, ResponseTypes, Chain
<1>25. CASE Fallback
  BY <1>25
     DEF Fallback, responseVars, BeginCommit, AnswerInv, ResponseTypes, Chain
<1>26. CASE Finish
  BY <1>26
     DEF Finish, responseVars, wireVars, BeginCommit, AnswerInv, ResponseTypes, Chain
<1>27. CASE RunAfterHook
  BY <1>27
     DEF RunAfterHook, responseVars, wireVars, historyVars, AnswerInv, ResponseTypes, Chain
<1>28. CASE Done
  BY <1>28
     DEF Done, responseVars, wireVars, historyVars, AnswerInv, ResponseTypes, Chain
<1>29. CASE UNCHANGED vars
  BY <1>29
     DEF vars, responseVars, wireVars, historyVars, AnswerInv, ResponseTypes, Chain
<1> QED
  BY <1>1, <1>2, <1>3, <1>4, <1>5, <1>6, <1>7, <1>8, <1>9, <1>10, <1>11, <1>12, <1>13, <1>14,
       <1>15, <1>16, <1>17, <1>18, <1>19, <1>20, <1>21, <1>22, <1>23, <1>24, <1>25, <1>26,
       <1>27, <1>28, <1>29 DEF Next, Rest

\* Nor is an error answered as a success.
LEMMA ErrorStep ==
    ASSUME ResponseTypes, RequestTypes, AnswerInv, ErrorInv, [Next]_vars
    PROVE  ErrorInv'
<1>1. CASE CountActive
  BY <1>1
     DEF CountActive, requestVars, configVars, responseVars, ErrorInv, AnswerInv, ResponseTypes,
       RequestTypes, Chain
<1>2. CASE CheckOrigin
  <2>1. pc = "cors" /\ UNCHANGED <<custom, wroteHeader>>
    BY <1>2 DEF CheckOrigin, requestVars, configVars, responseVars
  <2>2. CASE Through(Cors(request), "session") /\ UNCHANGED <<caller, next, late>>
    <3>1. (pc' = "session" /\ failure' = NoError) \/ pc' = "render"
      BY <2>2, ChainMeans
    <3> QED
      BY <2>1, <2>2, <3>1, ErrorAside DEF Chain
  <2>3. CASE BeginCommit(204, "answer") /\ UNCHANGED failure
    BY <2>1, <2>3 DEF BeginCommit, ErrorInv, AnswerInv, Chain
  <2> QED
    BY <1>2, <2>2, <2>3 DEF CheckOrigin
<1>3. CASE LoadSession
  BY <1>3
     DEF LoadSession, requestVars, configVars, ErrorInv, AnswerInv, ResponseTypes, RequestTypes,
       Chain
<1>4. CASE LoadSessionFails
  <2>1. pc' = "render"
    BY <1>4 DEF LoadSessionFails, Through, Refuse
  <2>2. pc = "session" /\ UNCHANGED <<caller, custom, wroteHeader>>
    BY <1>4 DEF LoadSessionFails, chainVars, requestVars, configVars, responseVars
  <2> QED
    BY <2>1, <2>2, ErrorAside DEF Chain
<1>5. CASE CheckCaller
  <2>1. (pc' = "csrf" /\ failure' = NoError) \/ pc' = "render"
    BY <1>5, ChainMeans DEF CheckCaller
  <2>2. pc = "auth" /\ UNCHANGED <<caller, custom, wroteHeader>>
    BY <1>5 DEF CheckCaller, chainVars, requestVars, configVars, responseVars
  <2> QED
    BY <2>1, <2>2, ErrorAside DEF Chain
<1>6. CASE CheckToken
  <2>1. (pc' = "dispatch" /\ failure' = NoError) \/ pc' = "render"
    BY <1>6, ChainMeans DEF CheckToken
  <2>2. pc = "csrf" /\ UNCHANGED <<caller, custom, wroteHeader>>
    BY <1>6 DEF CheckToken, chainVars, requestVars, configVars, responseVars
  <2> QED
    BY <2>1, <2>2, ErrorAside DEF Chain
<1>7. CASE FindRoute
  <2>1. (pc' = "guard" /\ failure' = NoError) \/ pc' = "render"
    BY <1>7, ChainMeans DEF FindRoute
  <2>2. pc = "dispatch" /\ UNCHANGED <<caller, custom, wroteHeader>>
    BY <1>7 DEF FindRoute, chainVars, requestVars, configVars, responseVars
  <2> QED
    BY <2>1, <2>2, ErrorAside DEF Chain
<1>8. CASE CheckGrants
  <2>1. (pc' = "entered" /\ failure' = NoError) \/ pc' = "render"
    BY <1>8, ChainMeans DEF CheckGrants
  <2>2. pc = "guard" /\ UNCHANGED <<caller, custom, wroteHeader>>
    BY <1>8 DEF CheckGrants, chainVars, requestVars, configVars, responseVars
  <2> QED
    BY <2>1, <2>2, ErrorAside DEF Chain
<1>9. CASE BindRequest
  <2>1. pc = "entered" /\ UNCHANGED <<caller, custom, wroteHeader>>
    BY <1>9 DEF BindRequest, configVars, responseVars
  <2> QED
    BY <1>9, <2>1, BindMeans, ErrorAside DEF Chain
<1>10. CASE Enter
  BY <1>10
     DEF Enter, configVars, responseVars, ErrorInv, AnswerInv, ResponseTypes, RequestTypes,
       Chain
<1>11. ASSUME NEW code \in {101, 103, 200, 404}, WriteHeader(code) PROVE ErrorInv'
  BY <1>11
     DEF WriteHeader, handlerVars, requestVars, configVars, responseVars, BeginCommit, ErrorInv,
       AnswerInv, ResponseTypes, RequestTypes, Chain
<1>12. ASSUME NEW hook \in {"plain", "writes", "panics"}, BeforeCommit(hook) PROVE ErrorInv'
  BY <1>12
     DEF BeforeCommit, handlerVars, requestVars, configVars, ErrorInv, AnswerInv, ResponseTypes,
       RequestTypes, Chain
<1>13. ASSUME NEW hook \in {"plain", "panics"}, AfterResponse(hook) PROVE ErrorInv'
  BY <1>13
     DEF AfterResponse, handlerVars, requestVars, configVars, responseVars, ErrorInv, AnswerInv,
       ResponseTypes, RequestTypes, Chain
<1>14. CASE Hijack
  BY <1>14
     DEF Hijack, handlerVars, requestVars, configVars, ErrorInv, AnswerInv, ResponseTypes,
       RequestTypes, Chain
<1>15. CASE ChangeSession
  BY <1>15
     DEF ChangeSession, handlerVars, requestVars, configVars, responseVars, ErrorInv, AnswerInv,
       ResponseTypes, RequestTypes, Chain
<1>16. CASE HandlerPanics
  BY <1>16
     DEF HandlerPanics, handlerVars, requestVars, configVars, Escape, ErrorInv, AnswerInv,
       ResponseTypes, RequestTypes, Chain
<1>17. ASSUME NEW err \in Errors \union {NoError}, HandlerReturns(err) PROVE ErrorInv'
  BY <1>17
     DEF HandlerReturns, handlerVars, requestVars, configVars, responseVars, ErrorInv,
       AnswerInv, ResponseTypes, RequestTypes, Chain
<1>18. CASE RunHook
  BY <1>18
     DEF RunHook, requestVars, configVars, Panic, Escape, ErrorInv, AnswerInv, ResponseTypes,
       RequestTypes, Chain
<1>19. CASE EndCommit
  BY <1>19
     DEF EndCommit, requestVars, configVars, ErrorInv, AnswerInv, ResponseTypes, RequestTypes,
       Chain
<1>20. CASE HelperChecks
  BY <1>20
     DEF HelperChecks, handlerVars, requestVars, configVars, responseVars, ErrorInv, AnswerInv,
       ResponseTypes, RequestTypes, Chain
<1>21. CASE HelperLocks
  BY <1>21
     DEF HelperLocks, handlerVars, requestVars, configVars, responseVars, ErrorInv, AnswerInv,
       ResponseTypes, RequestTypes, Chain
<1>22. CASE HelperStores
  BY <1>22
     DEF HelperStores, handlerVars, requestVars, configVars, responseVars, ErrorInv, AnswerInv,
       ResponseTypes, RequestTypes, Chain
<1>23. CASE RenderError
  <2>1. MapError(failure) \in 400..599
    BY MapErrorIsError DEF ResponseTypes
  <2>2. MapError(failure) >= 400
    BY <2>1
  <2> QED
    BY <1>23, <2>2 DEF RenderError, handlerVars, requestVars, configVars, responseVars, BeginCommit,
       ErrorInv, AnswerInv, ResponseTypes, Chain
<1>24. CASE RenderCustom
  BY <1>24
     DEF RenderCustom, handlerVars, requestVars, configVars, responseVars, BeginCommit,
       ErrorInv, AnswerInv, ResponseTypes, RequestTypes, Chain
<1>25. CASE Fallback
  BY <1>25
     DEF Fallback, handlerVars, requestVars, configVars, responseVars, BeginCommit, ErrorInv,
       AnswerInv, ResponseTypes, RequestTypes, Chain
<1>26. CASE Finish
  BY <1>26
     DEF Finish, handlerVars, requestVars, configVars, responseVars, BeginCommit, ErrorInv,
       AnswerInv, ResponseTypes, RequestTypes, Chain
<1>27. CASE RunAfterHook
  BY <1>27
     DEF RunAfterHook, handlerVars, requestVars, configVars, responseVars, ErrorInv, AnswerInv,
       ResponseTypes, RequestTypes, Chain
<1>28. CASE Done
  BY <1>28
     DEF Done, configVars, responseVars, ErrorInv, AnswerInv, ResponseTypes, RequestTypes, Chain
<1>29. CASE UNCHANGED vars
  BY <1>29
     DEF vars, requestVars, configVars, responseVars, ErrorInv, AnswerInv, ResponseTypes,
       RequestTypes, Chain
<1> QED
  BY <1>1, <1>2, <1>3, <1>4, <1>5, <1>6, <1>7, <1>8, <1>9, <1>10, <1>11, <1>12, <1>13, <1>14,
       <1>15, <1>16, <1>17, <1>18, <1>19, <1>20, <1>21, <1>22, <1>23, <1>24, <1>25, <1>26,
       <1>27, <1>28, <1>29 DEF Next, Rest

\* The cookie keeps up with the session.
LEMMA CookieStep ==
    ASSUME ResponseTypes, SessionTypes, AnswerInv, CookieInv, [Next]_vars
    PROVE  CookieInv'
<1>1. CASE CountActive
  BY <1>1
     DEF CountActive, responseVars, wireVars, sessionVars, historyVars, CookieInv, Loaded,
       AnswerInv, ResponseTypes, SessionTypes, Chain
<1>2. CASE CheckOrigin
  BY <1>2
     DEF CheckOrigin, responseVars, wireVars, sessionVars, Through, BeginCommit, CookieInv,
       Loaded, AnswerInv, ResponseTypes, SessionTypes, Chain
<1>3. CASE LoadSession
  <2>1. /\ pc = "session" /\ pc' = "auth" /\ hooks' = Append(hooks, "session")
        /\ UNCHANGED <<wroteHeader, header, wire, sent, late, misused>>
    BY <1>3 DEF LoadSession, wireVars, historyVars
  <2>2. Has(hooks', "session")
    BY <2>1, AppendHas DEF ResponseTypes
  <2> QED
    BY <2>1, <2>2 DEF CookieInv, AnswerInv, Chain
<1>4. CASE LoadSessionFails
  <2>1. pc = "session" /\ pc' = "render"
    BY <1>4 DEF LoadSessionFails, Through, Refuse
  <2>2. UNCHANGED <<wroteHeader, hooks, header, wire, sent, pending, helper, late, misused>>
    BY <1>4 DEF LoadSessionFails, chainVars, responseVars, wireVars, sessionVars, historyVars
  <2> QED
    BY <2>1, <2>2 DEF CookieInv, Loaded
<1>5. CASE CheckCaller
  BY <1>5
     DEF CheckCaller, chainVars, responseVars, wireVars, sessionVars, historyVars, Through,
       CookieInv, Loaded, AnswerInv, ResponseTypes, SessionTypes, Chain
<1>6. CASE CheckToken
  BY <1>6
     DEF CheckToken, responseVars, wireVars, sessionVars, historyVars, Through, CookieInv,
       Loaded, AnswerInv, ResponseTypes, SessionTypes, Chain
<1>7. CASE FindRoute
  BY <1>7
     DEF FindRoute, chainVars, responseVars, wireVars, sessionVars, historyVars, Through,
       CookieInv, Loaded, AnswerInv, ResponseTypes, SessionTypes, Chain
<1>8. CASE CheckGrants
  BY <1>8
     DEF CheckGrants, chainVars, responseVars, wireVars, sessionVars, historyVars, Through,
       CookieInv, Loaded, AnswerInv, ResponseTypes, SessionTypes, Chain
<1>9. CASE BindRequest
  BY <1>9
     DEF BindRequest, responseVars, wireVars, sessionVars, historyVars, Through, CookieInv,
       Loaded, AnswerInv, ResponseTypes, SessionTypes, Chain
<1>10. CASE Enter
  BY <1>10
     DEF Enter, responseVars, wireVars, historyVars, CookieInv, Loaded, AnswerInv,
       ResponseTypes, SessionTypes, Chain
<1>11. ASSUME NEW code \in {101, 103, 200, 404}, WriteHeader(code) PROVE CookieInv'
  BY <1>11
     DEF WriteHeader, responseVars, wireVars, sessionVars, BeginCommit, CookieInv, Loaded,
       AnswerInv, ResponseTypes, SessionTypes, Chain
<1>12. ASSUME NEW hook \in {"plain", "writes", "panics"}, BeforeCommit(hook) PROVE CookieInv'
  <2>1. /\ pc = "handler" /\ hooks' = Append(hooks, hook)
        /\ UNCHANGED <<pc, wroteHeader, header, wire, sent, pending, helper, late, misused>>
    BY <1>12 DEF BeforeCommit, wireVars, sessionVars, historyVars
  <2>2. Has(hooks, "session") => Has(hooks', "session")
    BY <2>1, AppendHas DEF ResponseTypes
  <2> QED
    BY <2>1, <2>2 DEF CookieInv, Loaded
<1>13. ASSUME NEW hook \in {"plain", "panics"}, AfterResponse(hook) PROVE CookieInv'
  BY <1>13
     DEF AfterResponse, responseVars, wireVars, sessionVars, historyVars, CookieInv, Loaded,
       AnswerInv, ResponseTypes, SessionTypes, Chain
<1>14. CASE Hijack
  BY <1>14
     DEF Hijack, wireVars, sessionVars, historyVars, CookieInv, Loaded, AnswerInv,
       ResponseTypes, SessionTypes, Chain
<1>15. CASE ChangeSession
  BY <1>15
     DEF ChangeSession, responseVars, wireVars, Store, CookieInv, Loaded, AnswerInv,
       ResponseTypes, SessionTypes, Chain
<1>16. CASE HandlerPanics
  BY <1>16
     DEF HandlerPanics, wireVars, sessionVars, historyVars, Escape, CookieInv, Loaded,
       AnswerInv, ResponseTypes, SessionTypes, Chain
<1>17. ASSUME NEW err \in Errors \union {NoError}, HandlerReturns(err) PROVE CookieInv'
  BY <1>17
     DEF HandlerReturns, responseVars, wireVars, sessionVars, historyVars, CookieInv, Loaded,
       AnswerInv, ResponseTypes, SessionTypes, Chain
<1>18. CASE RunHook
  <2>1. pc = "commit" /\ hooks # <<>> /\ UNCHANGED <<wroteHeader, pending, helper, late>>
    BY <1>18 DEF RunHook, sessionVars
  <2>2. SUFFICES ASSUME misused' = {} PROVE CookieInv'
    BY DEF CookieInv
  <2>3. UNCHANGED <<pc, wire, sent, misused>> /\ hooks' = Tail(hooks)
        /\ ((Head(hooks) = "session" /\ SessionHook) \/ (Head(hooks) = "plain" /\ header' = header))
    BY <1>18, <2>2 DEF RunHook, wireVars
  <2>4. Has(hooks, "session") /\ Head(hooks) # "session" => Has(hooks', "session")
    BY <2>1, <2>3, TailHas DEF ResponseTypes
  <2>5. CASE Head(hooks) = "session"
    BY <2>1, <2>3, <2>5 DEF SessionHook, CookieInv
  <2>6. CASE Head(hooks) = "plain"
    BY <2>1, <2>3, <2>4, <2>6 DEF CookieInv
  <2> QED
    BY <2>3, <2>5, <2>6
<1>19. CASE EndCommit
  <2>1. /\ pc = "commit" /\ hooks = <<>> /\ wroteHeader' = TRUE /\ Send(next)
        /\ UNCHANGED <<header, late, misused>>
    BY <1>19 DEF EndCommit, historyVars
  <2>2. pc' # "commit"
    BY <1>19 DEF EndCommit, ResponseTypes
  <2>3. ~Has(hooks, "session")
    BY <2>1 DEF Has
  <2>4. misused = {} => header \in late /\ (wire # 0 => sent \in late)
    BY <2>1, <2>3 DEF CookieInv
  <2>5. misused' = {} => (wire' # 0 => sent' \in late')
    BY <2>1, <2>4 DEF Send
  <2> QED
    BY <2>1, <2>2, <2>5 DEF CookieInv
<1>20. CASE HelperChecks
  BY <1>20
     DEF HelperChecks, responseVars, wireVars, historyVars, CookieInv, Loaded, AnswerInv,
       ResponseTypes, SessionTypes, Chain
<1>21. CASE HelperLocks
  BY <1>21
     DEF HelperLocks, responseVars, wireVars, historyVars, CookieInv, Loaded, AnswerInv,
       ResponseTypes, SessionTypes, Chain
<1>22. CASE HelperStores
  BY <1>22
     DEF HelperStores, responseVars, wireVars, Store, CookieInv, Loaded, AnswerInv,
       ResponseTypes, SessionTypes, Chain
<1>23. CASE RenderError
  BY <1>23
     DEF RenderError, responseVars, wireVars, sessionVars, BeginCommit, CookieInv, Loaded,
       AnswerInv, ResponseTypes, SessionTypes, Chain
<1>24. CASE RenderCustom
  BY <1>24
     DEF RenderCustom, responseVars, wireVars, sessionVars, BeginCommit, CookieInv, Loaded,
       AnswerInv, ResponseTypes, SessionTypes, Chain
<1>25. CASE Fallback
  BY <1>25
     DEF Fallback, responseVars, sessionVars, BeginCommit, CookieInv, Loaded, AnswerInv,
       ResponseTypes, SessionTypes, Chain
<1>26. CASE Finish
  BY <1>26
     DEF Finish, responseVars, wireVars, sessionVars, BeginCommit, CookieInv, Loaded, AnswerInv,
       ResponseTypes, SessionTypes, Chain
<1>27. CASE RunAfterHook
  BY <1>27
     DEF RunAfterHook, responseVars, wireVars, sessionVars, historyVars, CookieInv, Loaded,
       AnswerInv, ResponseTypes, SessionTypes, Chain
<1>28. CASE Done
  BY <1>28
     DEF Done, responseVars, wireVars, sessionVars, historyVars, CookieInv, Loaded, AnswerInv,
       ResponseTypes, SessionTypes, Chain
<1>29. CASE UNCHANGED vars
  BY <1>29
     DEF vars, responseVars, wireVars, sessionVars, historyVars, CookieInv, Loaded, AnswerInv,
       ResponseTypes, SessionTypes, Chain
<1> QED
  BY <1>1, <1>2, <1>3, <1>4, <1>5, <1>6, <1>7, <1>8, <1>9, <1>10, <1>11, <1>12, <1>13, <1>14,
       <1>15, <1>16, <1>17, <1>18, <1>19, <1>20, <1>21, <1>22, <1>23, <1>24, <1>25, <1>26,
       <1>27, <1>28, <1>29 DEF Next, Rest

\* Nothing gets past a middleware that refuses it.
LEMMA AdmitStep ==
    ASSUME ResponseTypes, AdmitInv, [Next]_vars
    PROVE  AdmitInv'
<1>1. CASE CountActive
  BY <1>1
     DEF CountActive, requestVars, AdmitInv, Chain
<1>2. CASE CheckOrigin
  <2>1. pc = "cors" /\ request' = request
    BY <1>2 DEF CheckOrigin
  <2>2. (Cors(request) = Pass /\ pc' = "session") \/ pc' \in {"render", "commit"}
    BY <1>2, ChainMeans DEF CheckOrigin, BeginCommit
  <2> QED
    BY <2>1, <2>2 DEF AdmitInv, Chain
<1>3. CASE LoadSession
  BY <1>3
     DEF LoadSession, requestVars, AdmitInv, Chain
<1>4. CASE LoadSessionFails
  BY <1>4
     DEF LoadSessionFails, chainVars, requestVars, Through, AdmitInv, Chain
<1>5. CASE CheckCaller
  BY <1>5
     DEF CheckCaller, chainVars, requestVars, Through, AdmitInv, Chain
<1>6. CASE CheckToken
  <2>1. (Csrf(request) = Pass /\ pc' = "dispatch") \/ pc' = "render"
    BY <1>6, ChainMeans DEF CheckToken
  <2>2. pc = "csrf" /\ request' = request
    BY <1>6 DEF CheckToken, chainVars
  <2> QED
    BY <2>1, <2>2 DEF AdmitInv, Chain
<1>7. CASE FindRoute
  <2>1. (Dispatch(request) = Pass /\ pc' = "guard") \/ pc' = "render"
    BY <1>7, ChainMeans DEF FindRoute
  <2>2. pc = "dispatch" /\ request' = request
    BY <1>7 DEF FindRoute, chainVars
  <2> QED
    BY <2>1, <2>2 DEF AdmitInv, Chain
<1>8. CASE CheckGrants
  <2>1. (Require(request) = Pass /\ pc' = "entered") \/ pc' = "render"
    BY <1>8, ChainMeans DEF CheckGrants
  <2>2. pc = "guard" /\ request' = request
    BY <1>8 DEF CheckGrants, chainVars
  <2> QED
    BY <2>1, <2>2 DEF AdmitInv, Chain
<1>9. CASE BindRequest
  <2>1. pc = "entered" /\ request' = request
    BY <1>9 DEF BindRequest
  <2> QED
    BY <1>9, <2>1, BindMeans DEF AdmitInv, Chain
<1>10. CASE Enter
  BY <1>10
     DEF Enter, AdmitInv, Chain
<1>11. ASSUME NEW code \in {101, 103, 200, 404}, WriteHeader(code) PROVE AdmitInv'
  BY <1>11
     DEF WriteHeader, handlerVars, requestVars, BeginCommit, AdmitInv, Chain
<1>12. ASSUME NEW hook \in {"plain", "writes", "panics"}, BeforeCommit(hook) PROVE AdmitInv'
  BY <1>12
     DEF BeforeCommit, handlerVars, requestVars, AdmitInv, Chain
<1>13. ASSUME NEW hook \in {"plain", "panics"}, AfterResponse(hook) PROVE AdmitInv'
  BY <1>13
     DEF AfterResponse, handlerVars, requestVars, AdmitInv, Chain
<1>14. CASE Hijack
  BY <1>14
     DEF Hijack, handlerVars, requestVars, AdmitInv, Chain
<1>15. CASE ChangeSession
  BY <1>15
     DEF ChangeSession, handlerVars, requestVars, AdmitInv, Chain
<1>16. CASE HandlerPanics
  BY <1>16
     DEF HandlerPanics, handlerVars, requestVars, Escape, AdmitInv, Chain
<1>17. ASSUME NEW err \in Errors \union {NoError}, HandlerReturns(err) PROVE AdmitInv'
  BY <1>17
     DEF HandlerReturns, handlerVars, requestVars, AdmitInv, Chain
<1>18. CASE RunHook
  BY <1>18
     DEF RunHook, requestVars, Panic, Escape, AdmitInv, Chain
<1>19. CASE EndCommit
  <2>1. pc' \in {"handler", "finish", "after"}
    BY <1>19 DEF EndCommit, ResponseTypes
  <2> QED
    BY <2>1 DEF AdmitInv, Chain
<1>20. CASE HelperChecks
  BY <1>20
     DEF HelperChecks, handlerVars, requestVars, AdmitInv, Chain
<1>21. CASE HelperLocks
  BY <1>21
     DEF HelperLocks, handlerVars, requestVars, AdmitInv, Chain
<1>22. CASE HelperStores
  BY <1>22
     DEF HelperStores, handlerVars, requestVars, AdmitInv, Chain
<1>23. CASE RenderError
  BY <1>23
     DEF RenderError, handlerVars, requestVars, BeginCommit, AdmitInv, Chain
<1>24. CASE RenderCustom
  BY <1>24
     DEF RenderCustom, handlerVars, requestVars, BeginCommit, AdmitInv, Chain
<1>25. CASE Fallback
  BY <1>25
     DEF Fallback, handlerVars, requestVars, BeginCommit, AdmitInv, Chain
<1>26. CASE Finish
  BY <1>26
     DEF Finish, handlerVars, requestVars, BeginCommit, AdmitInv, Chain
<1>27. CASE RunAfterHook
  BY <1>27
     DEF RunAfterHook, handlerVars, requestVars, AdmitInv, Chain
<1>28. CASE Done
  BY <1>28
     DEF Done, AdmitInv, Chain
<1>29. CASE UNCHANGED vars
  BY <1>29
     DEF vars, requestVars, AdmitInv, Chain
<1> QED
  BY <1>1, <1>2, <1>3, <1>4, <1>5, <1>6, <1>7, <1>8, <1>9, <1>10, <1>11, <1>12, <1>13, <1>14,
       <1>15, <1>16, <1>17, <1>18, <1>19, <1>20, <1>21, <1>22, <1>23, <1>24, <1>25, <1>26,
       <1>27, <1>28, <1>29 DEF Next, Rest

\* Every step of a request keeps the invariant.
LEMMA ServingNextInv == ServingInv /\ [Next]_vars => ServingInv'
<1> SUFFICES ASSUME ServingInv, [Next]_vars PROVE ServingInv'
  OBVIOUS
<1>1. /\ ResponseTypes /\ SessionTypes /\ MetricTypes /\ RequestTypes /\ pc \in Places
      /\ CountInv /\ AnswerInv /\ ErrorInv /\ CookieInv /\ AdmitInv
  BY TypeSplit DEF ServingInv
<1>2. ResponseTypes' /\ SessionTypes' /\ RequestTypes'
  BY <1>1, ResponseTypesStep, SessionTypesStep, RequestTypesStep
<1>3. MetricTypes'
  BY <1>1, MetricTypesStep DEF ResponseTypes
<1>4. pc' \in Places
  BY <1>1, PlacesStep DEF ResponseTypes
<1>5. TypeOK'
  <2>1. TypeOK' <=> (ResponseTypes /\ SessionTypes /\ MetricTypes /\ RequestTypes /\ pc \in Places)'
    BY TypeSplit, PTL
  <2> QED
    BY <1>2, <1>3, <1>4, <2>1
<1>6. CountInv' /\ AnswerInv' /\ ErrorInv' /\ CookieInv' /\ AdmitInv'
  BY <1>1, CountStep, AnswerStep, ErrorStep, CookieStep, AdmitStep
<1> QED
  BY <1>5, <1>6 DEF ServingInv

\* The invariant gives the properties.
LEMMA RecordedFromInv == ServingInv => RecordedTruly
<1> SUFFICES ASSUME ServingInv, pc = "done" PROVE
        /\ active = 0 /\ Len(observed) = 1 /\ ~stored
        /\ wire = 0 => hijacked \/ observed = <<500>>
        /\ wire # 0 /\ "written" \notin misused =>
             /\ observed = <<wire>>
             /\ failure # NoError /\ ~custom /\ caller # "handler" => wire >= 400
  BY DEF RecordedTruly
<1>1. TypeOK /\ CountInv /\ AnswerInv /\ ErrorInv
  BY DEF ServingInv
<1>2. active = 0 /\ observed = <<Status>> /\ ~stored
  <2>1. after = <<>> /\ ~stored /\ (Waiting \/ Counted)
    BY <1>1 DEF CountInv
  <2>2. ~HasOne(after, "metrics")
    BY <2>1 DEF HasOne
  <2> QED
    BY <2>1, <2>2 DEF Waiting, Counted
<1>3. Len(observed) = 1
  BY <1>2
<1>4. ASSUME wire = 0 PROVE hijacked \/ observed = <<500>>
  BY <1>1, <1>2, <1>4 DEF AnswerInv, Status
<1>5. ASSUME wire # 0, "written" \notin misused
      PROVE  /\ observed = <<wire>>
             /\ failure # NoError /\ ~custom /\ caller # "handler" => wire >= 400
  <2>1. wroteHeader /\ status = wire
    BY <1>1, <1>5 DEF AnswerInv
  <2> QED
    BY <1>1, <1>2, <1>5, <2>1 DEF ErrorInv, Status
<1> QED
  BY <1>2, <1>3, <1>4, <1>5

\* The invariant says that the session was sent.
LEMMA SessionFromInv == ServingInv => SessionIsSent
BY DEF ServingInv, CookieInv, SessionIsSent

\* One request through serveHTTP keeps its types; the gauge of HTTPMetrics never goes below
\* zero, and every error on the way is one mapHTTPError knows.
THEOREM ServingTypeCorrect == Spec => []TypeOK
<1>1. ServingInv => TypeOK
  BY DEF ServingInv
<1> QED
  BY <1>1, ServingInitInv, ServingNextInv, PTL DEF Spec

\* Whatever the handler and its hooks do, and wherever they panic, serveHTTP, the error
\* renderer and HTTPMetrics record the end of the request once, and as net/http saw it.
THEOREM EndIsRecorded == Spec => []RecordedTruly
BY ServingInitInv, ServingNextInv, RecordedFromInv, PTL DEF Spec

\* session.beforeCommit sends what the session was when the commit began or later, on every
\* path to a response, whatever a goroutine of the handler changes at the same time.
THEOREM SessionChangesAreSent == Spec => []SessionIsSent
BY ServingInitInv, ServingNextInv, SessionFromInv, PTL DEF Spec

\* No request reaches a handler past CORS, the CSRF check, the router or auth.Require, for
\* any configuration of them; and Bind gives every field the value that ranks highest.
THEOREM HandlersAreGuarded == Spec => []OnlyAdmitted
<1>1. ServingInv => OnlyAdmitted
  BY AdmittedFromChain DEF ServingInv
<1> QED
  BY <1>1, ServingInitInv, ServingNextInv, PTL DEF Spec

================================================================================
