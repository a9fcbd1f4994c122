------------------------------ MODULE RateLimiter ------------------------------
(***************************************************************************)
(* The token buckets of middleware/rate_limit.go and the address that they *)
(* are keyed by (client_ip.go).  Requests run concurrently; each reads the *)
(* clock before it takes the lock, so that a bucket may be given an        *)
(* earlier time than it has.                                               *)
(*                                                                         *)
(* Tokens are counted in parts: a token is Window parts, and a unit of     *)
(* time brings Rate of them, which is exact where the code rounds a        *)
(* float64.  An address is [net, host, v6]; addresses of one IPv6 network  *)
(* share a key.                                                            *)
(***************************************************************************)
EXTENDS Integers, Sequences, FiniteSets, FiniteSetsExt

CONSTANTS
    Clients,   \* slots for concurrent requests
    Arrivals,  \* the requests: [peer, forwarded, xff, real], see ForwardedChain
    Trusted,   \* the networks of config.trustedProxies
    Rate, Window, Burst, MaxKeys,  \* RateLimitConfig; Rate is its Requests
    MaxTime,   \* bound: the clock
    MaxArrivals \* bound: the number of requests

ASSUME ConfigAssumption ==
    /\ {Rate, Window, Burst, MaxKeys} \subseteq Nat \ {0}
    /\ Burst <= Rate
    /\ MaxTime \in Nat /\ MaxArrivals \in Nat

--------------------------------------------------------------------------------
\* Context.ClientIP.

Bad == [net |-> "bad", host |-> 0, v6 |-> FALSE]  \* what parseRequestAddress refuses

IsTrustedProxy(address) == address.net \in Trusted

\* Forwarded before X-Forwarded-For before X-Real-IP; <<>> is a header that is not there.
ForwardedChain(r) ==
    IF r.forwarded # <<>> THEN r.forwarded ELSE IF r.xff # <<>> THEN r.xff ELSE r.real

\* The walk from the peer outwards, to the first address that is not a trusted proxy; the
\* headers are not looked at when the peer is none.  One that does not parse is an error.
ClientIP(r) ==
    LET chain == ForwardedChain(r)
        walk[i \in 0..Len(chain)] ==
            IF i = 0 THEN r.peer
            ELSE IF IsTrustedProxy(walk[i - 1]) THEN chain[Len(chain) - i + 1] ELSE walk[i - 1]
    IN  IF r.peer = Bad \/ (IsTrustedProxy(r.peer) /\ \E i \in DOMAIN chain : chain[i] = Bad) THEN Bad
        ELSE walk[IF IsTrustedProxy(r.peer) THEN Len(chain) ELSE 0]

\* The default key: an IPv4 address, or the /64 of an IPv6 address.
KeyOf(address) == IF address.v6 THEN <<address.net>> ELSE <<address.net, address.host>>

Addresses == UNION {{r.peer} \union UNION {{c[i] : i \in DOMAIN c} :
                                            c \in {r.forwarded, r.xff, r.real}} : r \in Arrivals}
Keys == {KeyOf(a) : a \in Addresses}

ASSUME ArrivalsAssumption ==
    /\ Arrivals # {}
    /\ \A r \in Arrivals : {r.forwarded, r.xff, r.real} \subseteq Seq(Addresses)

--------------------------------------------------------------------------------
Overflow == <<>>               \* names the overflow bucket
Accounts == Keys \union {Overflow}
Never == 0                     \* the zero time; the clock starts at 1
NoBucket == [tokens |-> 0, updated |-> Never, seen |-> Never]

VARIABLES
    clock,        \* the time
    buckets,      \* limiter.buckets; Overflow holds limiter.overflow; NoBucket: none
    nextCleanup,  \* limiter.nextCleanup
    turn,         \* each slot: "away", "clock", "limit"
    arrived,      \* how many requests have come
    incoming, now, \* the request in a slot and the time it has read
    granted,      \* history: how many requests each account has let pass
    first,        \* history: the time of an account's first request
    latest,       \* history: the time an account was last given, or forgotten at
    rewound       \* history: by how much that time was set back, in all

limiterVars == <<clock, buckets, nextCleanup, turn, arrived, incoming, now, granted, first, latest, rewound>>
accountVars == <<granted, first, latest, rewound>>

LimiterInit ==
    /\ clock = 1
    /\ buckets = [a \in Accounts |-> NoBucket]
    /\ nextCleanup = Never
    /\ turn = [c \in Clients |-> "away"]
    /\ arrived = 0
    /\ incoming \in {[c \in Clients |-> r] : r \in {CHOOSE r \in Arrivals : TRUE}}
    /\ now = [c \in Clients |-> Never]
    /\ granted = [a \in Accounts |-> 0]
    /\ first = [a \in Accounts |-> Never]
    /\ latest = [a \in Accounts |-> Never]
    /\ rewound = [a \in Accounts |-> 0]

TimePasses ==
    /\ clock < MaxTime
    /\ clock' = clock + 1
    /\ UNCHANGED <<buckets, nextCleanup, turn, arrived, incoming, now, accountVars>>

\* A request comes to the middleware; one without a valid address is refused.
Arrive(c, r) ==
    /\ turn[c] = "away"
    /\ arrived < MaxArrivals
    /\ arrived' = arrived + 1
    /\ incoming' = [incoming EXCEPT ![c] = r]
    /\ turn' = [turn EXCEPT ![c] = IF ClientIP(r) = Bad THEN "away" ELSE "clock"]
    /\ UNCHANGED <<clock, buckets, nextCleanup, now, accountVars>>

ReadClock(c) ==
    /\ turn[c] = "clock"
    /\ now' = [now EXCEPT ![c] = clock]
    /\ turn' = [turn EXCEPT ![c] = "limit"]
    /\ UNCHANGED <<clock, buckets, nextCleanup, arrived, incoming, accountVars>>

\* Faulty: a bucket is forgotten as soon as it has been idle for some time.
StaleEarly(bucket, t) == t - bucket.seen > 0

\* A bucket nobody was admitted from for a whole window.
Stale(bucket, t) == t - bucket.seen >= Window

\* cleanup, once in a window, and never of the overflow bucket.
Forgotten(t) ==
    IF nextCleanup = Never \/ t < nextCleanup THEN {}
    ELSE {k \in Keys : buckets[k] # NoBucket /\ Stale(buckets[k], t)}

NextCleanup(t) == IF nextCleanup = Never \/ t >= nextCleanup THEN t + Window ELSE nextCleanup

\* The bucket at time t, before the request is paid for; an earlier time adds nothing.
Refilled(bucket, t) ==
    IF bucket.updated = Never THEN [tokens |-> Burst * Window, updated |-> t, seen |-> Never]
    ELSE [bucket EXCEPT !.tokens = IF t > bucket.updated
                                   THEN Min({Burst * Window, @ + (t - bucket.updated) * Rate}) ELSE @,
                        !.updated = t]

Pays(bucket, t) ==
    IF bucket.tokens >= Window THEN [bucket EXCEPT !.tokens = @ - Window, !.seen = t] ELSE bucket

\* limiter.allow: at the limit of keys a new one shares the overflow bucket.
Allow(c) ==
    LET t       == now[c]
        key     == KeyOf(ClientIP(incoming[c]))
        gone    == Forgotten(t)
        kept    == [a \in Accounts |-> IF a \in gone THEN NoBucket ELSE buckets[a]]
        full    == Cardinality({k \in Keys : kept[k] # NoBucket}) >= MaxKeys
        account == IF kept[key] = NoBucket /\ full THEN Overflow ELSE key
        bucket  == Refilled(kept[account], t)
        allowed == bucket.tokens >= Window
        before  == IF account \in gone THEN t ELSE latest[account]
    IN  /\ turn[c] = "limit"
        /\ turn' = [turn EXCEPT ![c] = "away"]
        /\ buckets' = [kept EXCEPT ![account] = Pays(bucket, t)]
        /\ nextCleanup' = NextCleanup(t)
        /\ granted' = [granted EXCEPT ![account] = IF allowed THEN @ + 1 ELSE @]
        /\ first' = [first EXCEPT ![account] = IF @ = Never THEN t ELSE @]
        /\ rewound' = [rewound EXCEPT ![account] = @ + (IF t < before THEN before - t ELSE 0)]
        /\ latest' = [a \in Accounts |-> IF a = account \/ a \in gone THEN t ELSE latest[a]]
        /\ UNCHANGED <<clock, arrived, incoming, now>>

Limit(c) == ReadClock(c) \/ Allow(c) \/ \E r \in Arrivals : Arrive(c, r)

\* The limiter by itself: its requests come at any time, those of an application once it
\* is built (module Application).
LimiterNext == TimePasses \/ \E c \in Clients : Limit(c)
LimiterSpec == LimiterInit /\ [][LimiterNext]_limiterVars

--------------------------------------------------------------------------------
\* Properties.

\* Type correctness: the times that are read and kept are times of the clock, and a bucket
\* holds no more than its burst.
LimiterTypeOK ==
    /\ clock \in Nat \ {0}
    /\ buckets \in [Accounts -> [tokens: 0..(Burst * Window), updated: Nat, seen: Nat]]
    /\ nextCleanup \in Nat
    /\ turn \in [Clients -> {"away", "clock", "limit"}]
    /\ arrived \in Nat
    /\ incoming \in [Clients -> Arrivals]
    /\ now \in [Clients -> 0..clock]
    /\ granted \in [Accounts -> Nat]
    /\ first \in [Accounts -> Nat]
    /\ latest \in [Accounts -> 0..clock]
    /\ rewound \in [Accounts -> Nat]

\* The address a request is to be charged to: the outermost one that a trusted proxy
\* vouches for, which is the last untrusted one of the chain with the peer at its end.
Charged(r) ==
    LET all == (IF IsTrustedProxy(r.peer) THEN ForwardedChain(r) ELSE <<>>) \o <<r.peer>>
        untrusted == {i \in DOMAIN all : ~IsTrustedProxy(all[i])}
    IN  all[IF untrusted = {} THEN 1 ELSE Max(untrusted)]

\* No bucket lets more requests pass than its burst and the time since its first request
\* allow, and the time that late requests have set it back; being forgotten and made anew
\* gives nothing away.  There are never more than MaxKeys buckets, and the bucket is that
\* of the right address.
AdmittedWithinRate ==
    /\ \A a \in Accounts :
         granted[a] > 0 =>
             granted[a] * Window <= Burst * Window + Rate * (latest[a] - first[a] + rewound[a])
    /\ Cardinality({k \in Keys : buckets[k] # NoBucket}) <= MaxKeys
    /\ \A r \in Arrivals : ClientIP(r) # Bad => ClientIP(r) = Charged(r)
================================================================================
