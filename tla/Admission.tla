-------------------------------- MODULE Admission --------------------------------
(***************************************************************************)
(* The handler of /ws in one websocket-gateway, up to HandleConnection: the *)
(* token bucket of checkRateLimit, whose fields are read and written one at *)
(* a time by concurrent handlers, the JWT, the revocation list in Redis and *)
(* the upgrade.  What a served connection does is GatewayClients.           *)
(***************************************************************************)
EXTENDS Integers

CONSTANTS
    Handlers,      \* requests, each in its goroutine
    IPs, IpOf,     \* remote address of each, without the port
    Tokens, TokenOf,  \* the JWTs presented
    Valid,         \* those authenticateJWT accepts
    Named,         \* those with a jti claim
    MaxTokens,     \* MaxConnectionsPerIP
    RefillNs,      \* time for one token of a bucket
    Start,         \* the clock at the start: nanoseconds since 1970
    MaxTime,       \* bound: the latest time
    MaxUnanswered      \* bound: failing calls of Redis

ASSUME AdmissionConstants ==
    /\ IpOf \in [Handlers -> IPs] /\ TokenOf \in [Handlers -> Tokens]
    /\ Valid \subseteq Tokens /\ Named \subseteq Tokens
    /\ MaxTokens \in Nat \ {0} /\ RefillNs \in Nat \ {0}
    /\ Start \in Nat /\ Start >= MaxTokens * RefillNs
    /\ MaxTime \in Nat /\ MaxUnanswered \in Nat

VARIABLES
    now,                \* time.Now()
    tokens, lastRefil,  \* the buckets; one not yet stored is full, with lastRefil 0
    at,                 \* position of a handler
    stamp, fill, cur,   \* its now, newTokens, and the tokens it loaded
    revoked,            \* tokens on the blocklist
    listed, blind,      \* history: handlers whose token was on it when they arrived,
                        \* and those that got no answer from it
    admitted, begun,    \* history: tokens taken from a bucket, time of its first refill
    mixed,              \* history: buckets with a refill that overlapped another call
    unanswered

bucket == <<tokens, lastRefil>>
local == <<stamp, fill, cur>>
hist == <<listed, blind, admitted, begun, mixed>>
vars == <<now, bucket, at, local, revoked, hist, unanswered>>

Places == {"new", "last", "stamp", "tokens", "store", "load", "cas", "revocation",
           "upgrade", "serving", "refused"}

Init ==
    /\ now = Start
    /\ tokens = [i \in IPs |-> MaxTokens] /\ lastRefil = [i \in IPs |-> 0]
    /\ at = [h \in Handlers |-> "new"]
    /\ stamp = [h \in Handlers |-> 0] /\ fill = [h \in Handlers |-> 0]
    /\ cur = [h \in Handlers |-> 0]
    /\ revoked = {} /\ listed = {} /\ blind = {}
    /\ admitted = [i \in IPs |-> 0] /\ begun = [i \in IPs |-> Start]
    /\ mixed = {} /\ unanswered = 0

Goto(h, place) == at' = [at EXCEPT ![h] = place]
Smaller(a, b) == IF a < b THEN a ELSE b

\* Handlers that have decided on a refill of this bucket and not yet stored it.
Refilling(i) == {h \in Handlers : IpOf[h] = i /\ at[h] \in {"stamp", "tokens", "store"}}

-----------------------------------------------------------------------------
(* checkRateLimit.  A local variable is cleared after its last use.            *)

\* LoadOrStore of the bucket, time.Now().
Arrive(h) ==
    /\ at[h] = "new" /\ Goto(h, "last")
    /\ stamp' = [stamp EXCEPT ![h] = now]
    /\ listed' = IF TokenOf[h] \in revoked THEN listed \cup {h} ELSE listed
    /\ UNCHANGED <<now, bucket, fill, cur, revoked, blind, admitted, begun, mixed, unanswered>>

\* newTokens := (now - last) / refillNs, none for a clock behind the last refill.
NewTokens(h) == LET elapsed == stamp[h] - lastRefil[IpOf[h]] IN
    IF elapsed > 0 THEN elapsed \div RefillNs ELSE 0

\* More than a full bucket is as good as a full one.
LoadLast(h) ==
    /\ at[h] = "last"
    /\ \/ /\ NewTokens(h) > 0 /\ Goto(h, "stamp") /\ stamp' = stamp
          /\ fill' = [fill EXCEPT ![h] = Smaller(NewTokens(h), MaxTokens)]
          /\ mixed' = IF Refilling(IpOf[h]) # {} THEN mixed \cup {IpOf[h]} ELSE mixed
       \/ /\ NewTokens(h) = 0 /\ Goto(h, "load") /\ stamp' = [stamp EXCEPT ![h] = 0]
          /\ UNCHANGED <<fill, mixed>>
    /\ UNCHANGED <<now, bucket, cur, revoked, listed, blind, admitted, begun, unanswered>>

\* Mutant: the time of the refill is not kept.
StampNothing(h) ==
    /\ at[h] = "stamp" /\ Goto(h, "tokens")
    /\ UNCHANGED <<now, bucket, local, revoked, hist, unanswered>>

\* atomic.StoreInt64(&bucket.lastRefil, now)
StampRefill(h) ==
    /\ at[h] = "stamp" /\ Goto(h, "tokens")
    /\ lastRefil' = [lastRefil EXCEPT ![IpOf[h]] = stamp[h]]
    /\ stamp' = [stamp EXCEPT ![h] = 0]
    /\ begun' = IF lastRefil[IpOf[h]] = 0 THEN [begun EXCEPT ![IpOf[h]] = stamp[h]] ELSE begun
    /\ UNCHANGED <<now, tokens, fill, cur, revoked, listed, blind, admitted, mixed, unanswered>>

LoadForRefill(h) ==
    /\ at[h] = "tokens" /\ Goto(h, "store")
    /\ cur' = [cur EXCEPT ![h] = tokens[IpOf[h]]]
    /\ UNCHANGED <<now, bucket, stamp, fill, revoked, hist, unanswered>>

\* The sum, capped, overwrites what other handlers took since the load.
StoreRefill(h) ==
    /\ at[h] = "store" /\ Goto(h, "load")
    /\ tokens' = [tokens EXCEPT ![IpOf[h]] = Smaller(cur[h] + fill[h], MaxTokens)]
    /\ fill' = [fill EXCEPT ![h] = 0] /\ cur' = [cur EXCEPT ![h] = 0]
    /\ UNCHANGED <<now, lastRefil, stamp, revoked, hist, unanswered>>

LoadTokens(h) ==
    /\ at[h] = "load"
    /\ \/ tokens[IpOf[h]] <= 0 /\ Goto(h, "refused") /\ cur' = cur
       \/ tokens[IpOf[h]] > 0 /\ Goto(h, "cas") /\ cur' = [cur EXCEPT ![h] = tokens[IpOf[h]]]
    /\ UNCHANGED <<now, bucket, stamp, fill, revoked, hist, unanswered>>

\* authenticateJWT is a function of the token alone.
authenticateJWT(h) == IF TokenOf[h] \in Valid THEN "revocation" ELSE "refused"

\* Mutant: atomic.AddInt64(&bucket.tokens, -1) in place of the CAS.
TakeBlindly(h) ==
    /\ at[h] = "cas" /\ Goto(h, authenticateJWT(h))
    /\ tokens' = [tokens EXCEPT ![IpOf[h]] = @ - 1]
    /\ cur' = [cur EXCEPT ![h] = 0]
    /\ admitted' = [admitted EXCEPT ![IpOf[h]] = @ + 1]
    /\ UNCHANGED <<now, lastRefil, stamp, fill, revoked, listed, blind, begun, mixed, unanswered>>

\* The compare-and-swap; when it fails the tokens are loaded again.
Take(h) ==
    /\ at[h] = "cas" /\ cur' = [cur EXCEPT ![h] = 0]
    /\ \/ /\ tokens[IpOf[h]] = cur[h] /\ Goto(h, authenticateJWT(h))
          /\ tokens' = [tokens EXCEPT ![IpOf[h]] = cur[h] - 1]
          /\ admitted' = [admitted EXCEPT ![IpOf[h]] = @ + 1]
          /\ mixed' = IF Refilling(IpOf[h]) # {} THEN mixed \cup {IpOf[h]} ELSE mixed
       \/ /\ tokens[IpOf[h]] # cur[h] /\ Goto(h, "load")
          /\ UNCHANGED <<tokens, admitted, mixed>>
    /\ UNCHANGED <<now, lastRefil, stamp, fill, revoked, listed, blind, begun, unanswered>>

checkRateLimit(h) == LoadLast(h) \/ StampRefill(h) \/ LoadForRefill(h) \/ StoreRefill(h)
                         \/ LoadTokens(h) \/ Take(h)

-----------------------------------------------------------------------------
(* The revocation list and the upgrade                                         *)

\* Mutant: any error is an answer, and no answer at all is asked for.
RevokedUnasked(h) ==
    /\ at[h] = "revocation" /\ Goto(h, "upgrade")
    /\ UNCHANGED <<now, bucket, local, revoked, hist, unanswered>>

\* A token without jti is not looked up; an error of Redis lets it pass.
isTokenRevoked(h) ==
    /\ at[h] = "revocation"
    /\ \/ /\ TokenOf[h] \in Named
          /\ Goto(h, IF TokenOf[h] \in revoked THEN "refused" ELSE "upgrade")
          /\ UNCHANGED <<blind, unanswered>>
       \/ /\ TokenOf[h] \notin Named
          /\ Goto(h, "upgrade") /\ blind' = blind \cup {h} /\ UNCHANGED unanswered
       \/ /\ TokenOf[h] \in Named /\ unanswered < MaxUnanswered /\ unanswered' = unanswered + 1
          /\ Goto(h, "upgrade") /\ blind' = blind \cup {h}
    /\ UNCHANGED <<now, bucket, local, revoked, listed, admitted, begun, mixed>>

\* Upgrade refuses a wrong origin or a request that is no handshake.
Upgrade(h) ==
    /\ at[h] = "upgrade"
    /\ Goto(h, "serving") \/ Goto(h, "refused")
    /\ UNCHANGED <<now, bucket, local, revoked, hist, unanswered>>

handler(h) == Arrive(h) \/ checkRateLimit(h) \/ isTokenRevoked(h) \/ Upgrade(h)

\* The auth service adds a token to the blocklist (others are never looked up).
Revoke(t) ==
    /\ t \in (Valid \cap Named) \ revoked /\ revoked' = revoked \cup {t}
    /\ UNCHANGED <<now, bucket, at, local, hist, unanswered>>

Tick == /\ now < MaxTime /\ now' = now + 1
        /\ UNCHANGED <<bucket, at, local, revoked, hist, unanswered>>

Next == (\E h \in Handlers : handler(h)) \/ (\E t \in Tokens : Revoke(t)) \/ Tick

Spec == Init /\ [][Next]_vars

-----------------------------------------------------------------------------

(* However refills and takes of one bucket interleave, it never holds more than *)
(* the burst, and is never overdrawn: the refill that overwrites a take must not*)
(* exceed the cap, a take must not follow one that emptied the bucket.          *)
TokensWithinBurst == \A i \in IPs : tokens[i] \in 0..MaxTokens

(* env.example "Per-IP connection rate limit": an address gets the burst and one*)
(* token per RefillNs since its first refill, counting those still in the bucket*)
(* - for as long as no refill of its bucket overlapped another refill or a take.*)
RateRespected ==
    \A i \in IPs \ mixed : Refilling(i) = {} =>
        tokens[i] + admitted[i] <= MaxTokens + (now - begun[i]) \div RefillNs

(* A token that was revoked before its request arrived is not served, unless the*)
(* blocklist gave no answer about it.                                           *)
RevokedStaysOut == \A h \in listed : at[h] = "serving" => h \in blind
=============================================================================
