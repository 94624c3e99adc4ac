---------------------------- MODULE SharedLimiter ----------------------------
(***************************************************************************)
(* The two rate limiters as functions of their state.  A window of the     *)
(* local one lives in one API process; LIMITER_V1_LUA is one atomic script *)
(* over the counters, their expiries and the capacity registry in Redis.   *)
(* An identity is a scope ("ip" or "guest") with its address or guest.     *)
(***************************************************************************)
EXTENDS Naturals, FiniteSets, Functions

CONSTANTS LocalLimit,     \* [counter -> [scope -> Nat]], one process
          LocalCapacity,  \* [scope -> Nat], identities one process remembers
          SharedLimit,    \* [counter -> [scope -> Nat]], all processes
          MaximumKeys,    \* SHARED_LIMIT_POLICY.maximumKeys
          Minute,         \* ticks in windowMs
          KeyLife         \* ticks a key lives: 61 seconds, so past its minute

ASSUME LimiterAssumption ==
  Minute \in Nat \ {0} /\ KeyLife \in Nat /\ KeyLife > Minute /\ MaximumKeys \in Nat

ASSUME LimitsAssumption ==
  \A counter \in {"session", "autocomplete", "mutation"} :
    /\ \A scope \in DOMAIN LocalLimit[counter] : LocalLimit[counter][scope] \in Nat
    /\ \A scope \in DOMAIN SharedLimit[counter] : SharedLimit[counter][scope] \in Nat

At(f, x) == IF x \in DOMAIN f THEN f[x] ELSE 0
With(f, S, g(_)) == [x \in DOMAIN f \cup S |-> IF x \in S THEN g(x) ELSE f[x]]
Keep(f, S) == [x \in DOMAIN f \cap S |-> f[x]]

(***************************************************************************)
(* createRateLimitControl: one window of one process                       *)
(***************************************************************************)
EmptyWindow == [bucket |-> 0, used |-> <<>>]

\* A window is cleared by the first request of another bucket.
WindowAt(window, bucket) ==
  IF window.bucket = bucket THEN window ELSE [bucket |-> bucket, used |-> <<>>]

Known(window, scope) == {i \in {k[2] : k \in DOMAIN window.used} : i[1] = scope}

LocallyDenied(window, counter, ids) ==
  \E i \in ids :
    \/ i \notin Known(window, i[1]) /\ Cardinality(Known(window, i[1])) >= LocalCapacity[i[1]]
    \/ At(window.used, <<counter, i>>) >= LocalLimit[counter][i[1]]

Charge(window, counter, ids) ==
  [window EXCEPT !.used = With(@, {<<counter, i>> : i \in ids}, LAMBDA k : At(window.used, k) + 1)]

(***************************************************************************)
(* LIMITER_V1_LUA                                                          *)
(***************************************************************************)
EmptyLimiter == [count |-> <<>>, until |-> <<>>, registry |-> <<>>]
Live(f, now) == {k \in DOMAIN f : f[k] > now}
LimiterKeys(counter, ids, now) == {<<now \div Minute, counter, i>> : i \in ids}

\* A slip: the last request of the limit is let through twice.
usedBeyond(used, limit) == used > limit

usedUp(used, limit) == used >= limit

\* The script: whether the request is admitted, and the limiter after it.
Script(limiter, now, counter, ids) ==
  LET keys == LimiterKeys(counter, ids, now)
      used(k) == IF k \in Live(limiter.until, now) THEN limiter.count[k] ELSE 0
      needed == {k \in keys : used(k) = 0}
      known == Keep(limiter.registry, Live(limiter.registry, now))
      expiry(k) == now + KeyLife
      more(k) == used(k) + 1
  IN IF \E k \in keys : usedUp(used(k), SharedLimit[counter][k[3][1]])
     THEN [admitted |-> FALSE, limiter |-> limiter]
     ELSE IF Cardinality(DOMAIN known) + Cardinality(needed) > MaximumKeys - 2
     THEN [admitted |-> FALSE, limiter |-> [limiter EXCEPT !.registry = known]]
     ELSE [admitted |-> TRUE,
           limiter |-> [count |-> With(limiter.count, keys, more),
                        until |-> With(limiter.until, keys, expiry),
                        registry |-> With(known, keys, expiry)]]

\* Redis drops the keys that have expired.
Forget(limiter, now) ==
  [limiter EXCEPT !.count = Keep(@, Live(limiter.until, now)),
                  !.until = Keep(@, Live(limiter.until, now))]
=============================================================================
