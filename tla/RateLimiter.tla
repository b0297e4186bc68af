---------------------------- MODULE RateLimiter ----------------------------
(***************************************************************************)
(* The gateway's token buckets (services/api-gateway/middleware/           *)
(* ratelimit.go): one bucket per key, filled with time, emptied by         *)
(* requests, forgotten by purge when it has not been used for long.  allow *)
(* and purge hold rl.mu throughout and read the clock under it, so each is *)
(* one step.                                                               *)
(*                                                                         *)
(* The code counts tokens in float64 and gains rate of them per second.    *)
(* Here a token is Token equal parts and the clock ticks once for each     *)
(* part gained, so fractions of a token are integers.                      *)
(***************************************************************************)
EXTENDS Integers

CONSTANTS Conns,     \* client connections, told apart by their RemoteAddr
          Hosts,     \* client addresses a proxy may report
          Header,    \* [Conns -> X-Forwarded-For or X-Real-IP, or NoHeader]
          NoHeader,
          Token,     \* the parts of a token
          Capacity,  \* rl.capacity, in parts
          PurgeAge,  \* the 10 minutes of purge, in ticks
          MaxTime    \* bound of the clock

ASSUME ConnAssumption ==
    Header \in [Conns -> Hosts \cup {NoHeader}]
(* Defaults: 50 per second, burst 100.  A purged bucket would be full.      *)
ASSUME RateAssumption ==
    /\ Token \in Nat \ {0} /\ Capacity \in Nat /\ Capacity >= Token
    /\ PurgeAge \in Nat /\ PurgeAge >= Capacity
    /\ MaxTime \in Nat

(* clientIP: what a proxy says, or else the address and the port of the     *)
(* connection.                                                              *)
ClientIP(c) == IF Header[c] # NoHeader THEN <<"host", Header[c]>> ELSE <<"addr", c>>
Keys == {ClientIP(c) : c \in Conns}

VARIABLES now,      \* the clock
          buckets,  \* rl.buckets
          start,    \* when the observation began: any moment, see Observe
          granted,  \* [Keys -> parts of tokens granted to it since then]
          steady,   \* the keys whose requests all were at least a token apart
          refused   \* the keys that were refused a request

observerVars == <<start, granted, steady, refused>>
limiterVars == <<now, buckets, observerVars>>

LimiterTypeOK ==
    /\ now \in 0 .. MaxTime
    /\ DOMAIN buckets \subseteq Keys
    /\ \A k \in DOMAIN buckets :
           buckets[k].tokens \in 0 .. Capacity /\ buckets[k].lastSeen \in 0 .. now
    /\ start \in 0 .. now
    /\ granted \in [Keys -> Nat]
    /\ steady \subseteq Keys
    /\ refused \subseteq Keys

LimiterInit ==
    /\ now = 0
    /\ buckets = <<>>
    /\ start = 0
    /\ granted = [k \in Keys |-> 0]
    /\ steady = Keys
    /\ refused = {}

(* buckets[k] = [tokens |-> t, lastSeen |-> now]. *)
WithBucket(k, t) ==
    [x \in DOMAIN buckets \cup {k} |-> IF x = k THEN [tokens |-> t, lastSeen |-> now]
                                                ELSE buckets[x]]

(* Mutant: the time that has passed is not turned into tokens. *)
RefilledForgotten(k) == buckets[k].tokens

(* The tokens of a bucket after elapsed*rate has been added, at most full. *)
Refilled(k) ==
    LET t == buckets[k].tokens + (now - buckets[k].lastSeen)
    IN  IF Capacity < t THEN Capacity ELSE t

Grant(c) ==
    /\ granted' = [granted EXCEPT ![ClientIP(c)] = @ + Token]
    /\ UNCHANGED <<refused, start>>

(* Does the request keep the distance of a token to the one before it? *)
Paced(k) ==
    steady' = IF now - buckets[k].lastSeen < Token THEN steady \ {k} ELSE steady

(* A key without a bucket gets a full one and is allowed. *)
AllowFirst(c) ==
    /\ ClientIP(c) \notin DOMAIN buckets
    /\ buckets' = WithBucket(ClientIP(c), Capacity - Token)
    /\ Grant(c)
    /\ UNCHANGED <<now, steady>>

(* Mutant: lastSeen is not moved, the same time is added again and again. *)
AllowNotSeen(c) ==
    LET k == ClientIP(c)
    IN  /\ k \in DOMAIN buckets
        /\ Refilled(k) >= Token
        /\ buckets' = [buckets EXCEPT ![k].tokens = Refilled(k) - Token]
        /\ Grant(c)
        /\ Paced(k)
        /\ UNCHANGED now

(* There is a token after the refill: it is taken. *)
Allow(c) ==
    LET k == ClientIP(c)
    IN  /\ k \in DOMAIN buckets
        /\ Refilled(k) >= Token
        /\ buckets' = WithBucket(k, Refilled(k) - Token)
        /\ Grant(c)
        /\ Paced(k)
        /\ UNCHANGED now

(* There is none: 429, and the refill stays. *)
Refuse(c) ==
    LET k == ClientIP(c)
    IN  /\ k \in DOMAIN buckets
        /\ Refilled(k) < Token
        /\ buckets' = WithBucket(k, Refilled(k))
        /\ refused' = refused \cup {k}
        /\ Paced(k)
        /\ UNCHANGED <<now, start, granted>>

(* The ticker of NewRateLimiter fires. *)
Purge ==
    /\ buckets' = [k \in {x \in DOMAIN buckets : buckets[x].lastSeen >= now - PurgeAge} |-> buckets[k]]
    /\ UNCHANGED <<now, observerVars>>

Tick ==
    /\ now < MaxTime
    /\ now' = now + 1
    /\ UNCHANGED <<buckets, observerVars>>

(* No code: a new interval of observation begins, so that what holds of     *)
(* start .. now holds of every interval.                                    *)
Observe ==
    /\ start' = now
    /\ granted' = [k \in Keys |-> 0]
    /\ UNCHANGED <<now, buckets, steady, refused>>

LimiterNext ==
    \/ \E c \in Conns : AllowFirst(c) \/ Allow(c) \/ Refuse(c)
    \/ Purge
    \/ Tick
    \/ Observe

LimiterSpec == LimiterInit /\ [][LimiterNext]_limiterVars

-----------------------------------------------------------------------------
(* In any interval a key is granted at most the burst and what the rate     *)
(* yields in that time, also when purge forgets its bucket in between       *)
(* (ratelimit.go:22-23, 39-70).                                             *)
RateBounded == \A k \in Keys : granted[k] <= Capacity + (now - start)

(* Who leaves the time of a token between any two requests is never refused *)
(* one, wherever purges, other keys and rounding at the limit come in.      *)
SteadyNeverRefused == steady \cap refused = {}
=============================================================================
