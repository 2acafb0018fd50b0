---------------------------- MODULE DhtSecurity -----------------------------
(***************************************************************************)
(* The source checks of net/dht/dht_security.c: a blacklist with expiry, a *)
(* bucket of message permits for each address, and a counter for each /24  *)
(* subnet.                                                                 *)
(*                                                                         *)
(* The three lists are sets with at most one entry for an address, subnet  *)
(* or identifier, as the code finds an entry before it adds one.           *)
(***************************************************************************)
EXTENDS Integers, Sequences, FiniteSets

CONSTANTS
    Addrs, Ids,
    Martian,            \* the addresses wingo_addr_is_martian knows
    Subnet,             \* the /24 of an address; 0 for one that has none
    max_blacklist,
    BlacklistTTL,       \* WINGO_DHT_SECURITY_BLACKLIST_TTL, one hour
    RatePerIp,          \* WINGO_DHT_SECURITY_RATE_PER_IP, 20: the size of a bucket
    MaxRateEntries,     \* RATE_MAX_ENTRIES, 4096
    MaxPerSubnet,       \* SYBIL_MAX_PER_SUBNET, 4
    enable_rate_limit, enable_sybil

SecurityAssumption ==
    /\ Addrs \cap Ids = {} /\ Martian \subseteq Addrs /\ Subnet \in [Addrs -> Nat]
    /\ max_blacklist \in Nat /\ BlacklistTTL \in Nat \ {0}
    /\ RatePerIp \in Nat \ {0} /\ MaxRateEntries \in Nat /\ MaxPerSubnet \in Nat
    /\ enable_rate_limit \in BOOLEAN /\ enable_sybil \in BOOLEAN

VARIABLES
    blacklist,          \* the addresses and identifiers with an entry
    expires_at,         \* of each entry
    rated,              \* the addresses with a rate entry
    tokens, last_refill,
    sybil,              \* messages registered per subnet
    granted,            \* history: when messages of an address were let through by
                        \* direct calls (DhtServer leaves it alone)
    now                 \* wingo_time_now

securityVars == <<blacklist, expires_at, rated, tokens, last_refill, sybil, granted>>

Listable == Addrs \cup Ids
Subnets == {Subnet[a] : a \in Addrs} \ {0}

TypeOK ==
    /\ blacklist \subseteq Listable /\ Cardinality(blacklist) <= max_blacklist
    /\ expires_at \in [Listable -> Nat]
    /\ rated \subseteq Addrs /\ Cardinality(rated) <= MaxRateEntries
    /\ tokens \in [Addrs -> 0..RatePerIp] /\ last_refill \in [Addrs -> Nat]
    /\ sybil \in [Subnets -> Nat]
    /\ granted \in [Addrs -> Seq(Nat)]

\* wingo_dht_security_new
Init ==
    /\ blacklist = {} /\ expires_at = [x \in Listable |-> 0]
    /\ rated = {} /\ tokens = [a \in Addrs |-> 0] /\ last_refill = [a \in Addrs |-> 0]
    /\ sybil = [s \in Subnets |-> 0]
    /\ granted = [a \in Addrs |-> <<>>]

\* wingo_dht_security_reset, and _free followed by _new
Reset ==
    /\ blacklist' = {} /\ rated' = {} /\ sybil' = [s \in Subnets |-> 0]
    /\ granted' = [a \in Addrs |-> <<>>]
    /\ UNCHANGED <<expires_at, tokens, last_refill>>

rateVars == <<rated, tokens, last_refill, granted>>

-----------------------------------------------------------------------------
(* Blacklist                                                               *)

IsBlacklisted(x) == x \in blacklist /\ now < expires_at[x]

\* wingo_dht_security_blacklist_add and _add_addr.  An entry that exists is kept
\* as it is, even if it has expired.
BlacklistAdd(x, duration) ==
    /\ IF x \in blacklist \/ Cardinality(blacklist) >= max_blacklist
       THEN UNCHANGED <<blacklist, expires_at>>
       ELSE /\ blacklist' = blacklist \cup {x}
            /\ expires_at' = [expires_at EXCEPT
                  ![x] = now + (IF duration <= 0 THEN BlacklistTTL ELSE duration)]
    /\ UNCHANGED <<rateVars, sybil>>

BlacklistRemove(x) ==
    /\ x \in blacklist /\ blacklist' = blacklist \ {x}
    /\ UNCHANGED <<expires_at, rateVars, sybil>>

BlacklistClear ==
    /\ blacklist' = {}
    /\ UNCHANGED <<expires_at, rateVars, sybil>>

BlacklistExpire ==
    /\ blacklist' = {x \in blacklist : now < expires_at[x]}
    /\ UNCHANGED <<expires_at, rateVars, sybil>>

-----------------------------------------------------------------------------
(* Rate limit: an address, with its port, has a bucket of permits; one      *)
(* comes back a second.                                                     *)

Least(a, b) == IF a < b THEN a ELSE b

\* rate_refill, after rate_get_or_create
Refilled_Bug(a) ==
    IF a \in rated THEN Least(RatePerIp, tokens[a] + (now - last_refill[a]) + 1) ELSE RatePerIp

Refilled(a) ==
    IF a \in rated THEN Least(RatePerIp, tokens[a] + (now - last_refill[a])) ELSE RatePerIp

\* Without an entry, and without place for one, a message is let through.
Limited(a) == enable_rate_limit /\ (a \in rated \/ Cardinality(rated) < MaxRateEntries)

\* wingo_dht_security_rate_limit_check: what it answers and what it does
Permitted(a) == Limited(a) => Refilled(a) > 0

CountMessage(a) ==
    IF Limited(a)
       THEN /\ rated' = rated \cup {a}
            /\ tokens' = [tokens EXCEPT ![a] = IF Permitted(a) THEN Refilled(a) - 1 ELSE 0]
            /\ last_refill' = [last_refill EXCEPT ![a] = now]
       ELSE UNCHANGED <<rated, tokens, last_refill>>

RateLimitCheck(a) ==
    /\ CountMessage(a)
    /\ granted' = IF Limited(a) /\ Permitted(a) THEN [granted EXCEPT ![a] = Append(@, now)] ELSE granted
    /\ UNCHANGED <<blacklist, expires_at, sybil>>

\* wingo_dht_security_rate_limit_reset gives the address a full bucket again.
RateLimitReset(a) ==
    /\ a \in rated /\ rated' = rated \ {a}
    /\ granted' = [granted EXCEPT ![a] = <<>>]
    /\ UNCHANGED <<blacklist, expires_at, tokens, last_refill, sybil>>

RateLimitClear ==
    /\ rated' = {} /\ granted' = [a \in Addrs |-> <<>>]
    /\ UNCHANGED <<blacklist, expires_at, tokens, last_refill, sybil>>

-----------------------------------------------------------------------------
(* Subnets                                                                 *)

SybilOk(a) == enable_sybil /\ Subnet[a] # 0 => sybil[Subnet[a]] < MaxPerSubnet

SybilRegister(a) ==
    /\ sybil' = IF enable_sybil /\ Subnet[a] # 0
                THEN [sybil EXCEPT ![Subnet[a]] = @ + 1] ELSE sybil
    /\ UNCHANGED <<blacklist, expires_at, rateVars>>

SybilUnregister(a) ==
    /\ enable_sybil /\ Subnet[a] # 0 /\ sybil[Subnet[a]] > 0
    /\ sybil' = [sybil EXCEPT ![Subnet[a]] = @ - 1]
    /\ UNCHANGED <<blacklist, expires_at, rateVars>>

SybilClear ==
    /\ sybil' = [s \in Subnets |-> 0]
    /\ UNCHANGED <<blacklist, expires_at, rateVars>>

-----------------------------------------------------------------------------
\* wingo_dht_security_validate_source: the first check that fails answers, and a
\* message refused for its subnet has used its permit.
Verdict(a) ==
    IF a \in Martian THEN "MARTIAN"
    ELSE IF IsBlacklisted(a) THEN "BLOCKED"
    ELSE IF ~Permitted(a) THEN "RATE_LIMITED"
    ELSE IF ~SybilOk(a) THEN "SYBIL"
    ELSE "OK"

ValidateSource(a) ==
    IF Verdict(a) \in {"MARTIAN", "BLOCKED"} THEN UNCHANGED securityVars ELSE RateLimitCheck(a)

\* Calls of the interface, each alone; the node makes some of them (DhtServer).
Call(Durations) ==
    \/ \E x \in Listable, d \in Durations : BlacklistAdd(x, d)
    \/ \E x \in Listable : BlacklistRemove(x)
    \/ \E a \in Addrs : \/ ValidateSource(a) \/ RateLimitCheck(a) \/ RateLimitReset(a)
                        \/ SybilRegister(a) \/ SybilUnregister(a)
    \/ BlacklistClear \/ BlacklistExpire \/ RateLimitClear \/ SybilClear \/ Reset

-----------------------------------------------------------------------------
\* In any span of time, an address gets no more messages through than a full bucket
\* and one a second, whatever it sends and when, as long as it has an entry.  Of a
\* host with several ports nothing of the kind holds, and RatePerIp a second is not
\* what a full bucket and one a second come to (dht_security.h:69).
RateBounded ==
    \A a \in rated : \A i, j \in DOMAIN granted[a] :
        i <= j => j - i + 1 <= RatePerIp + granted[a][j] - granted[a][i]
=============================================================================
