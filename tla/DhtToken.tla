------------------------------ MODULE DhtToken ------------------------------
(***************************************************************************)
(* The token manager of net/dht/dht_token.c: two secrets, the active one   *)
(* makes tokens, both are accepted, and a rotation replaces the older.     *)
(*                                                                         *)
(* A secret is a number never used before (16 random bytes in the code); a *)
(* token is the pair of a secret and an address without its port, which    *)
(* stands for the first 8 bytes of their SHA-1.                            *)
(***************************************************************************)
EXTENDS Integers

CONSTANTS
    Addrs,
    IPv4,               \* the addresses tokens can be computed for
    RotateMin, RotateMax

TokenAssumption ==
    /\ IPv4 \subseteq Addrs
    /\ RotateMin \in Nat \ {0} /\ RotateMax \in Nat /\ RotateMin <= RotateMax

VARIABLES
    secrets, active_secret,
    next_rotate,
    rotations,
    handed,     \* history: tokens made since the manager was new or reset
    now         \* wingo_time_now

tokenVars == <<secrets, active_secret, next_rotate, rotations, handed>>

SecretCount == 2

Token == [addr : IPv4, secret : Nat]

TypeOK ==
    /\ secrets \in [0..1 -> Nat] /\ active_secret \in 0..1
    /\ next_rotate \in Nat /\ rotations \in Nat
    /\ \A h \in handed : /\ h.token \in Token
                         /\ h.at \in 0..now /\ h.rotation \in 0..rotations
    /\ now \in Nat

\* The secrets drawn so far: two at first and one more at each rotation.
Drawn == rotations + 2
Schedule == next_rotate' \in (now + RotateMin)..(now + RotateMax)

\* wingo_dht_token_mgr_new
Init ==
    /\ secrets = [s \in 0..1 |-> s] /\ active_secret = 0 /\ rotations = 0
    /\ next_rotate \in (now + RotateMin)..(now + RotateMax)
    /\ handed = {}

\* wingo_dht_token_mgr_reset, and a new manager: secrets unlike all before
Reset ==
    /\ secrets' = [s \in 0..1 |-> Drawn + s] /\ active_secret' = 0
    /\ rotations' = rotations + 2       \* the code's counter goes back to 0
    /\ Schedule
    /\ handed' = {}

-----------------------------------------------------------------------------
\* token_compute
Compute(addr, secret) == [addr |-> addr, secret |-> secret]

\* wingo_dht_token_mgr_generate.  For an IPv6 address it fails and leaves the
\* caller's bytes as they are, which no secret makes.
Generate(addr) ==
    /\ handed' = IF addr \in IPv4
                 THEN handed \cup {[token |-> Compute(addr, secrets[active_secret]),
                                    at |-> now, rotation |-> rotations]}
                 ELSE handed
    /\ UNCHANGED <<secrets, active_secret, next_rotate, rotations>>

\* wingo_dht_token_mgr_verify
Accepts_Bug(addr, token) == addr \in IPv4 /\ token = Compute(addr, secrets[active_secret])
Accepts(addr, token) == addr \in IPv4 /\ \E s \in 0..1 : token = Compute(addr, secrets[s])

NeedsRotate == now >= next_rotate

\* wingo_dht_token_mgr_rotate
Rotate ==
    LET new == (active_secret + 1) % SecretCount IN
    /\ secrets' = [secrets EXCEPT ![new] = Drawn]
    /\ active_secret' = new
    /\ rotations' = rotations + 1
    /\ Schedule
    /\ UNCHANGED handed

\* The node asks first.
RotateIfDue == IF NeedsRotate THEN Rotate ELSE UNCHANGED tokenVars

-----------------------------------------------------------------------------
\* A token survives one rotation and not two, whenever in the period it was made.
AcceptedOnce ==
    \A h \in handed : Accepts(h.token.addr, h.token) <=> rotations - h.rotation <= 1
=============================================================================
