---------------------------- MODULE ServerProofs ----------------------------
(***************************************************************************)
(* Proofs about the DHT node, for any hosts, hashes, limits and periods:   *)
(* what it holds while it runs, the tokens it accepts and the peers it     *)
(* hands out.                                                              *)
(*                                                                         *)
(* Each of the node's actions is one of a few steps of the token manager   *)
(* (TokenStep) and of the storage (StorageStep), and each has an inductive *)
(* invariant of its own.  TokenSound relates a token's age in rotations to *)
(* the secret it was made from; PeersSound relates the time of an accepted *)
(* announcement to the list.                                               *)
(***************************************************************************)
EXTENDS DhtServer, FiniteSetTheorems, TLAPS

\* What the node's actions do to the token manager: nothing; tokens are made, or all
\* forgotten; new secrets; a rotation that is due.
Hands ==
    /\ UNCHANGED <<secrets, active_secret, next_rotate, rotations>>
    /\ \A t \in handed' :
          \/ t \in handed
          \/ \E h \in IPv4 : t = [token |-> Token!Compute(h, secrets[active_secret]),
                                at |-> now, rotation |-> rotations]

TokenStep ==
    \/ now' \in {now, now + 1} /\ UNCHANGED tokenVars
    \/ now' = now /\ (Hands \/ Token!Reset \/ (Token!Rotate /\ Token!NeedsRotate))

\* And what they do to the lists of peers.
listVars == <<entries, peers, announced_at, last_update, promised>>

StorageStep ==
    \/ now' \in {now, now + 1} /\ UNCHANGED listVars
    \/ /\ now' = now
       /\ \/ Storage!Clear \/ Storage!Expire
          \/ \E h \in Hashes, a \in PeerAddrs : Storage!Announce(h, a)

-----------------------------------------------------------------------------

\* The peer of an announcement has an address of the node's world.
LEMMA SenderAddress ==
    ASSUME ServerAssumption, NEW from \in Senders, NEW m \in Messages(from)
    PROVE  /\ m.from = from /\ m.from.host \in Hosts /\ m.from \in Senders
           /\ m.type \in {"ping", "find_node", "other", "response", "get_peers", "announce_peer"}
           /\ m.type = "announce_peer" =>
                /\ m.hash \in Hashes
                /\ Address(m.from.host, IF m.port = 0 THEN m.from.port ELSE m.port) \in PeerAddrs
           /\ m.type = "get_peers" => m.hash \in Hashes
<1>1. from.host \in Hosts /\ from.port \in Ports
  BY DEF ServerAssumption
<1>2. /\ m.from = from
      /\ m.type \in {"ping", "find_node", "other", "response", "get_peers", "announce_peer"}
      /\ m.type = "announce_peer" => m.hash \in Hashes /\ m.port \in AnnouncedPorts
      /\ m.type = "get_peers" => m.hash \in Hashes
  <2> PICK hs, tk : Message = [type |-> "other", from |-> None, hash |-> hs,
                               token |-> tk, port |-> 0, told |-> {}]
    BY DEF Message
  <2>1. \A t : Plain(from, t) = [type |-> t, from |-> from, hash |-> hs, token |-> tk,
                                 port |-> 0, told |-> {}]
    <3> SUFFICES ASSUME NEW t
                 PROVE  Plain(from, t) = [type |-> t, from |-> from, hash |-> hs, token |-> tk,
                                          port |-> 0, told |-> {}]
      OBVIOUS
    <3>1. Plain(from, t) = [Message EXCEPT !.from = from, !.type = t]
      BY DEF Plain
    <3> QED BY <3>1
  <2>2. \A t : LET x == Plain(from, t) IN x.from = from /\ x.type = t
    BY <2>1
  <2>3. \A told : LET x == Telling(from, told) IN x.from = from /\ x.type = "response"
    BY <2>1 DEF Telling
  <2>4. \A h : LET x == Asking(from, h) IN x.from = from /\ x.type = "get_peers" /\ x.hash = h
    BY <2>1 DEF Asking
  <2>5. \A h, t, p : LET x == Announcing(from, h, t, p) IN
            x.from = from /\ x.type = "announce_peer" /\ x.hash = h /\ x.port = p
    BY <2>1 DEF Announcing
  <2>6. \/ \E t \in {"ping", "find_node", "other"} : m = Plain(from, t)
        \/ \E told : m = Telling(from, told)
        \/ \E h \in Hashes : m = Asking(from, h)
        \/ \E h \in Hashes, t \in held \cup {Forged(from.host)}, p \in AnnouncedPorts :
              m = Announcing(from, h, t, p)
    <3> DEFINE A == {Plain(from, t) : t \in {"ping", "find_node", "other"}}
               B == {Telling(from, told) : told \in {{}} \cup {{a} : a \in Told}}
               C == {Asking(from, h) : h \in Hashes}
               D == {Announcing(from, h, t, p) :
                       h \in Hashes, t \in held \cup {Forged(from.host)}, p \in AnnouncedPorts}
    <3>1. Messages(from) = A \cup B \cup C \cup D
      BY DEF Messages
    <3>2. m \in A => \E t \in {"ping", "find_node", "other"} : m = Plain(from, t)
      OBVIOUS
    <3>3. m \in B => \E told : m = Telling(from, told)
      OBVIOUS
    <3>4. m \in C => \E h \in Hashes : m = Asking(from, h)
      OBVIOUS
    <3>5. m \in D => \E h \in Hashes, t \in held \cup {Forged(from.host)}, p \in AnnouncedPorts :
              m = Announcing(from, h, t, p)
      OBVIOUS
    <3> HIDE DEF A, B, C, D
    <3> QED BY <3>1, <3>2, <3>3, <3>4, <3>5
  <2> QED BY <2>2, <2>3, <2>4, <2>5, <2>6
<1>3. ASSUME m.type = "announce_peer"
      PROVE  Address(m.from.host, IF m.port = 0 THEN m.from.port ELSE m.port) \in PeerAddrs
  <2>1. (IF m.port = 0 THEN m.from.port ELSE m.port) \in Ports
    BY <1>1, <1>2, <1>3 DEF ServerAssumption
  <2> QED BY <1>1, <1>2, <2>1 DEF PeerAddrs
<1> QED BY <1>1, <1>2, <1>3

LEMMA ProcessParts ==
    ASSUME ServerAssumption, NEW from \in Senders, NEW m \in Messages(from), Process(m)
    PROVE  /\ now' = now /\ (Hands \/ UNCHANGED tokenVars)
           /\ \/ UNCHANGED listVars
              \/ \E h \in Hashes, a \in PeerAddrs : Storage!Announce(h, a)
<1>0. now' = now
  BY DEF Process
<1>1. CASE Ignored
  BY <1>0, <1>1 DEF Ignored, storageVars, listVars
<1>2. CASE Handles(m) /\ m.type # "other"
  <2>1. CASE m.type = "ping"
    BY <1>0, <1>2, <2>1 DEF Handles, Ping, storageVars, listVars
  <2>2. CASE m.type = "find_node"
    BY <1>0, <1>2, <2>2 DEF Handles, FindNode, storageVars, listVars
  <2>3. CASE m.type = "response"
    BY <1>0, <1>2, <2>3 DEF Handles, Response, storageVars, listVars
  <2>4. CASE m.type = "get_peers"
    <3>1. GetPeers(m)
      BY <1>2, <2>4 DEF Handles
    <3>2. Hands
      BY <3>1 DEF GetPeers, Token!Generate, Hands
    <3> QED BY <1>0, <3>1, <3>2 DEF GetPeers, storageVars, listVars
  <2>5. CASE m.type = "announce_peer"
    <3>1. AnnouncePeer(m)
      BY <1>2, <2>5 DEF Handles
    <3>2. UNCHANGED tokenVars
      BY <3>1 DEF AnnouncePeer
    <3>3. \/ UNCHANGED listVars
          \/ \E h \in Hashes, a \in PeerAddrs : Storage!Announce(h, a)
      BY <3>1, <2>5, SenderAddress DEF AnnouncePeer, storageVars, listVars
    <3> QED BY <1>0, <3>2, <3>3
  <2> QED BY <1>2, <2>1, <2>2, <2>3, <2>4, <2>5, SenderAddress
<1> QED BY <1>1, <1>2 DEF Process

LEMMA AnnounceParts ==
    ASSUME ServerAssumption, NEW h \in Hashes, NEW p \in AnnouncedPorts \ {0}, Announce(h, p)
    PROVE  TokenStep /\ StorageStep
<1>1. Address(Anywhere, p) \in PeerAddrs
  BY DEF ServerAssumption, PeerAddrs
<1>2. now' = now /\ UNCHANGED <<secrets, active_secret, next_rotate, rotations>>
  BY DEF Announce
<1>3. CASE Storage!CanAnnounce(h, Address(Anywhere, p))
  <2> DEFINE own == {Token!Compute(x, secrets[active_secret]) :
                        x \in {a.host : a \in nodes} \cap IPv4}
  <2>1. handed' = handed \cup {[token |-> t, at |-> now, rotation |-> rotations] : t \in own}
    BY <1>3 DEF Announce
  <2>2. \A t \in own : \E x \in IPv4 : t = Token!Compute(x, secrets[active_secret])
    OBVIOUS
  <2> HIDE DEF own
  <2>3. Hands
    BY <1>2, <2>1, <2>2 DEF Hands
  <2>4. Storage!Announce(h, Address(Anywhere, p))
    BY <1>3 DEF Announce
  <2> QED BY <1>1, <1>2, <2>3, <2>4 DEF TokenStep, StorageStep
<1>4. CASE ~Storage!CanAnnounce(h, Address(Anywhere, p))
  BY <1>2, <1>4 DEF Announce, TokenStep, StorageStep, tokenVars, storageVars, listVars
<1> QED BY <1>3, <1>4

LEMMA PeriodicParts ==
    ASSUME Periodic
    PROVE  TokenStep /\ StorageStep
<1>1. now' = now
  BY DEF Periodic
<1>2. CASE Due
  <2>1. Storage!Expire /\ Token!RotateIfDue
    BY <1>2 DEF Periodic
  <2>2. TokenStep
    BY <1>1, <2>1 DEF Token!RotateIfDue, Token!tokenVars, TokenStep, tokenVars
  <2> QED BY <1>1, <2>1, <2>2 DEF StorageStep
<1>3. CASE ~Due
  BY <1>1, <1>3 DEF Periodic, TokenStep, StorageStep, tokenVars, storageVars, listVars
<1> QED BY <1>2, <1>3

LEMMA NextParts ==
    ASSUME ServerAssumption, [Next]_vars
    PROVE  TokenStep /\ StorageStep
<1> USE DEF TokenStep, StorageStep, tokenVars, storageVars, listVars
<1>1. ASSUME StartWorks PROVE TokenStep /\ StorageStep
  BY <1>1 DEF StartWorks
<1>2. ASSUME Stop PROVE TokenStep /\ StorageStep
  BY <1>2 DEF Stop, Hands
<1>3. ASSUME NEW i, StartFails(i) PROVE TokenStep /\ StorageStep
  BY <1>3 DEF StartFails
<1>4. ASSUME NEW from \in Senders, NEW m \in Messages(from), Process(m)
      PROVE  TokenStep /\ StorageStep
  BY <1>4, ProcessParts
<1>5. ASSUME NEW h \in Hashes, NEW p \in AnnouncedPorts \ {0}, Announce(h, p)
      PROVE  TokenStep /\ StorageStep
  BY <1>5, AnnounceParts
<1>6. ASSUME NewSearch PROVE TokenStep /\ StorageStep
  BY <1>6 DEF NewSearch
<1>7. ASSUME Bootstrap PROVE TokenStep /\ StorageStep
  BY <1>7 DEF Bootstrap
<1>8. ASSUME Periodic PROVE TokenStep /\ StorageStep
  BY <1>8, PeriodicParts
<1>9. ASSUME Tick PROVE TokenStep /\ StorageStep
  BY <1>9 DEF Tick
<1>10. ASSUME UNCHANGED vars PROVE TokenStep /\ StorageStep
  BY <1>10 DEF vars
<1> HIDE DEF TokenStep, StorageStep
<1> QED BY <1>1, <1>2, <1>3, <1>4, <1>5, <1>6, <1>7, <1>8, <1>9, <1>10
        DEF Next, LookUpPeers, LookUpNode

-----------------------------------------------------------------------------
(* Tokens                                                                  *)

\* A token's age in rotations says which secret made it, and how long ago at least.
Aged(t) ==
    /\ t.token.secret < rotations + 2
    /\ rotations = t.rotation => t.token.secret = secrets[active_secret]
    /\ rotations = t.rotation + 1 => /\ t.token.secret = secrets[1 - active_secret]
                                     /\ t.at + RotateMin <= next_rotate
    /\ rotations >= t.rotation + 2 => /\ t.token.secret \notin {secrets[0], secrets[1]}
                                      /\ t.at + RotateMin <= now

Entry(t) == t.token \in Token!Token /\ t.at \in 0..now /\ t.rotation \in 0..rotations

SecretsSound ==
    /\ now \in Nat /\ rotations \in Nat /\ next_rotate \in Nat
    /\ active_secret \in 0..1 /\ secrets \in [0..1 -> Nat]
    /\ secrets[0] # secrets[1]
    /\ secrets[0] < rotations + 2 /\ secrets[1] < rotations + 2

TokenSound == SecretsSound /\ \A t \in handed : Entry(t) /\ Aged(t)

LEMMA HandsSound ==
    ASSUME ServerAssumption, TokenSound, now' = now, Hands
    PROVE  TokenSound'
<1>1. SecretsSound'
  BY DEF Hands, TokenSound, SecretsSound
<1>2. ASSUME NEW t \in handed' PROVE Entry(t)' /\ Aged(t)'
  <2>1. CASE t \in handed
    BY <2>1 DEF Hands, TokenSound, Entry, Aged, Token!Token
  <2>2. ASSUME NEW h \in IPv4,
               t = [token |-> Token!Compute(h, secrets[active_secret]),
                    at |-> now, rotation |-> rotations]
        PROVE  Entry(t)' /\ Aged(t)'
    <3>1. /\ t.token \in Token!Token /\ t.token.secret = secrets[active_secret]
          /\ t.at = now /\ t.rotation = rotations
      BY <2>2 DEF Token!Compute, Token!Token, TokenSound, SecretsSound
    <3>2. /\ active_secret' = active_secret /\ secrets' = secrets /\ rotations' = rotations
          /\ rotations \in Nat /\ now \in Nat
          /\ secrets[active_secret] < rotations + 2
      BY DEF Hands, TokenSound, SecretsSound
    <3>3. Entry(t)'
      BY <3>1, <3>2 DEF Entry, Token!Token
    <3>4. Aged(t)'
      BY <3>1, <3>2 DEF Aged
    <3> QED BY <3>3, <3>4
  <2> QED BY <2>1, <2>2 DEF Hands
<1> QED BY <1>1, <1>2 DEF TokenSound

LEMMA WaitSound ==
    ASSUME ServerAssumption, TokenSound, now' \in {now, now + 1}, UNCHANGED tokenVars
    PROVE  TokenSound'
<1>1. SecretsSound'
  BY DEF tokenVars, TokenSound, SecretsSound
<1>2. ASSUME NEW t \in handed' PROVE Entry(t)' /\ Aged(t)'
  <2>1. Entry(t) /\ Aged(t) /\ now \in Nat /\ t.at \in Nat /\ RotateMin \in Nat
    BY DEF tokenVars, TokenSound, SecretsSound, Entry, ServerAssumption, Token!TokenAssumption
  <2>2. Entry(t)'
    BY <2>1 DEF tokenVars, Entry, Token!Token
  <2>3. Aged(t)'
    BY <2>1 DEF tokenVars, Aged
  <2> QED BY <2>2, <2>3
<1> QED BY <1>1, <1>2 DEF TokenSound

LEMMA ResetSound ==
    ASSUME ServerAssumption, TokenSound, now' = now, Token!Reset
    PROVE  TokenSound'
<1>1. /\ secrets'[0] = rotations + 2 /\ secrets'[1] = rotations + 3
      /\ secrets' \in [0..1 -> Nat] /\ active_secret' = 0 /\ rotations' = rotations + 2
      /\ handed' = {}
  BY DEF Token!Reset, Token!Drawn, TokenSound, SecretsSound
<1>2. next_rotate' \in Nat
  BY DEF Token!Reset, Token!Schedule, TokenSound, SecretsSound, ServerAssumption,
         Token!TokenAssumption
<1>3. SecretsSound'
  BY <1>1, <1>2 DEF TokenSound, SecretsSound
<1> QED BY <1>1, <1>3 DEF TokenSound

\* A rotation replaces the secret of the tokens that one rotation outlived.
LEMMA RotateSound ==
    ASSUME ServerAssumption, TokenSound, now' = now, Token!Rotate, Token!NeedsRotate
    PROVE  TokenSound'
<1>0. SecretsSound
  BY DEF TokenSound
<1>1. active_secret' = 1 - active_secret /\ active_secret' \in 0..1
  BY <1>0 DEF Token!Rotate, Token!SecretCount, SecretsSound
<1>2. /\ secrets' = [secrets EXCEPT ![active_secret'] = rotations + 2]
      /\ rotations' = rotations + 1 /\ handed' = handed
  BY DEF Token!Rotate, Token!Drawn, Token!SecretCount
<1>3. /\ secrets'[active_secret'] = rotations + 2
      /\ secrets'[active_secret] = secrets[active_secret]
      /\ secrets' \in [0..1 -> Nat]
  BY <1>0, <1>1, <1>2 DEF SecretsSound
<1>4. /\ next_rotate' \in Nat /\ now + RotateMin <= next_rotate' /\ next_rotate <= now
      /\ RotateMin \in Nat
  BY <1>0 DEF Token!Rotate, Token!Schedule, Token!NeedsRotate, SecretsSound,
              ServerAssumption, Token!TokenAssumption
<1>5. /\ active_secret \in 0..1 /\ secrets[active_secret] < rotations + 2
      /\ secrets[active_secret] \in Nat /\ secrets[1 - active_secret] \in Nat
      /\ secrets[active_secret] # secrets[1 - active_secret]
      /\ rotations \in Nat /\ now \in Nat /\ next_rotate \in Nat /\ now' = now
  BY <1>0 DEF SecretsSound
<1>6. SecretsSound'
  BY <1>1, <1>2, <1>3, <1>4, <1>5 DEF SecretsSound
<1>7. ASSUME NEW t \in handed' PROVE Entry(t)' /\ Aged(t)'
  <2>1. Entry(t) /\ Aged(t)
    BY <1>2 DEF TokenSound
  <2>2. t.at \in Nat /\ t.at <= now /\ t.rotation \in 0..rotations /\ t.token.secret \in Nat
    BY <2>1, <1>5 DEF Entry, Token!Token
  <2>3. Entry(t)'
    BY <2>1, <2>2, <1>2, <1>5 DEF Entry, Token!Token
  <2>4. t.token.secret < rotations' + 2
    BY <2>1, <2>2, <1>2, <1>5 DEF Aged
  <2>5. CASE rotations = t.rotation
    <3>1. t.token.secret = secrets[active_secret]
      BY <2>1, <2>5 DEF Aged
    <3>2. rotations' = t.rotation + 1
      BY <2>5, <1>2
    <3>3. t.token.secret = secrets'[1 - active_secret']
      <4>1. 1 - active_secret' = active_secret
        BY <1>1, <1>5
      <4> QED BY <3>1, <4>1, <1>3
    <3>4. t.at + RotateMin <= next_rotate'
      BY <2>2, <1>4, <1>5
    <3>5. ~(rotations' = t.rotation) /\ ~(rotations' >= t.rotation + 2)
      BY <3>2, <2>2, <1>5
    <3> QED BY <2>3, <2>4, <3>3, <3>4, <3>5 DEF Aged
  <2>6. CASE rotations = t.rotation + 1
    <3>1. /\ t.token.secret = secrets[1 - active_secret] /\ t.at + RotateMin <= next_rotate
          /\ t.token.secret < rotations + 2
      BY <2>1, <2>6 DEF Aged
    <3>2. t.token.secret \notin {secrets'[0], secrets'[1]}
      BY <3>1, <2>2, <1>1, <1>3, <1>5
    <3>3. t.at + RotateMin <= now'
      BY <3>1, <2>2, <1>4, <1>5
    <3>4. ~(rotations' = t.rotation) /\ ~(rotations' = t.rotation + 1)
      BY <2>2, <2>6, <1>2, <1>5
    <3> QED BY <3>2, <3>3, <3>4, <2>3, <2>4 DEF Aged
  <2>7. CASE rotations >= t.rotation + 2
    <3>1. /\ t.token.secret \notin {secrets[0], secrets[1]} /\ t.at + RotateMin <= now
          /\ t.token.secret < rotations + 2
      BY <2>1, <2>7 DEF Aged
    <3>2. t.token.secret \notin {secrets'[0], secrets'[1]}
      BY <3>1, <2>2, <1>1, <1>3, <1>5
    <3>3. ~(rotations' = t.rotation) /\ ~(rotations' = t.rotation + 1)
      BY <2>2, <2>7, <1>2, <1>5
    <3> QED BY <3>1, <3>2, <3>3, <2>3, <2>4, <1>5 DEF Aged
  <2> QED BY <2>2, <2>3, <2>5, <2>6, <2>7, <1>5
<1> QED BY <1>6, <1>7 DEF TokenSound

LEMMA TokenStepSound ==
    ASSUME ServerAssumption, TokenSound, TokenStep
    PROVE  TokenSound'
BY HandsSound, WaitSound, ResetSound, RotateSound DEF TokenStep

-----------------------------------------------------------------------------
(* Stored peers                                                            *)

ListTypes ==
    /\ entries \subseteq Hashes /\ peers \in [Hashes -> SUBSET PeerAddrs]
    /\ announced_at \in [Hashes -> [PeerAddrs -> Nat]] /\ last_update \in [Hashes -> Nat]
    /\ promised \in [Hashes -> [PeerAddrs -> Storage!Times]]
    /\ now \in Nat

\* A peer of the list was promised when it was announced last; whoever was promised a
\* place and still has time is in the list.
Known(h) == \A a \in peers[h] : promised[h][a] # Storage!Never /\ announced_at[h][a] = promised[h][a]
Kept(h) ==
    \A a \in PeerAddrs :
        promised[h][a] # Storage!Never /\ now < promised[h][a] + storage_timeout => a \in peers[h]
Limited(h) ==
    /\ IsFiniteSet(peers[h]) /\ Cardinality(peers[h]) <= max_peers
    /\ (h \in entries) = (peers[h] # {})

HashSound(h) == Known(h) /\ Kept(h) /\ Limited(h)

PeersSound ==
    /\ ListTypes
    /\ IsFiniteSet(entries) /\ Cardinality(entries) <= max_hashes
    /\ \A h \in Hashes : HashSound(h)

LEMMA ListWaits ==
    ASSUME ServerAssumption, PeersSound, now' \in {now, now + 1}, UNCHANGED listVars
    PROVE  PeersSound'
<1>1. ListTypes'
  BY DEF listVars, PeersSound, ListTypes
<1>2. ASSUME NEW h \in Hashes PROVE HashSound(h)'
  <2>1. HashSound(h)
    BY DEF PeersSound
  <2>2. Known(h)' /\ Limited(h)'
    BY <2>1 DEF listVars, HashSound, Known, Limited
  <2>3. Kept(h)'
    <3> SUFFICES ASSUME NEW a \in PeerAddrs, promised[h][a] # Storage!Never,
                        now' < promised[h][a] + storage_timeout
                 PROVE  a \in peers[h]
      BY DEF listVars, Kept
    <3>1. promised[h][a] \in Int /\ now \in Nat /\ storage_timeout \in Nat
      BY DEF PeersSound, ListTypes, Storage!Times, Storage!Never, ServerAssumption,
             Storage!StorageAssumption
    <3>2. now < promised[h][a] + storage_timeout
      BY <3>1
    <3> QED BY <2>1, <3>2 DEF HashSound, Kept
  <2> QED BY <2>2, <2>3 DEF HashSound
<1> QED BY <1>1, <1>2 DEF PeersSound, listVars

LEMMA ClearSound ==
    ASSUME ServerAssumption, PeersSound, now' = now, Storage!Clear
    PROVE  PeersSound'
<1>1. /\ entries' = {} /\ peers' = [h \in Hashes |-> {}]
      /\ promised' = [h \in Hashes |-> [a \in PeerAddrs |-> Storage!Never]]
      /\ announced_at' = announced_at /\ last_update' = last_update
  BY DEF Storage!Clear, Storage!NoPeers, Storage!NoPromises
<1>2. ListTypes'
  BY <1>1 DEF PeersSound, ListTypes, Storage!Times
<1>3. ASSUME NEW h \in Hashes PROVE HashSound(h)'
  <2>1. peers'[h] = {} /\ \A a \in PeerAddrs : promised'[h][a] = Storage!Never
    BY <1>1
  <2>2. Limited(h)'
    BY <1>1, <2>1, FS_EmptySet DEF Limited, ServerAssumption, Storage!StorageAssumption
  <2> QED BY <2>1, <2>2 DEF HashSound, Known, Kept
<1>4. IsFiniteSet({}) /\ Cardinality({}) <= max_hashes
  BY FS_EmptySet DEF ServerAssumption, Storage!StorageAssumption
<1> QED BY <1>1, <1>2, <1>3, <1>4 DEF PeersSound

\* An entry that is too old has no peer left to hand out.
LEMMA TooOldIsEmpty ==
    ASSUME ServerAssumption, PeersSound, NEW h \in Hashes, Storage!TooOld(h)
    PROVE  Storage!Listed(h) = {}
<1> SUFFICES ASSUME NEW a \in Storage!Listed(h) PROVE FALSE
  OBVIOUS
<1>1. a \in peers[h] /\ now < announced_at[h][a] + storage_timeout
  <2>1. a \in peers[h] /\ ~(now >= announced_at[h][a] + storage_timeout)
    BY DEF Storage!Listed, Storage!Expired
  <2>2. announced_at[h][a] \in Nat /\ now \in Nat /\ storage_timeout \in Nat
    BY <2>1 DEF PeersSound, ListTypes, ServerAssumption, Storage!StorageAssumption
  <2> QED BY <2>1, <2>2
<1>2. announced_at[h][a] <= last_update[h] /\ now - last_update[h] >= 2 * storage_timeout
  BY DEF Storage!TooOld
<1>3. /\ announced_at[h][a] \in Nat /\ now \in Nat /\ storage_timeout \in Nat
      /\ last_update[h] \in Nat
  BY <1>1 DEF PeersSound, ListTypes, ServerAssumption, Storage!StorageAssumption
<1> QED BY <1>1, <1>2, <1>3

LEMMA ExpireSound ==
    ASSUME ServerAssumption, PeersSound, now' = now, Storage!Expire
    PROVE  PeersSound'
<1> DEFINE gone == {h \in entries : Storage!Listed(h) = {} \/ Storage!TooOld(h)}
<1>1. /\ entries' = entries \ gone
      /\ peers' = [h \in Hashes |-> IF h \in gone THEN {} ELSE Storage!Listed(h)]
      /\ announced_at' = announced_at /\ last_update' = last_update /\ promised' = promised
  BY DEF Storage!Expire
<1>2. \A h \in Hashes : Storage!Listed(h) \subseteq peers[h] /\ peers[h] \subseteq PeerAddrs
  BY DEF Storage!Listed, PeersSound, ListTypes
<1>3. \A h \in Hashes : peers'[h] = Storage!Listed(h)
  <2> SUFFICES ASSUME NEW h \in Hashes PROVE peers'[h] = Storage!Listed(h)
    OBVIOUS
  <2>1. CASE h \in gone
    <3>1. Storage!Listed(h) = {}
      BY <2>1, TooOldIsEmpty
    <3> QED BY <1>1, <2>1, <3>1
  <2> QED BY <1>1, <2>1
<1>4. gone = {h \in entries : Storage!Listed(h) = {}}
  <2>1. \A h \in entries : Storage!TooOld(h) => Storage!Listed(h) = {}
    BY TooOldIsEmpty DEF PeersSound, ListTypes
  <2> QED BY <2>1
<1> HIDE DEF gone
<1>5. ListTypes'
  <2>1. peers' \in [Hashes -> SUBSET PeerAddrs]
    BY <1>1, <1>2
  <2> QED BY <1>1, <2>1 DEF PeersSound, ListTypes
<1>6. ASSUME NEW h \in Hashes PROVE HashSound(h)'
  <2>1. HashSound(h)
    BY DEF PeersSound
  <2>2. Known(h)'
    BY <1>1, <1>2, <1>3, <2>1 DEF HashSound, Known
  <2>3. Kept(h)'
    <3> SUFFICES ASSUME NEW a \in PeerAddrs, promised[h][a] # Storage!Never,
                        now < promised[h][a] + storage_timeout
                 PROVE  a \in Storage!Listed(h)
      BY <1>1, <1>3 DEF Kept
    <3>1. a \in peers[h] /\ announced_at[h][a] = promised[h][a]
      BY <2>1 DEF HashSound, Kept, Known
    <3>2. announced_at[h][a] \in Nat /\ now \in Nat /\ storage_timeout \in Nat
      BY DEF PeersSound, ListTypes, ServerAssumption, Storage!StorageAssumption
    <3>3. ~(now >= announced_at[h][a] + storage_timeout)
      BY <3>1, <3>2
    <3> QED BY <3>1, <3>3 DEF Storage!Listed, Storage!Expired
  <2>4. Limited(h)'
    <3>1. IsFiniteSet(peers'[h]) /\ Cardinality(peers'[h]) <= max_peers
      <4>1. IsFiniteSet(peers[h]) /\ Cardinality(peers[h]) <= max_peers /\ max_peers \in Nat
        BY <2>1 DEF HashSound, Limited, ServerAssumption, Storage!StorageAssumption
      <4>2. peers'[h] \in SUBSET peers[h]
        BY <1>2, <1>3
      <4>3. /\ IsFiniteSet(peers'[h]) /\ Cardinality(peers'[h]) <= Cardinality(peers[h])
            /\ Cardinality(peers[h]) \in Nat /\ Cardinality(peers'[h]) \in Nat
        BY <4>1, <4>2, FS_Subset, FS_CardinalityType
      <4> QED BY <4>1, <4>3
    <3>2. (h \in entries') = (peers'[h] # {})
      BY <1>1, <1>2, <1>3, <1>4, <2>1 DEF HashSound, Limited
    <3> QED BY <3>1, <3>2 DEF Limited
  <2> QED BY <2>2, <2>3, <2>4 DEF HashSound
<1>7. IsFiniteSet(entries') /\ Cardinality(entries') <= max_hashes
  <2>1. IsFiniteSet(entries) /\ Cardinality(entries) <= max_hashes /\ max_hashes \in Nat
    BY DEF PeersSound, ServerAssumption, Storage!StorageAssumption
  <2>2. entries' \in SUBSET entries
    BY <1>1
  <2>3. /\ IsFiniteSet(entries') /\ Cardinality(entries') <= Cardinality(entries)
        /\ Cardinality(entries) \in Nat /\ Cardinality(entries') \in Nat
    BY <2>1, <2>2, FS_Subset, FS_CardinalityType
  <2> QED BY <2>1, <2>3
<1> QED BY <1>5, <1>6, <1>7 DEF PeersSound

\* The storage's Cardinality is the one of FiniteSets.
LEMMA SameCardinality == \A S : Storage!Cardinality(S) = Cardinality(S)
BY DEF Cardinality, Storage!Cardinality

\* One more peer in the list: it was there, there was place, or an expired one went.
LEMMA PlaceMade ==
    ASSUME ServerAssumption, PeersSound, NEW h \in Hashes, NEW a \in PeerAddrs,
           NEW out \in Storage!MakesPlace(h, a)
    PROVE  LET list == (peers[h] \ out) \cup {a} IN
           /\ list \subseteq PeerAddrs /\ IsFiniteSet(list) /\ Cardinality(list) <= max_peers
           /\ out \subseteq peers[h]
           /\ \A b \in out : now >= announced_at[h][b] + storage_timeout
<1> DEFINE list == (peers[h] \ out) \cup {a}
<1>1. /\ IsFiniteSet(peers[h]) /\ Cardinality(peers[h]) <= max_peers /\ max_peers \in Nat
      /\ peers[h] \subseteq PeerAddrs /\ Cardinality(peers[h]) \in Nat
  BY FS_CardinalityType DEF PeersSound, HashSound, Limited, ListTypes, ServerAssumption,
     Storage!StorageAssumption
<1>2. CASE a \in peers[h]
  <2>1. out = {}
    BY <1>2 DEF Storage!MakesPlace
  <2>2. list = peers[h]
    BY <1>2, <2>1
  <2> QED BY <1>1, <2>1, <2>2
<1>3. CASE a \notin peers[h] /\ Cardinality(peers[h]) < max_peers
  <2>1. out = {}
    <3>1. Storage!MakesPlace(h, a) = {{}}
      BY <1>3, SameCardinality DEF Storage!MakesPlace
    <3> QED BY <3>1
  <2>2. list = peers[h] \cup {a}
    BY <2>1
  <2>3. IsFiniteSet(list) /\ Cardinality(list) = Cardinality(peers[h]) + 1
    BY <1>1, <1>3, <2>2, FS_AddElement
  <2>4. Cardinality(list) <= max_peers
    BY <1>1, <1>3, <2>3
  <2> QED BY <1>1, <2>1, <2>2, <2>3, <2>4
<1>4. CASE a \notin peers[h] /\ ~(Cardinality(peers[h]) < max_peers)
  <2> PICK v \in peers[h] \ Storage!Listed(h) : out = {v}
    <3>1. Storage!MakesPlace(h, a) = {{v} : v \in peers[h] \ Storage!Listed(h)}
      BY <1>4, SameCardinality DEF Storage!MakesPlace
    <3> QED BY <3>1
  <2> DEFINE rest == peers[h] \ {v}
  <2>1. IsFiniteSet(rest) /\ Cardinality(rest) = Cardinality(peers[h]) - 1
    BY <1>1, FS_RemoveElement
  <2>2. a \notin rest
    BY <1>4
  <2>3. list = rest \cup {a}
    OBVIOUS
  <2> HIDE DEF rest
  <2>4. IsFiniteSet(list) /\ Cardinality(list) = Cardinality(rest) + 1
    BY <2>1, <2>2, <2>3, FS_AddElement
  <2>5. Cardinality(list) <= max_peers
    BY <1>1, <2>1, <2>4
  <2>6. now >= announced_at[h][v] + storage_timeout
    BY DEF Storage!Listed, Storage!Expired
  <2> QED BY <1>1, <2>4, <2>5, <2>6
<1> QED BY <1>2, <1>3, <1>4

LEMMA AnnounceSound ==
    ASSUME ServerAssumption, PeersSound, now' = now, NEW h \in Hashes, NEW a \in PeerAddrs,
           Storage!Announce(h, a)
    PROVE  PeersSound'
<1> PICK out \in Storage!MakesPlace(h, a) :
        peers' = [peers EXCEPT ![h] = (@ \ out) \cup {a}]
  BY DEF Storage!Announce, Storage!Stored
<1> DEFINE list == (peers[h] \ out) \cup {a}
<1>1. /\ list \subseteq PeerAddrs /\ IsFiniteSet(list) /\ Cardinality(list) <= max_peers
      /\ out \subseteq peers[h]
      /\ \A b \in out : now >= announced_at[h][b] + storage_timeout
  BY PlaceMade
<1>2. /\ list # {} /\ a \in list /\ \A b \in list : b # a => b \in peers[h]
      /\ \A b \in peers[h] : b \in list \/ b \in out
  OBVIOUS
<1>3. peers' = [peers EXCEPT ![h] = list]
  OBVIOUS
<1> HIDE DEF list
<1>4. /\ entries' = entries \cup {h}
      /\ announced_at' = [announced_at EXCEPT ![h][a] = now]
      /\ last_update' = [last_update EXCEPT ![h] = now]
      /\ promised' = [promised EXCEPT ![h][a] = now]
      /\ h \in entries \/ Cardinality(entries) < max_hashes
  <2>1. Storage!CanAnnounce(h, a) /\ Storage!Stored(h, a)
    BY DEF Storage!Announce
  <2>2. h \in entries \/ Cardinality(entries) < max_hashes
    BY <2>1, SameCardinality DEF Storage!CanAnnounce
  <2> QED BY <2>1, <2>2 DEF Storage!Stored
<1>5. ListTypes
  BY DEF PeersSound
<1>6. ListTypes'
  <2>1. peers' \in [Hashes -> SUBSET PeerAddrs]
    BY <1>1, <1>3, <1>5 DEF ListTypes
  <2>2. announced_at' \in [Hashes -> [PeerAddrs -> Nat]]
    BY <1>4, <1>5 DEF ListTypes
  <2>3. promised' \in [Hashes -> [PeerAddrs -> Storage!Times]]
    BY <1>4, <1>5 DEF ListTypes, Storage!Times
  <2> QED BY <1>4, <1>5, <2>1, <2>2, <2>3 DEF ListTypes
<1>7. ASSUME NEW g \in Hashes, g # h PROVE HashSound(g)'
  <2>1. /\ peers'[g] = peers[g] /\ announced_at'[g] = announced_at[g]
        /\ promised'[g] = promised[g] /\ (g \in entries' <=> g \in entries)
    BY <1>3, <1>4, <1>5, <1>7 DEF ListTypes
  <2>2. HashSound(g)
    BY DEF PeersSound
  <2> QED BY <2>1, <2>2 DEF HashSound, Known, Kept, Limited
<1>8. HashSound(h)'
  <2>0. HashSound(h)
    BY DEF PeersSound
  <2>1. peers'[h] = list /\ h \in entries'
    BY <1>3, <1>4, <1>5 DEF ListTypes
  <2>2. /\ announced_at'[h][a] = now /\ promised'[h][a] = now
        /\ \A b \in PeerAddrs : b # a => /\ announced_at'[h][b] = announced_at[h][b]
                                         /\ promised'[h][b] = promised[h][b]
    BY <1>4, <1>5 DEF ListTypes
  <2>3. Known(h)'
    <3> SUFFICES ASSUME NEW b \in list
                 PROVE  promised'[h][b] # Storage!Never /\ announced_at'[h][b] = promised'[h][b]
      BY <2>1 DEF Known
    <3>1. CASE b = a
      BY <3>1, <2>2, <1>5 DEF ListTypes, Storage!Never
    <3>2. CASE b # a
      BY <3>2, <2>0, <2>2, <1>1, <1>2 DEF HashSound, Known
    <3> QED BY <3>1, <3>2
  <2>4. Kept(h)'
    <3> SUFFICES ASSUME NEW b \in PeerAddrs, promised'[h][b] # Storage!Never,
                        now < promised'[h][b] + storage_timeout
                 PROVE  b \in list
      BY <2>1 DEF Kept
    <3>1. CASE b = a
      BY <3>1, <1>2
    <3>2. CASE b # a
      <4>1. b \in peers[h] /\ announced_at[h][b] = promised[h][b]
            /\ now < announced_at[h][b] + storage_timeout
        BY <3>2, <2>0, <2>2 DEF HashSound, Kept, Known
      <4>2. b \notin out
        <5>1. announced_at[h][b] \in Nat /\ now \in Nat /\ storage_timeout \in Nat
          BY <1>5 DEF ListTypes, ServerAssumption, Storage!StorageAssumption
        <5> QED BY <4>1, <5>1, <1>1
      <4> QED BY <4>1, <4>2, <1>2
    <3> QED BY <3>1, <3>2
  <2>5. Limited(h)'
    BY <2>1, <1>1, <1>2 DEF Limited
  <2> QED BY <2>3, <2>4, <2>5 DEF HashSound
<1>9. IsFiniteSet(entries') /\ Cardinality(entries') <= max_hashes
  <2>1. /\ IsFiniteSet(entries) /\ Cardinality(entries) <= max_hashes /\ max_hashes \in Nat
        /\ Cardinality(entries) \in Nat
    BY FS_CardinalityType DEF PeersSound, ServerAssumption, Storage!StorageAssumption
  <2>2. /\ IsFiniteSet(entries')
        /\ Cardinality(entries') = IF h \in entries THEN Cardinality(entries)
                                   ELSE Cardinality(entries) + 1
    BY <1>4, <2>1, FS_AddElement
  <2> QED BY <1>4, <2>1, <2>2
<1> QED BY <1>6, <1>7, <1>8, <1>9 DEF PeersSound

LEMMA StorageStepSound ==
    ASSUME ServerAssumption, PeersSound, StorageStep
    PROVE  PeersSound'
BY ListWaits, ClearSound, ExpireSound, AnnounceSound DEF StorageStep

LEMMA InitSound ==
    ASSUME ServerAssumption, Init
    PROVE  TokenSound /\ PeersSound
<1>1. TokenSound
  <2>1. /\ now = 0 /\ secrets = [s \in 0..1 |-> s] /\ active_secret = 0 /\ rotations = 0
        /\ handed = {}
    BY DEF Init, Token!Init
  <2>2. next_rotate \in Nat
    BY <2>1 DEF Init, Token!Init, ServerAssumption, Token!TokenAssumption
  <2> QED BY <2>1, <2>2 DEF TokenSound, SecretsSound
<1>2. PeersSound
  <2>1. /\ entries = {} /\ peers = [h \in Hashes |-> {}] /\ now = 0
        /\ announced_at = [h \in Hashes |-> [a \in PeerAddrs |-> 0]]
        /\ last_update = [h \in Hashes |-> 0]
        /\ promised = [h \in Hashes |-> [a \in PeerAddrs |-> Storage!Never]]
    BY DEF Init, Storage!Init, Storage!NoPeers, Storage!NoTimes, Storage!NoPromises
  <2>2. ListTypes
    BY <2>1 DEF ListTypes, Storage!Times
  <2>3. IsFiniteSet({}) /\ Cardinality({}) = 0 /\ max_hashes \in Nat /\ max_peers \in Nat
    BY FS_EmptySet DEF ServerAssumption, Storage!StorageAssumption
  <2>4. \A h \in Hashes : HashSound(h)
    BY <2>1, <2>3 DEF HashSound, Known, Kept, Limited
  <2> QED BY <2>1, <2>2, <2>3, <2>4 DEF PeersSound
<1> QED BY <1>1, <1>2

-----------------------------------------------------------------------------
(* What is answered                                                        *)

LEMMA ReplyFields ==
    /\ NoReply.kind = "none" /\ NoReply.values = {}
    /\ \A k, to, values : LET r == Reply(k, to, values) IN
          r.kind = k /\ r.to = to /\ r.values = values
    /\ \A k, to, values, token : LET r == [Reply(k, to, values) EXCEPT !.token = token] IN
          r.kind = k /\ r.to = to /\ r.values = values /\ r.token = token
<1> PICK none, forged : NoReply = [kind |-> "none", to |-> none, values |-> {}, token |-> forged]
  BY DEF NoReply
<1>1. ASSUME NEW k, NEW to, NEW values
      PROVE  Reply(k, to, values) = [kind |-> k, to |-> to, values |-> values, token |-> forged]
  <2>1. Reply(k, to, values) = [NoReply EXCEPT !.kind = k, !.to = to, !.values = values]
    BY DEF Reply
  <2> QED BY <2>1
<1> QED BY <1>1

\* The answer to a message that is handled, by the message.
LEMMA Answer ==
    ASSUME ServerAssumption, NEW from \in Senders, NEW m \in Messages(from), Process(m)
    PROVE  /\ reply'.kind = "bad_token" =>
                /\ ~Token!Accepts(m.from.host, m.token)
                /\ reply'.to = m.from /\ reply'.token = m.token
           /\ reply'.kind = "peers" => m.hash \in Hashes /\ reply'.values \in Values(m.hash)
<1>1. CASE Ignored
  BY <1>1, ReplyFields DEF Ignored
<1>2. CASE Handles(m) /\ m.type # "other"
  <2>1. CASE m.type = "ping"
    BY <1>2, <2>1, ReplyFields DEF Handles, Ping
  <2>2. CASE m.type = "find_node"
    BY <1>2, <2>2, ReplyFields DEF Handles, FindNode
  <2>3. CASE m.type = "response"
    BY <1>2, <2>3, ReplyFields DEF Handles, Response
  <2>4. CASE m.type = "get_peers"
    <3>1. GetPeers(m)
      BY <1>2, <2>4 DEF Handles
    <3>2. \E v \in Values(m.hash) : reply' = Reply("peers", m.from, v)
      BY <3>1 DEF GetPeers
    <3> QED BY <3>2, <2>4, ReplyFields, SenderAddress
  <2>5. CASE m.type = "announce_peer"
    <3>1. AnnouncePeer(m)
      BY <1>2, <2>5 DEF Handles
    <3>2. IF ~Token!Accepts(m.from.host, m.token)
          THEN reply' = [Reply("bad_token", m.from, {}) EXCEPT !.token = m.token]
          ELSE reply' = Reply("pong", m.from, {})
      BY <3>1 DEF AnnouncePeer
    <3>3. CASE Token!Accepts(m.from.host, m.token)
      <4>1. reply' = Reply("pong", m.from, {})
        BY <3>2, <3>3
      <4> QED BY <4>1, ReplyFields
    <3>4. CASE ~Token!Accepts(m.from.host, m.token)
      <4>1. reply' = [Reply("bad_token", m.from, {}) EXCEPT !.token = m.token]
        BY <3>2, <3>4
      <4>2. reply'.kind = "bad_token" /\ reply'.to = m.from /\ reply'.token = m.token
        BY <4>1, ReplyFields
      <4> QED BY <4>2, <3>4
    <3> QED BY <3>3, <3>4
  <2> QED BY <1>2, <2>1, <2>2, <2>3, <2>4, <2>5, SenderAddress
<1> QED BY <1>1, <1>2 DEF Process

\* Only a message is received.
LEMMA OnlyProcessReceives ==
    ASSUME [Next]_vars, received' # received
    PROVE  \E from \in Senders : \E m \in Messages(from) : Process(m)
<1> SUFFICES ASSUME ~(\E from \in Senders : \E m \in Messages(from) : Process(m))
             PROVE  UNCHANGED received
  OBVIOUS
<1>1. ASSUME StartWorks \/ Stop \/ \E i \in 1..(Len(Order) + 1) : StartFails(i)
      PROVE  UNCHANGED received
  BY <1>1 DEF StartWorks, Stop, StartFails, netVars
<1>2. ASSUME NEW h \in Hashes, NEW p \in AnnouncedPorts \ {0}, Announce(h, p)
      PROVE  UNCHANGED received
  BY <1>2 DEF Announce
<1>3. ASSUME NewSearch \/ Bootstrap \/ Periodic \/ Tick \/ UNCHANGED vars
      PROVE  UNCHANGED received
  BY <1>3 DEF NewSearch, Bootstrap, Periodic, Tick, vars, netVars
<1> QED BY <1>1, <1>2, <1>3 DEF Next, LookUpPeers, LookUpNode

\* A token is accepted as long as its secret is one of the two.
LEMMA AcceptedByAge ==
    ASSUME TokenSound
    PROVE  Token!AcceptedOnce
<1> SUFFICES ASSUME NEW t \in handed
             PROVE  Token!Accepts(t.token.addr, t.token) <=> rotations - t.rotation <= 1
  BY DEF Token!AcceptedOnce
<1>1. Entry(t) /\ Aged(t) /\ SecretsSound
  BY DEF TokenSound
<1>2. /\ t.token.addr \in IPv4 /\ t.token.secret \in Nat
      /\ t.token = [addr |-> t.token.addr, secret |-> t.token.secret]
  BY <1>1 DEF Entry, Token!Token
<1>3. Token!Accepts(t.token.addr, t.token) <=>
        t.token.secret = secrets[0] \/ t.token.secret = secrets[1]
  <2>1. \A s \in 0..1 : t.token = Token!Compute(t.token.addr, secrets[s])
                            <=> t.token.secret = secrets[s]
    BY <1>2 DEF Token!Compute
  <2>2. 0 \in 0..1 /\ 1 \in 0..1 /\ \A s \in 0..1 : s = 0 \/ s = 1
    OBVIOUS
  <2> QED BY <1>2, <2>1, <2>2 DEF Token!Accepts
<1>4. /\ rotations \in Nat /\ t.rotation \in 0..rotations /\ active_secret \in 0..1
  BY <1>1 DEF Entry, SecretsSound
<1>5. CASE rotations = t.rotation
  BY <1>1, <1>3, <1>4, <1>5 DEF Aged
<1>6. CASE rotations = t.rotation + 1
  BY <1>1, <1>3, <1>4, <1>6 DEF Aged
<1>7. CASE rotations >= t.rotation + 2
  BY <1>1, <1>3, <1>4, <1>7 DEF Aged
<1> QED BY <1>4, <1>5, <1>6, <1>7

LEMMA RefusalsSound ==
    ASSUME ServerAssumption, TokenSound, [Next]_vars, received' # received
    PROVE  RefusesToken
<1> SUFFICES ASSUME reply'.kind = "bad_token", NEW t \in handed,
                    t.token = reply'.token, t.token.addr = reply'.to.host
             PROVE  now >= t.at + RotateMin
  BY DEF RefusesToken
<1> PICK from \in Senders : \E m \in Messages(from) : Process(m)
  BY OnlyProcessReceives
<1> PICK m \in Messages(from) : Process(m)
  OBVIOUS
<1>1. ~Token!Accepts(t.token.addr, t.token)
  BY Answer
<1>2. ~(rotations - t.rotation <= 1)
  BY <1>1, AcceptedByAge DEF Token!AcceptedOnce
<1>3. Entry(t) /\ Aged(t) /\ rotations \in Nat /\ now \in Nat /\ t.rotation \in Nat
      /\ t.at \in Nat /\ RotateMin \in Nat
  BY DEF TokenSound, SecretsSound, Entry, ServerAssumption, Token!TokenAssumption
<1>4. t.at + RotateMin <= now
  BY <1>2, <1>3 DEF Aged
<1> QED BY <1>3, <1>4

\* What is handed out is what was promised and still has time.
Live(h) ==
    {a \in PeerAddrs : promised[h][a] # Storage!Never /\ now < promised[h][a] + storage_timeout}

LEMMA ListedIsLive ==
    ASSUME ServerAssumption, PeersSound, NEW h \in Hashes
    PROVE  Storage!Listed(h) = Live(h)
<1>1. HashSound(h) /\ peers[h] \subseteq PeerAddrs
  BY DEF PeersSound, ListTypes
<1>2. ASSUME NEW a \in PeerAddrs PROVE a \in Storage!Listed(h) <=> a \in Live(h)
  <2>1. /\ announced_at[h][a] \in Nat /\ now \in Nat /\ storage_timeout \in Nat
        /\ promised[h][a] \in Int
    BY DEF PeersSound, ListTypes, ServerAssumption, Storage!StorageAssumption, Storage!Times,
           Storage!Never
  <2>2. a \in Storage!Listed(h) <=> a \in peers[h] /\ now < announced_at[h][a] + storage_timeout
    BY <2>1 DEF Storage!Listed, Storage!Expired
  <2> QED BY <1>1, <2>2 DEF HashSound, Known, Kept, Live
<1> QED BY <1>1, <1>2 DEF Storage!Listed, Live

LEMMA AnswersSound ==
    ASSUME ServerAssumption, PeersSound, [Next]_vars, received' # received
    PROVE  Answers
<1> SUFFICES ASSUME reply'.kind = "peers"
             PROVE  \E h \in Hashes : /\ reply'.values \subseteq Live(h)
                                      /\ \/ reply'.values = Live(h)
                                         \/ Cardinality(reply'.values) = MaxValues
  BY DEF Answers, Live
<1> PICK from \in Senders : \E m \in Messages(from) : Process(m)
  BY OnlyProcessReceives
<1> PICK m \in Messages(from) : Process(m)
  OBVIOUS
<1>1. m.hash \in Hashes /\ reply'.values \in Values(m.hash)
  BY Answer
<1>2. Storage!Listed(m.hash) = Live(m.hash)
  BY <1>1, ListedIsLive
<1>3. CASE Cardinality(Live(m.hash)) <= MaxValues
  BY <1>1, <1>2, <1>3 DEF Values
<1>4. CASE ~(Cardinality(Live(m.hash)) <= MaxValues)
  BY <1>1, <1>2, <1>4 DEF Values, kSubset
<1> QED BY <1>3, <1>4

LEMMA StorageInvariants ==
    ASSUME ServerAssumption, PeersSound
    PROVE  Storage!LiveListed /\ Storage!OnlyLiveListed
<1>1. \A h \in Hashes : HashSound(h) /\ Storage!Listed(h) = Live(h)
  BY ListedIsLive DEF PeersSound
<1>2. Storage!LiveListed
  BY <1>1 DEF Storage!LiveListed, Live, HashSound, Limited, Storage!Listed
<1>3. Storage!OnlyLiveListed
  BY <1>1, SameCardinality DEF Storage!OnlyLiveListed, Live, HashSound, Limited, PeersSound
<1> QED BY <1>2, <1>3

-----------------------------------------------------------------------------
(* The checks of a message's source                                        *)

LEMMA SameCount == \A S : Security!Cardinality(S) = Cardinality(S)
BY DEF Cardinality, Security!Cardinality

SecurityTypes == Security!TypeOK /\ IsFiniteSet(blacklist) /\ IsFiniteSet(rated) /\ now \in Nat

\* A bucket holds whole permits, however long an address was silent.
LEMMA RefilledPermits ==
    ASSUME Security!SecurityAssumption, SecurityTypes, NEW a \in Senders,
           a \in rated => last_refill[a] <= now
    PROVE  /\ Security!Refilled(a) \in 0..RatePerIp
           /\ a \in rated => Security!Refilled(a) <= tokens[a] + (now - last_refill[a])
<1>1. RatePerIp \in Nat \ {0} /\ tokens[a] \in 0..RatePerIp /\ last_refill[a] \in Nat /\ now \in Nat
  BY DEF Security!SecurityAssumption, SecurityTypes, Security!TypeOK
<1>2. CASE a \in rated
  <2>1. Security!Refilled(a) = Security!Least(RatePerIp, tokens[a] + (now - last_refill[a]))
    BY <1>2 DEF Security!Refilled
  <2> QED BY <1>1, <1>2, <2>1 DEF Security!Least
<1>3. CASE a \notin rated
  BY <1>1, <1>3 DEF Security!Refilled
<1> QED BY <1>2, <1>3

\* The refill times are in the past.
Refills == \A a \in rated : last_refill[a] <= now

LEMMA CountTypes ==
    ASSUME Security!SecurityAssumption, SecurityTypes, Refills, NEW a \in Senders,
           Security!CountMessage(a), now' = now
    PROVE  /\ rated' \subseteq Senders /\ IsFiniteSet(rated') /\ Cardinality(rated') <= MaxRateEntries
           /\ tokens' \in [Senders -> 0..RatePerIp] /\ last_refill' \in [Senders -> Nat]
           /\ Refills'
<1> USE DEF SecurityTypes, Security!TypeOK
<1>0. RatePerIp \in Nat \ {0} /\ MaxRateEntries \in Nat
  BY DEF Security!SecurityAssumption
<1>1. CASE ~Security!Limited(a)
  <2>1. UNCHANGED <<rated, tokens, last_refill>>
    BY <1>1 DEF Security!CountMessage
  <2> QED BY <2>1, SameCount DEF Refills
<1>2. CASE Security!Limited(a)
  <2>1. /\ rated' = rated \cup {a}
        /\ tokens' = [tokens EXCEPT ![a] = IF Security!Permitted(a) THEN Security!Refilled(a) - 1 ELSE 0]
        /\ last_refill' = [last_refill EXCEPT ![a] = now]
    BY <1>2 DEF Security!CountMessage
  <2>2. (IF Security!Permitted(a) THEN Security!Refilled(a) - 1 ELSE 0) \in 0..RatePerIp
    <3>1. Security!Refilled(a) \in 0..RatePerIp
      BY RefilledPermits DEF Refills
    <3>2. Security!Permitted(a) <=> Security!Refilled(a) > 0
      BY <1>2 DEF Security!Permitted
    <3> QED BY <1>0, <3>1, <3>2
  <2>3. IsFiniteSet(rated') /\ Cardinality(rated') <= MaxRateEntries
    <3>1. a \in rated \/ Cardinality(rated) < MaxRateEntries
      BY <1>2, SameCount DEF Security!Limited
    <3>2. Cardinality(rated) \in Nat /\ Cardinality(rated) <= MaxRateEntries
      BY FS_CardinalityType, SameCount
    <3>3. /\ IsFiniteSet(rated \cup {a})
          /\ Cardinality(rated \cup {a}) = IF a \in rated THEN Cardinality(rated) ELSE Cardinality(rated) + 1
      BY FS_AddElement
    <3> QED BY <1>0, <2>1, <3>1, <3>2, <3>3
  <2>4. tokens' \in [Senders -> 0..RatePerIp] /\ last_refill' \in [Senders -> Nat]
    BY <2>1, <2>2
  <2>5. Refills'
    BY <2>1 DEF Refills
  <2> QED BY <2>1, <2>3, <2>4, <2>5
<1> QED BY <1>1, <1>2

\* Each subnet's counter counts.
LEMMA ChargedTypes ==
    ASSUME Security!SecurityAssumption, NEW counts \in [Security!Subnets -> Nat],
           NEW addrs, IsFiniteSet(addrs)
    PROVE  Charged(counts, addrs) \in [Security!Subnets -> Nat]
<1> SUFFICES ASSUME NEW s \in Security!Subnets
             PROVE  LET heard == {a \in addrs : Subnet[a] = s /\ Takes(counts, a)} IN
                    (IF heard = {} THEN counts[s]
                     ELSE Security!Least(MaxPerSubnet, counts[s] + Cardinality(heard))) \in Nat
  BY DEF Charged
<1> DEFINE heard == {a \in addrs : Subnet[a] = s /\ Takes(counts, a)}
<1>1. heard \subseteq addrs
  OBVIOUS
<1> HIDE DEF heard
<1>2. Cardinality(heard) \in Nat
  BY <1>1, FS_Subset, FS_CardinalityType
<1>3. MaxPerSubnet \in Nat /\ counts[s] \in Nat
  BY DEF Security!SecurityAssumption
<1>4. (IF heard = {} THEN counts[s]
       ELSE Security!Least(MaxPerSubnet, counts[s] + Cardinality(heard))) \in Nat
  BY <1>2, <1>3 DEF Security!Least
<1> QED BY <1>4 DEF heard

-----------------------------------------------------------------------------
(* Types                                                                   *)

NodeTypes ==
    /\ state \in {"STOPPED", "RUNNING", "ERROR"} /\ parts \subseteq Parts
    /\ nodes \subseteq Senders /\ searches \in 0..MaxSearches
    /\ next_periodic \in Nat /\ bootstrap_count \in 0..1 /\ last_bootstrap \in Nat
    /\ received \in 0..MaxMessages /\ reply.values \subseteq PeerAddrs
    /\ held \subseteq [addr : Hosts, secret : Int] /\ seen \subseteq Senders
FileTypes == lines \subseteq Hashes \X PeerAddrs /\ file \subseteq Hashes \X PeerAddrs

ServerTypes == NodeTypes /\ FileTypes /\ SecurityTypes /\ Refills

LEMMA TypesTogether ==
    ASSUME TokenSound, PeersSound, ServerTypes
    PROVE  TypeOK
<1>1. Token!TypeOK
  BY DEF TokenSound, SecretsSound, Entry, Token!TypeOK
<1>2. Storage!TypeOK
  BY DEF PeersSound, ListTypes, ServerTypes, FileTypes, Storage!TypeOK
<1>3. Security!TypeOK
  BY DEF ServerTypes, SecurityTypes
<1> QED BY <1>1, <1>2, <1>3 DEF ServerTypes, NodeTypes, TypeOK

\* A new or emptied security.
LEMMA ResetTypes ==
    ASSUME Security!SecurityAssumption, SecurityTypes, Security!Reset, now' = now
    PROVE  SecurityTypes' /\ Refills'
<1>1. /\ blacklist' = {} /\ rated' = {} /\ sybil' = [s \in Security!Subnets |-> 0]
      /\ granted' = [a \in Senders |-> <<>>] /\ UNCHANGED <<expires_at, tokens, last_refill>>
  BY DEF Security!Reset
<1>2. IsFiniteSet({}) /\ Cardinality({}) = 0 /\ <<>> \in Seq(Nat)
  BY FS_EmptySet
<1>3. max_blacklist \in Nat /\ MaxRateEntries \in Nat
  BY DEF Security!SecurityAssumption
<1> QED BY <1>1, <1>2, <1>3, SameCount DEF SecurityTypes, Security!TypeOK, Refills

LEMMA ExpiryTypes ==
    ASSUME Security!SecurityAssumption, SecurityTypes, Refills, Security!BlacklistExpire, now' = now
    PROVE  SecurityTypes' /\ Refills'
<1>1. /\ blacklist' \subseteq blacklist
      /\ UNCHANGED <<expires_at, rated, tokens, last_refill, granted, sybil>>
  BY DEF Security!BlacklistExpire, Security!rateVars
<1>2. IsFiniteSet(blacklist') /\ Cardinality(blacklist') <= Cardinality(blacklist)
      /\ Cardinality(blacklist') \in Nat /\ Cardinality(blacklist) \in Nat
  BY <1>1, FS_Subset, FS_CardinalityType DEF SecurityTypes
<1>3. max_blacklist \in Nat
  BY DEF Security!SecurityAssumption
<1>4. Cardinality(blacklist') <= max_blacklist
  BY <1>2, <1>3, SameCount DEF SecurityTypes, Security!TypeOK
<1> QED BY <1>1, <1>2, <1>4, SameCount DEF SecurityTypes, Security!TypeOK, Refills

\* A message tells of known addresses.
LEMMA ToldSenders ==
    ASSUME ServerAssumption, NEW from \in Senders, NEW m \in Messages(from)
    PROVE  m.told \subseteq Senders /\ IsFiniteSet(m.told)
<1> PICK hs, tk : Message = [type |-> "other", from |-> None, hash |-> hs,
                             token |-> tk, port |-> 0, told |-> {}]
  BY DEF Message
<1>1. ASSUME NEW t
      PROVE  Plain(from, t) = [type |-> t, from |-> from, hash |-> hs, token |-> tk,
                               port |-> 0, told |-> {}]
  <2>1. Plain(from, t) = [Message EXCEPT !.from = from, !.type = t]
    BY DEF Plain
  <2> QED BY <2>1
<1>2. \A t : Plain(from, t).told = {}
  BY <1>1
<1>3. \A told : Telling(from, told).told = told
  BY <1>1 DEF Telling
<1>4. \A h : Asking(from, h).told = {}
  BY <1>1 DEF Asking
<1>5. \A h, t, p : Announcing(from, h, t, p).told = {}
  BY <1>1 DEF Announcing
<1>6. m.told = {} \/ \E a \in Told : m.told = {a}
  <2> DEFINE A == {Plain(from, t) : t \in {"ping", "find_node", "other"}}
             B == {Telling(from, told) : told \in {{}} \cup {{a} : a \in Told}}
             C == {Asking(from, h) : h \in Hashes}
             D == {Announcing(from, h, t, p) :
                     h \in Hashes, t \in held \cup {Forged(from.host)}, p \in AnnouncedPorts}
  <2>1. Messages(from) = A \cup B \cup C \cup D
    BY DEF Messages
  <2>2. m \in A => m.told = {}
    BY <1>2
  <2>3. m \in B => m.told = {} \/ \E a \in Told : m.told = {a}
    BY <1>3
  <2>4. m \in C => m.told = {}
    BY <1>4
  <2>5. m \in D => m.told = {}
    BY <1>5
  <2> HIDE DEF A, B, C, D
  <2> QED BY <2>1, <2>2, <2>3, <2>4, <2>5
<1>7. IsFiniteSet({}) /\ \A a : IsFiniteSet({a})
  BY FS_EmptySet, FS_Singleton
<1> QED BY <1>6, <1>7 DEF ServerAssumption

\* The tokens a node hands out name hosts.
LEMMA TokenTypes ==
    ASSUME ServerAssumption, TokenSound
    PROVE  /\ \A h \in Hosts : Forged(h) \in [addr : Hosts, secret : Int]
           /\ \A h \in IPv4 : Token!Compute(h, secrets[active_secret]) \in [addr : Hosts, secret : Int]
<1>1. IPv4 \subseteq Hosts
  BY DEF ServerAssumption, Token!TokenAssumption
<1>2. secrets[active_secret] \in Int
  BY DEF TokenSound, SecretsSound
<1>3. ASSUME NEW h \in Hosts PROVE Forged(h) \in [addr : Hosts, secret : Int]
  BY DEF Forged
<1> QED BY <1>1, <1>2, <1>3 DEF Token!Compute

\* What a node answers, hands out and counts when it processes a message.
LEMMA HandledTypes ==
    ASSUME ServerAssumption, TokenSound, PeersSound, ServerTypes,
           NEW from \in Senders, NEW m \in Messages(from), Handles(m), m.type # "other"
    PROVE  /\ reply'.values \subseteq PeerAddrs
           /\ held' \subseteq [addr : Hosts, secret : Int]
           /\ FileTypes'
<1>0. /\ held \subseteq [addr : Hosts, secret : Int]
      /\ m.from.host \in Hosts /\ m.type \in {"ping", "find_node", "other", "response", "get_peers", "announce_peer"}
  BY SenderAddress DEF ServerTypes, NodeTypes
<1>a. UNCHANGED storageVars => FileTypes'
  BY DEF ServerTypes, FileTypes, storageVars
<1>1. CASE m.type = "ping"
  BY <1>0, <1>a, <1>1, ReplyFields DEF Handles, Ping
<1>2. CASE m.type = "find_node"
  BY <1>0, <1>a, <1>2, ReplyFields DEF Handles, FindNode
<1>3. CASE m.type = "response"
  BY <1>0, <1>a, <1>3, ReplyFields DEF Handles, Response
<1>4. CASE m.type = "get_peers"
  <2>1. GetPeers(m)
    BY <1>4 DEF Handles
  <2>2. PICK v \in Values(m.hash) : reply' = Reply("peers", m.from, v)
    BY <2>1 DEF GetPeers
  <2>3. m.hash \in Hashes
    BY <1>4, SenderAddress
  <2>4. v \subseteq Storage!Listed(m.hash)
    BY DEF Values, kSubset
  <2>5. v \subseteq PeerAddrs
    BY <2>3, <2>4 DEF Storage!Listed, PeersSound, ListTypes
  <2>6. held' \subseteq [addr : Hosts, secret : Int]
    BY <1>0, <2>1, TokenTypes DEF GetPeers
  <2> QED BY <1>a, <2>1, <2>2, <2>5, <2>6, ReplyFields DEF GetPeers
<1>5. CASE m.type = "announce_peer"
  <2>1. AnnouncePeer(m)
    BY <1>5 DEF Handles
  <2>2. UNCHANGED held
    BY <2>1 DEF AnnouncePeer
  <2>3. reply'.values = {}
    <3>1. \/ reply' = [Reply("bad_token", m.from, {}) EXCEPT !.token = m.token]
          \/ reply' = Reply("pong", m.from, {})
      BY <2>1 DEF AnnouncePeer
    <3>2. CASE reply' = [Reply("bad_token", m.from, {}) EXCEPT !.token = m.token]
      <4> DEFINE r == [Reply("bad_token", m.from, {}) EXCEPT !.token = m.token]
      <4>1. r.values = {}
        BY ReplyFields
      <4> HIDE DEF r
      <4>2. reply' = r
        BY <3>2 DEF r
      <4> QED BY <4>1, <4>2
    <3>3. CASE reply' = Reply("pong", m.from, {})
      BY <3>3, ReplyFields
    <3> QED BY <3>1, <3>2, <3>3
  <2>4. FileTypes'
    <3> DEFINE peer == Address(m.from.host, IF m.port = 0 THEN m.from.port ELSE m.port)
    <3>1. UNCHANGED storageVars \/ Storage!Announce(m.hash, peer)
      BY <2>1 DEF AnnouncePeer
    <3>2. m.hash \in Hashes /\ peer \in PeerAddrs
      BY <1>5, SenderAddress
    <3> HIDE DEF peer
    <3> QED BY <1>a, <3>1, <3>2 DEF Storage!Announce, ServerTypes, FileTypes
  <2> QED BY <1>0, <2>2, <2>3, <2>4
<1> QED BY <1>0, <1>1, <1>2, <1>3, <1>4, <1>5

LEMMA NodesAdded ==
    ASSUME ServerAssumption, ServerTypes,
           NEW from \in Senders, NEW m \in Messages(from), AddNodes(from, m.told)
    PROVE  sybil' \in [Security!Subnets -> Nat] /\ seen' \subseteq Senders /\ nodes' \subseteq Senders
<1> DEFINE before == Charged(sybil, {from})
           taken == {a \in {from} : Takes(sybil, a)} \cup {a \in m.told : Takes(before, a)}
<1>1. m.told \subseteq Senders /\ IsFiniteSet(m.told) /\ IsFiniteSet({from})
  BY ToldSenders, FS_Singleton
<1>2. sybil \in [Security!Subnets -> Nat] /\ Security!SecurityAssumption
  BY DEF ServerTypes, SecurityTypes, Security!TypeOK, ServerAssumption
<1>3. before \in [Security!Subnets -> Nat]
  BY <1>1, <1>2, ChargedTypes
<1>4. sybil' = Charged(before, m.told) /\ seen' = seen \cup taken
      /\ \E kept \in SUBSET (taken \ nodes) : nodes' = nodes \cup kept
  BY DEF AddNodes
<1>5. taken \subseteq Senders
  BY <1>1
<1> HIDE DEF before, taken
<1>6. sybil' \in [Security!Subnets -> Nat]
  BY <1>1, <1>2, <1>3, <1>4, ChargedTypes
<1> QED BY <1>4, <1>5, <1>6 DEF ServerTypes, NodeTypes

LEMMA ProcessTypes ==
    ASSUME ServerAssumption, TokenSound, PeersSound, ServerTypes,
           NEW from \in Senders, NEW m \in Messages(from), Process(m)
    PROVE  ServerTypes'
<1>1. /\ m.from = from /\ received' = received + 1 /\ received < MaxMessages /\ now' = now
      /\ UNCHANGED <<state, parts, searches, next_periodic, bootstrap_count, last_bootstrap,
                     blacklist, expires_at, granted>>
  BY SenderAddress DEF Process
<1>2. UNCHANGED <<rated, tokens, last_refill>> \/ Security!CountMessage(from)
  BY <1>1 DEF Process
<1>3. (AddNodes(from, m.told) /\ Handles(m) /\ m.type # "other") \/ Ignored
  BY <1>1 DEF Process
<1>4. /\ rated' \subseteq Senders /\ IsFiniteSet(rated') /\ Cardinality(rated') <= MaxRateEntries
      /\ tokens' \in [Senders -> 0..RatePerIp] /\ last_refill' \in [Senders -> Nat]
      /\ Refills'
  <2>1. Security!SecurityAssumption /\ SecurityTypes /\ Refills
    BY DEF ServerAssumption, ServerTypes
  <2>2. CASE Security!CountMessage(from)
    BY <1>1, <2>1, <2>2, CountTypes
  <2>3. CASE UNCHANGED <<rated, tokens, last_refill>>
    BY <1>1, <2>1, <2>3, SameCount DEF SecurityTypes, Security!TypeOK, Refills
  <2> QED BY <1>2, <2>2, <2>3
<1>5. /\ sybil' \in [Security!Subnets -> Nat] /\ seen' \subseteq Senders /\ nodes' \subseteq Senders
      /\ reply'.values \subseteq PeerAddrs /\ held' \subseteq [addr : Hosts, secret : Int]
      /\ FileTypes'
  <2>1. CASE AddNodes(from, m.told) /\ Handles(m) /\ m.type # "other"
    BY <2>1, NodesAdded, HandledTypes
  <2>2. CASE Ignored
    BY <2>2, ReplyFields DEF Ignored, ServerTypes, SecurityTypes, Security!TypeOK, NodeTypes,
                              FileTypes, storageVars
  <2> QED BY <1>3, <2>1, <2>2
<1>6. NodeTypes'
  <2>1. received' \in 0..MaxMessages
    BY <1>1 DEF ServerTypes, NodeTypes, ServerAssumption
  <2> QED BY <1>1, <1>5, <2>1 DEF ServerTypes, NodeTypes
<1>7. SecurityTypes'
  BY <1>1, <1>4, <1>5, SameCount DEF ServerTypes, SecurityTypes, Security!TypeOK
<1> QED BY <1>4, <1>5, <1>6, <1>7 DEF ServerTypes

\* The other actions.
LEMMA NextTypes ==
    ASSUME ServerAssumption, TokenSound, PeersSound, ServerTypes, [Next]_vars
    PROVE  ServerTypes'
<1> USE DEF ServerTypes
<1>0. Security!SecurityAssumption /\ now \in Nat /\ {PeriodicInterval, MaxMessages, MaxSearches} \subseteq Nat
  BY DEF ServerAssumption, SecurityTypes
<1>a. UNCHANGED <<securityVars, now>> => SecurityTypes' /\ Refills'
  BY DEF securityVars, SecurityTypes, Security!TypeOK, Refills, Security!Cardinality
<1>b. UNCHANGED <<lines, file>> => FileTypes'
  BY DEF FileTypes
<1>1. ASSUME StartWorks PROVE ServerTypes'
  <2>1. NodeTypes'
    BY <1>0, <1>1 DEF StartWorks, NodeTypes, netVars
  <2>2. Security!Reset /\ now' = now /\ UNCHANGED <<lines, file>>
    BY <1>1 DEF StartWorks, Storage!Clear
  <2> QED BY <1>0, <1>b, <2>1, <2>2, ResetTypes
<1>2. ASSUME Stop PROVE ServerTypes'
  <2>1. NodeTypes'
    BY <1>0, <1>2 DEF Stop, NodeTypes, netVars
  <2>2. Security!Reset /\ now' = now /\ UNCHANGED <<lines, file>>
    BY <1>2 DEF Stop, Storage!Clear
  <2> QED BY <1>0, <1>b, <2>1, <2>2, ResetTypes
<1>3. ASSUME NEW i \in 1..(Len(Order) + 1), StartFails(i) PROVE ServerTypes'
  <2>1. parts' \subseteq parts
    BY <1>3 DEF StartFails, Freed
  <2>2. NodeTypes'
    BY <1>3, <2>1 DEF StartFails, NodeTypes, netVars, nodeVars
  <2> QED BY <1>a, <1>b, <1>3, <2>2 DEF StartFails, storageVars
<1>4. ASSUME NEW from \in Senders, NEW m \in Messages(from), Process(m) PROVE ServerTypes'
  BY <1>4, ProcessTypes
<1>5. ASSUME NEW h \in Hashes, NEW p \in AnnouncedPorts \ {0}, Announce(h, p) PROVE ServerTypes'
  <2>1. held' \subseteq [addr : Hosts, secret : Int]
    <3> DEFINE hosts == {a.host : a \in nodes} \cap IPv4
               own == {Token!Compute(x, secrets[active_secret]) : x \in hosts}
               forged == {Forged(a.host) : a \in {n \in nodes : n.host \notin IPv4}}
    <3>1. held' = held \cup own \cup forged \/ held' = held
      BY <1>5 DEF Announce
    <3>2. own \subseteq [addr : Hosts, secret : Int]
      BY TokenTypes
    <3>3. \A a \in nodes : a.host \in Hosts
      BY DEF NodeTypes, ServerAssumption
    <3>4. forged \subseteq [addr : Hosts, secret : Int]
      BY <3>3, TokenTypes
    <3> HIDE DEF own, forged
    <3> QED BY <3>1, <3>2, <3>4 DEF NodeTypes
  <2>2. NodeTypes'
    BY <1>5, <2>1 DEF Announce, NodeTypes, nodeVars
  <2>3. FileTypes'
    <3>1. UNCHANGED storageVars \/ Storage!Announce(h, Address(Anywhere, p))
      BY <1>5 DEF Announce
    <3>2. Address(Anywhere, p) \in PeerAddrs
      BY DEF ServerAssumption, PeerAddrs
    <3> QED BY <3>1, <3>2 DEF storageVars, Storage!Announce, FileTypes
  <2> QED BY <1>a, <1>5, <2>2, <2>3 DEF Announce
<1>6. ASSUME NewSearch PROVE ServerTypes'
  <2>1. NodeTypes'
    BY <1>0, <1>6 DEF NewSearch, NodeTypes, netVars
  <2> QED BY <1>a, <1>b, <1>6, <2>1 DEF NewSearch, storageVars
<1>7. ASSUME Bootstrap PROVE ServerTypes'
  <2>1. NodeTypes'
    BY <1>0, <1>7 DEF Bootstrap, NodeTypes, netVars
  <2> QED BY <1>a, <1>b, <1>7, <2>1 DEF Bootstrap, storageVars
<1>8. ASSUME Periodic PROVE ServerTypes'
  <2>1. now' = now /\ UNCHANGED <<state, parts, searches, bootstrap_count, netVars, seen>>
    BY <1>8 DEF Periodic
  <2>2. last_bootstrap' \in Nat
    BY <1>0, <1>8 DEF Periodic, NodeTypes
  <2>3. nodes' \subseteq Senders /\ next_periodic' \in Nat
    BY <1>0, <1>8 DEF Periodic, NodeTypes
  <2>4. NodeTypes'
    BY <2>1, <2>2, <2>3 DEF NodeTypes, netVars
  <2>5. CASE Due
    <3>1. Storage!Expire /\ Security!BlacklistExpire
      BY <1>8, <2>5 DEF Periodic
    <3> QED BY <1>0, <1>b, <2>1, <2>4, <3>1, ExpiryTypes DEF Storage!Expire
  <2>6. CASE ~Due
    BY <1>a, <1>b, <1>8, <2>1, <2>4, <2>6 DEF Periodic, storageVars
  <2> QED BY <2>5, <2>6
<1>9. ASSUME Tick PROVE ServerTypes'
  <2>1. NodeTypes'
    BY <1>9 DEF Tick, NodeTypes, nodeVars, netVars
  <2>2. now' = now + 1 /\ UNCHANGED securityVars
    BY <1>9 DEF Tick
  <2>3. SecurityTypes'
    BY <1>0, <2>2 DEF securityVars, SecurityTypes, Security!TypeOK, Security!Cardinality
  <2>4. Refills'
    BY <1>0, <2>2 DEF securityVars, Refills, SecurityTypes, Security!TypeOK
  <2> QED BY <1>b, <1>9, <2>1, <2>3, <2>4 DEF Tick, storageVars
<1>10. ASSUME UNCHANGED vars PROVE ServerTypes'
  <2>1. NodeTypes'
    BY <1>10 DEF vars, NodeTypes, nodeVars, netVars
  <2> QED BY <1>a, <1>b, <1>10, <2>1 DEF vars, storageVars
<1> HIDE DEF ServerTypes
<1> QED BY <1>1, <1>2, <1>3, <1>4, <1>5, <1>6, <1>7, <1>8, <1>9, <1>10
        DEF Next, LookUpPeers, LookUpNode

-----------------------------------------------------------------------------

\* The inductive invariant of the node's tokens and stored peers.
THEOREM ServerInv == ASSUME ServerAssumption PROVE Spec => [](TokenSound /\ PeersSound)
<1>1. Init => TokenSound /\ PeersSound
  BY InitSound
<1>2. TokenSound /\ PeersSound /\ [Next]_vars => TokenSound' /\ PeersSound'
  BY NextParts, TokenStepSound, StorageStepSound
<1> QED BY <1>1, <1>2, PTL DEF Spec

\* wingo_dht_start and _stop (dht.c): however starts, failures at any step and stops mix,
\* the subsystems are allocated exactly while the node runs.
THEOREM ServerPartsOnlyWhileRunning == Spec => []PartsOnlyWhileRunning
<1>1. Init => PartsOnlyWhileRunning
  BY DEF Init, PartsOnlyWhileRunning
<1>2. PartsOnlyWhileRunning /\ [Next]_vars => PartsOnlyWhileRunning'
  <2> SUFFICES ASSUME PartsOnlyWhileRunning, [Next]_vars PROVE PartsOnlyWhileRunning'
    OBVIOUS
  <2> USE DEF PartsOnlyWhileRunning
  <2>1. ASSUME StartWorks PROVE PartsOnlyWhileRunning'
    BY <2>1 DEF StartWorks
  <2>2. ASSUME Stop PROVE PartsOnlyWhileRunning'
    BY <2>2 DEF Stop
  <2>3. ASSUME NEW i \in 1..(Len(Order) + 1), StartFails(i) PROVE PartsOnlyWhileRunning'
    <3>1. state # "RUNNING" /\ state' = "ERROR" /\ parts' = (parts \cup Created(i)) \ Created(i)
      BY <2>3 DEF StartFails, Freed
    <3> QED BY <3>1
  <2>4. UNCHANGED <<state, parts>> => PartsOnlyWhileRunning'
    OBVIOUS
  <2>5. ASSUME NEW from \in Senders, NEW m \in Messages(from), Process(m)
        PROVE  PartsOnlyWhileRunning'
    BY <2>4, <2>5 DEF Process
  <2>6. ASSUME NEW h \in Hashes, NEW p \in AnnouncedPorts \ {0}, Announce(h, p)
        PROVE  PartsOnlyWhileRunning'
    BY <2>4, <2>6 DEF Announce
  <2>7. ASSUME NewSearch \/ Bootstrap \/ Periodic \/ Tick \/ UNCHANGED vars
        PROVE  PartsOnlyWhileRunning'
    BY <2>4, <2>7 DEF NewSearch, Bootstrap, Periodic, Tick, vars
  <2> QED BY <2>1, <2>2, <2>3, <2>5, <2>6, <2>7 DEF Next, LookUpPeers, LookUpNode
<1> QED BY <1>1, <1>2, PTL DEF Spec

LEMMA InitTypes ==
    ASSUME ServerAssumption, Init
    PROVE  ServerTypes
<1>0. /\ Security!SecurityAssumption /\ {MaxMessages, MaxSearches} \subseteq Nat
      /\ RatePerIp \in Nat /\ max_blacklist \in Nat /\ MaxRateEntries \in Nat
  BY DEF ServerAssumption, Security!SecurityAssumption
<1>1. NodeTypes
  BY <1>0, ReplyFields DEF Init, NodeTypes
<1>2. FileTypes
  BY DEF Init, Storage!Init, FileTypes
<1>3. /\ IsFiniteSet({}) /\ Cardinality({}) = 0 /\ <<>> \in Seq(Nat)
  BY FS_EmptySet
<1>4. /\ blacklist = {} /\ expires_at = [x \in Security!Listable |-> 0] /\ rated = {}
      /\ tokens = [a \in Senders |-> 0] /\ last_refill = [a \in Senders |-> 0]
      /\ sybil = [s \in Security!Subnets |-> 0] /\ granted = [a \in Senders |-> <<>>] /\ now = 0
  BY DEF Init, Security!Init
<1>5. SecurityTypes /\ Refills
  BY <1>0, <1>3, <1>4, SameCount DEF SecurityTypes, Security!TypeOK, Refills
<1> QED BY <1>1, <1>2, <1>5 DEF ServerTypes

\* Types, and the node's parts (dht.c): what the node, its storage, security and token
\* manager hold has its type, the limits of the blacklist and of the rate entries
\* included, and the subsystems are allocated exactly while the node runs.
THEOREM ServerPartsSound == ASSUME ServerAssumption PROVE Spec => []PartsSound
<1>1. Init => ServerTypes
  BY InitTypes
<1>2. ServerTypes /\ TokenSound /\ PeersSound /\ [Next]_vars => ServerTypes'
  BY NextTypes
<1>3. ServerTypes /\ TokenSound /\ PeersSound => TypeOK
  BY TypesTogether
<1>4. Spec => []TypeOK
  BY <1>1, <1>2, <1>3, ServerInv, PTL DEF Spec
<1>5. TypeOK /\ PartsOnlyWhileRunning => PartsSound
  BY DEF PartsSound
<1> QED BY <1>4, <1>5, ServerPartsOnlyWhileRunning, PTL

\* Tokens (dht_token.c): one handed to a host is accepted over exactly one rotation, and
\* a node refuses no announcement with one it handed out less than RotateMin ago.
THEOREM ServerTokensHonoured == ASSUME ServerAssumption PROVE Spec => TokensHonoured
<1>1. TokenSound => Token!TypeOK /\ Token!AcceptedOnce
  <2>1. TokenSound => Token!TypeOK
    BY DEF TokenSound, SecretsSound, Entry, Token!TypeOK
  <2> QED BY <2>1, AcceptedByAge
<1>2. TokenSound /\ [Next]_vars => [received' # received => RefusesToken]_vars
  BY RefusalsSound
<1> QED BY <1>1, <1>2, ServerInv, PTL DEF Spec, TokensHonoured

\* Peers (dht_storage.c): an accepted announcement is listed for storage_timeout, nothing
\* else is, the limits hold, and a get_peers reply has all that is listed or a full message.
THEOREM ServerLiveServed == ASSUME ServerAssumption PROVE Spec => LiveServed
<1>1. PeersSound => Storage!LiveListed /\ Storage!OnlyLiveListed
  BY StorageInvariants
<1>2. PeersSound /\ [Next]_vars => [received' # received => Answers]_vars
  BY AnswersSound
<1> QED BY <1>1, <1>2, ServerInv, PTL DEF Spec, LiveServed
-----------------------------------------------------------------------------
(* The rate limit, called directly                                         *)

\* Any call of the interface, and any time between two calls.
SecurityNext ==
    \/ Security!Call(Int) /\ UNCHANGED now
    \/ now' \in Nat /\ now <= now' /\ UNCHANGED securityVars

SecuritySpec == Security!Init /\ now \in Nat /\ [][SecurityNext]_<<securityVars, now>>

\* What was let through since message i, and what the bucket still holds, is no more than
\* a full bucket and the seconds until the last refill.
Paid(a) ==
    \A i \in 1..Len(granted[a]) :
        Len(granted[a]) - i + 1 + tokens[a] <= RatePerIp + last_refill[a] - granted[a][i]

Spans(a) ==
    \A i, j \in 1..Len(granted[a]) :
        i <= j => j - i + 1 <= RatePerIp + granted[a][j] - granted[a][i]

RateTypes ==
    /\ now \in Nat /\ rated \subseteq Senders
    /\ tokens \in [Senders -> 0..RatePerIp] /\ last_refill \in [Senders -> Nat]
    /\ granted \in [Senders -> Seq(Nat)]

RateSound(a) ==
    /\ a \in rated => last_refill[a] <= now /\ Paid(a)
    /\ a \notin rated => granted[a] = <<>>
    /\ Spans(a)

RateInv == RateTypes /\ \A a \in Senders : RateSound(a)

\* The sums below, on plain numbers: k messages up to one at time t, x permits left of
\* them at time r, y permits at time u.
LEMMA PaidOn ==
    ASSUME NEW k \in Int, NEW x \in Int, NEW y \in Int, NEW t \in Int, NEW r \in Int,
           NEW u \in Int, NEW p \in Int, k + x <= p + r - t, y <= x + (u - r)
    PROVE  k + y <= p + u - t
OBVIOUS

\* A message is counted: the bucket is refilled, and a permit taken if there is one.
LEMMA CheckSound ==
    ASSUME Security!SecurityAssumption, RateInv, NEW a \in Senders, now' = now,
           Security!RateLimitCheck(a)
    PROVE  RateInv'
<1>0. /\ RatePerIp \in Nat \ {0} /\ now \in Nat /\ tokens[a] \in 0..RatePerIp
      /\ last_refill[a] \in Nat /\ granted[a] \in Seq(Nat) /\ Len(granted[a]) \in Nat
      /\ RateTypes /\ RateSound(a)
  BY DEF Security!SecurityAssumption, RateInv, RateTypes
<1>1. CASE ~Security!Limited(a)
  <2>1. UNCHANGED <<rated, tokens, last_refill, granted>>
    BY <1>1 DEF Security!RateLimitCheck, Security!CountMessage
  <2> QED BY <2>1 DEF RateInv, RateTypes, RateSound, Paid, Spans
<1>2. CASE Security!Limited(a)
  <2> DEFINE full == Security!Refilled(a)
             left == IF full > 0 THEN full - 1 ELSE 0
             times == IF full > 0 THEN Append(granted[a], now) ELSE granted[a]
  <2>1. /\ rated' = rated \cup {a}
        /\ tokens' = [tokens EXCEPT ![a] = left]
        /\ last_refill' = [last_refill EXCEPT ![a] = now]
        /\ granted' = [granted EXCEPT ![a] = times]
    <3>1. Security!Permitted(a) <=> full > 0
      BY <1>2 DEF Security!Permitted
    <3>2. /\ rated' = rated \cup {a}
          /\ tokens' = [tokens EXCEPT ![a] = left]
          /\ last_refill' = [last_refill EXCEPT ![a] = now]
      BY <1>2, <3>1 DEF Security!RateLimitCheck, Security!CountMessage
    <3>3. granted' = IF full > 0 THEN [granted EXCEPT ![a] = Append(granted[a], now)] ELSE granted
      BY <1>2, <3>1 DEF Security!RateLimitCheck
    <3>4. granted = [granted EXCEPT ![a] = granted[a]]
      BY <1>0 DEF RateTypes
    <3> QED BY <3>2, <3>3, <3>4
  <2>2. /\ full \in 0..RatePerIp
        /\ a \in rated => full <= tokens[a] + (now - last_refill[a])
        /\ a \notin rated => full = RatePerIp
    <3>1. CASE a \in rated
      <4>1. full = Security!Least(RatePerIp, tokens[a] + (now - last_refill[a]))
        BY <3>1 DEF Security!Refilled
      <4> QED BY <1>0, <3>1, <4>1 DEF Security!Least, RateSound
    <3>2. CASE a \notin rated
      BY <1>0, <3>2 DEF Security!Refilled
    <3> QED BY <3>1, <3>2
  <2> HIDE DEF full
  <2>3. left \in 0..RatePerIp /\ times \in Seq(Nat) /\ Len(times) \in Nat
    BY <1>0, <2>2
  <2>4. /\ rated' \subseteq Senders /\ tokens'[a] = left /\ last_refill'[a] = now
        /\ granted'[a] = times /\ RateTypes'
    BY <1>0, <2>1, <2>3 DEF RateTypes
  \* Of the messages before, one more second was paid for each permit that came back.
  <2>5. ASSUME NEW i \in 1..Len(times)
        PROVE  Len(times) - i + 1 + left <= RatePerIp + now - times[i]
    <3>1. CASE full > 0 /\ i = Len(times)
      <4>1. times[i] = now
        BY <1>0, <3>1
      <4> QED BY <1>0, <2>2, <3>1, <4>1
    <3>2. CASE ~(full > 0 /\ i = Len(times))
      <4>1. i \in 1..Len(granted[a]) /\ times[i] = granted[a][i] /\ granted[a][i] \in Nat
            /\ Len(times) = Len(granted[a]) + (IF full > 0 THEN 1 ELSE 0)
        <5>1. CASE full > 0
          <6>1. times = Append(granted[a], now)
            BY <5>1
          <6>2. Len(times) = Len(granted[a]) + 1
            BY <1>0, <6>1
          <6>3. i \in 1..Len(granted[a])
            BY <1>0, <3>2, <5>1, <6>2
          <6> QED BY <1>0, <5>1, <6>1, <6>2, <6>3
        <5>2. CASE ~(full > 0)
          BY <1>0, <5>2
        <5> QED BY <5>1, <5>2
      <4>2. a \in rated
        BY <1>0, <4>1 DEF RateSound
      <4>3. Len(granted[a]) - i + 1 + tokens[a] <= RatePerIp + last_refill[a] - granted[a][i]
        BY <1>0, <4>1, <4>2 DEF RateSound, Paid
      <4>4. last_refill[a] <= now /\ full <= tokens[a] + (now - last_refill[a])
        BY <1>0, <2>2, <4>2 DEF RateSound
      <4>a. left = IF full > 0 THEN full - 1 ELSE 0
        OBVIOUS
      <4>b. full \in Nat
        BY <2>2
      <4> HIDE DEF times, left
      <4>c. /\ tokens[a] \in Int /\ last_refill[a] \in Int /\ Len(granted[a]) \in Int /\ i \in Int
            /\ times[i] \in Int /\ RatePerIp \in Int /\ now \in Int
        BY <1>0, <4>1
      <4>5. CASE full > 0
        <5>1. left = full - 1 /\ Len(times) = Len(granted[a]) + 1
          BY <4>1, <4>a, <4>5
        <5>2. Len(granted[a]) - i + 1 + tokens[a] <= RatePerIp + last_refill[a] - times[i]
          BY <4>1, <4>3
        <5>3. Len(granted[a]) - i + 1 \in Int /\ full \in Int
          BY <4>b, <4>c
        <5>4. Len(granted[a]) - i + 1 + full <= RatePerIp + now - times[i]
          BY <4>4, <4>c, <5>2, <5>3, PaidOn
        <5> QED BY <4>b, <4>c, <5>1, <5>4
      <4>6. CASE ~(full > 0)
        <5>1. left = 0 /\ full = 0 /\ Len(times) = Len(granted[a])
          BY <1>0, <4>1, <4>a, <4>b, <4>6
        <5>2. tokens[a] + (now - last_refill[a]) >= 0
          BY <1>0, <4>4
        <5>3. Len(granted[a]) - i + 1 + tokens[a] <= RatePerIp + last_refill[a] - times[i]
          BY <4>1, <4>3
        <5>4. Len(granted[a]) - i + 1 \in Int /\ 0 <= tokens[a] + (now - last_refill[a])
          BY <4>c, <5>2, <5>1, <1>0, <4>4
        <5>5. Len(granted[a]) - i + 1 + 0 <= RatePerIp + now - times[i]
          BY <4>c, <5>3, <5>4, PaidOn
        <5> QED BY <4>c, <5>1, <5>5
      <4> QED BY <4>5, <4>6
    <3> QED BY <3>1, <3>2
  <2>6. ASSUME NEW i \in 1..Len(times), NEW j \in 1..Len(times), i <= j
        PROVE  j - i + 1 <= RatePerIp + times[j] - times[i]
    <3>1. CASE full > 0 /\ j = Len(times)
      <4>1. times[j] = now
        BY <1>0, <3>1
      <4>2. Len(times) - i + 1 + left <= RatePerIp + now - times[i]
        BY <2>5
      <4>3. times[i] \in Nat
        BY <2>3
      <4> HIDE DEF times, left
      <4> QED BY <1>0, <2>3, <3>1, <4>1, <4>2, <4>3
    <3>2. CASE ~(full > 0 /\ j = Len(times))
      <4>1. /\ i \in 1..Len(granted[a]) /\ times[i] = granted[a][i]
            /\ j \in 1..Len(granted[a]) /\ times[j] = granted[a][j]
        BY <1>0, <2>6, <3>2
      <4> HIDE DEF times
      <4> QED BY <1>0, <2>6, <4>1 DEF RateSound, Spans
    <3> QED BY <3>1, <3>2
  <2> HIDE DEF left, times
  <2>7. RateSound(a)'
    <3>1. a \in rated' /\ last_refill'[a] <= now'
      BY <1>0, <2>1, <2>4
    <3>2. Paid(a)' /\ Spans(a)'
      BY <2>4, <2>5, <2>6 DEF Paid, Spans
    <3> QED BY <3>1, <3>2 DEF RateSound
  <2>8. ASSUME NEW b \in Senders, b # a PROVE RateSound(b)'
    <3>1. /\ b \in rated' <=> b \in rated
          /\ tokens'[b] = tokens[b] /\ last_refill'[b] = last_refill[b] /\ granted'[b] = granted[b]
      BY <1>0, <2>1, <2>8 DEF RateTypes
    <3> QED BY <3>1 DEF RateInv, RateSound, Paid, Spans
  <2> QED BY <2>4, <2>7, <2>8 DEF RateInv
<1> QED BY <1>1, <1>2

\* Entries are dropped, each with the address's history.
LEMMA DropSound ==
    ASSUME RateInv, NEW gone \in SUBSET Senders, now' = now, rated' = rated \ gone,
           granted' = [a \in Senders |-> IF a \in gone THEN <<>> ELSE granted[a]],
           UNCHANGED <<tokens, last_refill>>
    PROVE  RateInv'
<1>1. RateTypes'
  <2>1. <<>> \in Seq(Nat)
    OBVIOUS
  <2> QED BY <2>1 DEF RateInv, RateTypes
<1>2. ASSUME NEW a \in Senders PROVE RateSound(a)'
  <2>1. CASE a \in gone
    <3>1. granted'[a] = <<>> /\ Len(<<>>) = 0
      BY <2>1
    <3> QED BY <2>1, <3>1 DEF RateSound, Paid, Spans
  <2>2. CASE a \notin gone
    <3>1. granted'[a] = granted[a] /\ (a \in rated' <=> a \in rated)
      BY <2>2
    <3> QED BY <3>1 DEF RateInv, RateSound, Paid, Spans
  <2> QED BY <2>1, <2>2
<1> QED BY <1>1, <1>2 DEF RateInv

LEMMA RateStep ==
    ASSUME Security!SecurityAssumption, RateInv, [SecurityNext]_<<securityVars, now>>
    PROVE  RateInv'
<1> DEFINE rates == <<rated, tokens, last_refill, granted>>
<1>0. UNCHANGED <<rates, now>> => RateInv'
  BY DEF RateInv, RateTypes, RateSound, Paid, Spans
<1>1. CASE UNCHANGED <<securityVars, now>>
  BY <1>0, <1>1 DEF securityVars
<1>2. CASE now' \in Nat /\ now <= now' /\ UNCHANGED securityVars
  <2>1. UNCHANGED rates
    BY <1>2 DEF securityVars
  <2>2. \A a \in rated : last_refill[a] <= now => last_refill[a] <= now'
    BY <1>2 DEF RateInv, RateTypes
  <2> QED BY <1>2, <2>1, <2>2 DEF RateInv, RateTypes, RateSound, Paid, Spans
<1>3. CASE Security!Call(Int) /\ UNCHANGED now
  <2>1. ASSUME NEW x \in Security!Listable, NEW d \in Int, Security!BlacklistAdd(x, d) PROVE UNCHANGED rates
    BY <2>1 DEF Security!BlacklistAdd, Security!rateVars
  <2>2. ASSUME NEW x \in Security!Listable, Security!BlacklistRemove(x) PROVE UNCHANGED rates
    BY <2>2 DEF Security!BlacklistRemove, Security!rateVars
  <2>3. ASSUME NEW a \in Senders, Security!SybilRegister(a) \/ Security!SybilUnregister(a)
        PROVE  UNCHANGED rates
    BY <2>3 DEF Security!SybilRegister, Security!SybilUnregister, Security!rateVars
  <2>4. ASSUME Security!BlacklistClear \/ Security!BlacklistExpire \/ Security!SybilClear
        PROVE  UNCHANGED rates
    BY <2>4 DEF Security!BlacklistClear, Security!BlacklistExpire, Security!SybilClear, Security!rateVars
  <2>5. ASSUME NEW a \in Senders, Security!ValidateSource(a) PROVE RateInv'
    <3>1. UNCHANGED rates \/ Security!RateLimitCheck(a)
      BY <2>5 DEF Security!ValidateSource, Security!securityVars
    <3> QED BY <1>0, <1>3, <3>1, CheckSound
  <2>6. ASSUME NEW a \in Senders, Security!RateLimitCheck(a) PROVE RateInv'
    BY <1>3, <2>6, CheckSound
  <2>7. ASSUME NEW a \in Senders, Security!RateLimitReset(a) PROVE RateInv'
    <3>1. /\ rated' = rated \ {a} /\ UNCHANGED <<tokens, last_refill>>
          /\ granted' = [granted EXCEPT ![a] = <<>>]
      BY <2>7 DEF Security!RateLimitReset
    <3>2. granted' = [b \in Senders |-> IF b \in {a} THEN <<>> ELSE granted[b]]
      BY <3>1 DEF RateInv, RateTypes
    <3> QED BY <1>3, <3>1, <3>2, DropSound
  <2>8. ASSUME Security!RateLimitClear \/ Security!Reset PROVE RateInv'
    <3>1. /\ rated' = {} /\ UNCHANGED <<tokens, last_refill>>
          /\ granted' = [a \in Senders |-> <<>>]
      BY <2>8 DEF Security!RateLimitClear, Security!Reset
    <3>2. /\ rated' = rated \ Senders
          /\ granted' = [b \in Senders |-> IF b \in Senders THEN <<>> ELSE granted[b]]
      BY <3>1 DEF RateInv, RateTypes
    <3> QED BY <1>3, <3>1, <3>2, DropSound
  <2> HIDE DEF rates
  <2> QED BY <1>0, <1>3, <2>1, <2>2, <2>3, <2>4, <2>5, <2>6, <2>7, <2>8 DEF Security!Call
<1> QED BY <1>1, <1>2, <1>3 DEF SecurityNext

\* wingo_dht_security_rate_limit_check (dht_security.c): whatever is called in whatever
\* order, and however long it waits in between, an address gets through no more messages
\* than a full bucket and one for each second.
THEOREM ServerRateBounded ==
    ASSUME Security!SecurityAssumption PROVE SecuritySpec => []RateBounded
<1>1. Security!Init /\ now \in Nat => RateInv
  <2> SUFFICES ASSUME Security!Init, now \in Nat PROVE RateInv
    OBVIOUS
  <2>1. /\ rated = {} /\ tokens = [a \in Senders |-> 0] /\ last_refill = [a \in Senders |-> 0]
        /\ granted = [a \in Senders |-> <<>>] /\ RatePerIp \in Nat
    BY DEF Security!Init, Security!SecurityAssumption
  <2>2. <<>> \in Seq(Nat) /\ Len(<<>>) = 0
    OBVIOUS
  <2> QED BY <2>1, <2>2 DEF RateInv, RateTypes, RateSound, Paid, Spans
<1>2. RateInv /\ [SecurityNext]_<<securityVars, now>> => RateInv'
  BY RateStep
<1>3. RateInv => RateBounded
  <2> SUFFICES ASSUME RateInv, NEW a \in rated, NEW i \in DOMAIN granted[a],
                      NEW j \in DOMAIN granted[a], i <= j
               PROVE  j - i + 1 <= RatePerIp + granted[a][j] - granted[a][i]
    BY DEF RateBounded, Security!RateBounded
  <2>1. a \in Senders /\ granted[a] \in Seq(Nat)
    BY DEF RateInv, RateTypes
  <2>2. DOMAIN granted[a] = 1..Len(granted[a]) /\ Spans(a)
    BY <2>1 DEF RateInv, RateSound
  <2> QED BY <2>2 DEF Spans
<1> QED BY <1>1, <1>2, <1>3, PTL DEF SecuritySpec
=============================================================================
