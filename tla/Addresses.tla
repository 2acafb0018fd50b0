----------------------------- MODULE Addresses -----------------------------
(***************************************************************************)
(* The address functions of socket.c that decide: the order of addresses,  *)
(* and the classes that the DHT's address checks rely on.  An address is a *)
(* record with a family, its bytes, most significant first, and a port.    *)
(***************************************************************************)
EXTENDS Integers, Sequences

CONSTANT Addrs   \* the addresses compared and classified

Byte == 0..255
Port == 0..65535
Address == [family : {"IPv4", "IPv6"}, ip : Seq(Byte), port : Port]

AddressesAssumption ==
    \A x \in Addrs :
        /\ x \in Address
        /\ Len(x.ip) = (IF x.family = "IPv4" THEN 4 ELSE 16)

-----------------------------------------------------------------------------
(* The order.                                                              *)

\* memcmp: the first byte that differs decides.
Memcmp(s, t) ==
    LET differ == {i \in 1..Len(s) : s[i] # t[i]} IN
    IF differ = {} THEN 0
    ELSE LET i == CHOOSE i \in differ : \A j \in differ : i <= j IN s[i] - t[i]

\* wingo_addr_cmp: AF_INET is below AF_INET6; then the bytes, then the port.
Cmp(x, y) ==
    IF x.family # y.family THEN (IF x.family = "IPv4" THEN -1 ELSE 1)
    ELSE IF Memcmp(x.ip, y.ip) # 0 THEN Memcmp(x.ip, y.ip)
    ELSE x.port - y.port

\* wingo_addr_set_port, on a copy.
WithPort(x, port) == [x EXCEPT !.port = port]

-----------------------------------------------------------------------------
(* The classes.                                                            *)

Zeros(s, from, to) == \A i \in from..to : s[i] = 0

IsUnspecified(x) == Zeros(x.ip, 1, Len(x.ip))

IsLoopback(x) ==
    IF x.family = "IPv4" THEN x.ip[1] = 127
    ELSE Zeros(x.ip, 1, 15) /\ x.ip[16] = 1

IsMulticast(x) ==
    IF x.family = "IPv4" THEN x.ip[1] \in 224..239 ELSE x.ip[1] = 255

IsMapped(x) ==
    x.family = "IPv6" /\ Zeros(x.ip, 1, 10) /\ x.ip[11] = 255 /\ x.ip[12] = 255

\* ipv4_is_martian, each mask as the range of bytes it leaves.
IPv4IsMartian(o) ==
    \/ o[1] \in {0, 10, 127}
    \/ o[1] = 100 /\ o[2] \in 64..127
    \/ o[1] = 169 /\ o[2] = 254
    \/ o[1] = 172 /\ o[2] \in 16..31
    \/ o[1] = 192 /\ o[2] = 0 /\ o[3] \in {0, 2}
    \/ o[1] = 192 /\ o[2] = 168
    \/ o[1] = 198 /\ o[2] \in {18, 19}
    \/ o[1] = 198 /\ o[2] = 51 /\ o[3] = 100
    \/ o[1] = 203 /\ o[2] = 0 /\ o[3] = 113
    \/ o[1] \in 224..255

\* ipv6_is_martian: unspecified, loopback, fc00::/7, fe80::/10, ff00::/8.
IPv6IsMartian(x) ==
    \/ IsUnspecified(x) \/ IsLoopback(x)
    \/ x.ip[1] \in {252, 253}
    \/ x.ip[1] = 254 /\ x.ip[2] \in 128..191
    \/ x.ip[1] = 255

\* wingo_addr_is_martian: a mapped address is judged by the IPv4 address in it.
IsMartian(x) ==
    IF x.family = "IPv4" THEN IPv4IsMartian(x.ip)
    ELSE IF IsMapped(x) THEN IPv4IsMartian(SubSeq(x.ip, 13, 16))
    ELSE IPv6IsMartian(x)

-----------------------------------------------------------------------------
(* Properties.                                                             *)

\* wingo_addr_cmp is a total order whose equality is equality: the searches by
\* address in peer.c, dht_storage.c and dht_security.c find the entry they look for
\* and no other, and two orders of the same pair agree.
Ordered ==
    \A x, y \in Addrs :
        /\ Cmp(x, y) = 0 <=> x = y
        /\ Cmp(x, y) < 0 <=> Cmp(y, x) > 0
        /\ \A z \in Addrs : Cmp(x, y) <= 0 /\ Cmp(y, z) <= 0 => Cmp(x, z) <= 0

\* An address a peer may be stored under is none that another predicate of socket.c
\* excludes, and writing it as a mapped IPv6 address does not change the verdict.
ClassesAgree ==
    \A x \in Addrs :
        /\ IsLoopback(x) \/ IsMulticast(x) \/ IsUnspecified(x) => IsMartian(x)
        /\ x.family = "IPv4" =>
               LET m == [x EXCEPT !.family = "IPv6",
                                  !.ip = [i \in 1..10 |-> 0] \o <<255, 255>> \o x.ip]
               IN  IsMapped(m) /\ (IsMartian(m) <=> IsMartian(x))
=============================================================================
