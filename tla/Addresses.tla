------------------------------ MODULE Addresses ------------------------------
(***************************************************************************)
(* net/inetAddress.cpp and what it uses of net/socketsOps.cpp.  An         *)
(* InetAddress is the memory of a sockaddr_in or of a sockaddr_in6: both   *)
(* begin with the family and the port, in network order; where sockaddr_in *)
(* has the IP address, word4, sockaddr_in6 has the flow information, and   *)
(* its own address, ip6, follows.  IP addresses are values of a small set; *)
(* the text of one tells whether it is IPv6, which has colons.             *)
(***************************************************************************)
EXTENDS Naturals

CONSTANTS Octets,       \* how many values a byte of a port has
          Hosts         \* IP addresses other than Any and Loopback

ASSUME AddressAssumption ==
    /\ Octets \in Nat \ {0, 1}
    /\ Hosts \cap {"any", "loopback", "malformed"} = {}

VARIABLES
    address,    \* an InetAddress
    meant       \* history: the family, IP address and port it should have

addressVars == <<address, meant>>

IPs == Hosts \cup {"any", "loopback"}
Port == 0 .. Octets ^ 2 - 1
IPText == [ipv6 : BOOLEAN, ip : IPs \cup {"malformed"}]

hostToNetwork16(port) == <<port \div Octets, port % Octets>>
networkToHost16(bytes) == bytes[1] * Octets + bytes[2]

(* memset; the address of all zeros is Any.                                *)
Zeros == [family |-> "AF_UNSPEC", port |-> <<0, 0>>, word4 |-> "any", ip6 |-> "any",
          scope |-> 0]

(* An IPv4 address is shorter: what follows it is left as it was.          *)
Zeros4 == [Zeros EXCEPT !.ip6 = address.ip6, !.scope = address.scope]

AddressInit ==
    /\ address = Zeros
    /\ meant = [family |-> "AF_UNSPEC", ip |-> "", port |-> 0]

----------------------------------------------------------------------------
(* inet_pton() succeeds for the text of an address of the family.          *)
inet_pton(family, text) ==
    text.ip # "malformed" /\ (text.ipv6 <=> family = "AF_INET6")

(* fromIpPort() for the two structures: the IP address of a text that      *)
(* cannot be read stays what it was.                                       *)
fromIpPort4(text, port, addr) ==
    [addr EXCEPT !.family = "AF_INET", !.port = hostToNetwork16(port),
                 !.word4 = IF inet_pton("AF_INET", text) THEN text.ip ELSE @]

fromIpPort6(text, port, addr) ==
    [addr EXCEPT !.family = "AF_INET6", !.port = hostToNetwork16(port),
                 !.ip6 = IF inet_pton("AF_INET6", text) THEN text.ip ELSE @]

OfText(text, port, ipv6) ==
    IF ipv6 \/ text.ipv6 THEN fromIpPort6(text, port, Zeros)
                         ELSE fromIpPort4(text, port, Zeros4)

OfPort(port, loopbackOnly, ipv6) ==
    LET ip == IF loopbackOnly THEN "loopback" ELSE "any"
    IN  IF ipv6
        THEN [Zeros EXCEPT !.family = "AF_INET6", !.ip6 = ip, !.port = hostToNetwork16(port)]
        ELSE [Zeros4 EXCEPT !.family = "AF_INET", !.word4 = ip, !.port = hostToNetwork16(port)]

(* toIp() writes nothing for another family; toIpPort() puts brackets      *)
(* around what has colons.                                                 *)
toIp(addr) ==
    CASE addr.family = "AF_INET"  -> [ipv6 |-> FALSE, ip |-> addr.word4]
      [] addr.family = "AF_INET6" -> [ipv6 |-> TRUE, ip |-> addr.ip6]
      [] OTHER                    -> [ipv6 |-> FALSE, ip |-> ""]

toIpPort(addr) == [brackets |-> addr.family = "AF_INET6", ip |-> toIp(addr),
                   port |-> networkToHost16(addr.port)]

(* isSelfConnect() of the two ends of a socket; an end that cannot be had  *)
(* is Zeros.                                                               *)
isSelfConnect(local, peer) ==
    \/ local.family = "AF_INET" /\ local.port = peer.port /\ local.word4 = peer.word4
    \/ local.family = "AF_INET6" /\ local.port = peer.port /\ local.ip6 = peer.ip6

----------------------------------------------------------------------------
(* The constructors.                                                       *)
MakeOfPort ==
    \E port \in Port, loopbackOnly, ipv6 \in BOOLEAN :
        /\ address' = OfPort(port, loopbackOnly, ipv6)
        /\ meant' = [family |-> IF ipv6 THEN "AF_INET6" ELSE "AF_INET",
                     ip |-> IF loopbackOnly THEN "loopback" ELSE "any", port |-> port]

MakeOfText ==
    \E text \in IPText, port \in Port, ipv6 \in BOOLEAN :
        LET family == IF ipv6 \/ text.ipv6 THEN "AF_INET6" ELSE "AF_INET"
        IN  /\ address' = OfText(text, port, ipv6)
            /\ meant' = [family |-> family, port |-> port,
                         ip |-> IF inet_pton(family, text) THEN text.ip ELSE "any"]

(* resolve() writes an IPv4 address, whatever the family.                  *)
Resolve ==
    \E ip \in Hosts :
        /\ address' = [address EXCEPT !.word4 = ip]
        /\ meant' = IF address.family = "AF_INET" THEN [meant EXCEPT !.ip = ip] ELSE meant

setScopeId ==
    /\ address.family = "AF_INET6"
    /\ address' = [address EXCEPT !.scope = 1]
    /\ UNCHANGED meant

AddressNext == MakeOfPort \/ MakeOfText \/ Resolve \/ setScopeId

----------------------------------------------------------------------------
OtherEnds == {Zeros, address, [address EXCEPT !.word4 = "any"], [address EXCEPT !.ip6 = "any"]}
                \cup {[address EXCEPT !.port = hostToNetwork16(port)] : port \in Port}

(* The text of an address is that of what it should be, and reads back as  *)
(* the same address; resolve() leaves family and port, and the address of  *)
(* the other family; and a socket is connected to itself when both ends    *)
(* have the same text, for none of which what follows an IPv4 address      *)
(* matters (inetAddress.cpp:45-117, socketsOps.cpp:132-178 and 212-248).   *)
AddressesRight ==
    meant.family # "AF_UNSPEC" =>
        /\ toIpPort(address) = [brackets |-> meant.family = "AF_INET6", port |-> meant.port,
                                ip |-> [ipv6 |-> meant.family = "AF_INET6", ip |-> meant.ip]]
        /\ LET again == OfText(toIp(address), networkToHost16(address.port), FALSE)
           IN  again.family = address.family /\ toIpPort(again) = toIpPort(address)
        /\ \A peer \in OtherEnds :
              peer.family = address.family =>
                  (isSelfConnect(address, peer) <=> toIpPort(peer) = toIpPort(address))
=============================================================================
