---------------------------- MODULE FrameParser -----------------------------
(***************************************************************************)
(* fill_fullPacket_node (src/packet_service.c) and what routine_processing *)
(* does with its result: one action per header.  The parser walks over the *)
(* bytes of a raw node, `content`, of which recvfrom filled the first      *)
(* recvlen; the others are what malloc left there.  Only the bytes that    *)
(* steer the walk are represented; addresses, ports and flags are data.    *)
(***************************************************************************)
EXTENDS Integers, Sequences

CONSTANTS
    Frames,   \* the frames that may be sent to the host
    Lengths,  \* bound: how many bytes of a frame recvfrom may return
    Stale,    \* bound: values of the bytes no frame determines
    Content   \* size of the block a frame is copied to, 65535

(* A frame: the bytes that steer the parser (payload bytes are left out),  *)
(* and whether a MAC address is all zeros.  What it carries, tags, exts,   *)
(* starts, protocol, transport and end, is there for LaidOut below.        *)
ASSUME FramesAssumption ==
    \A f \in Frames :
        /\ f.loopback \in BOOLEAN
        /\ \A o \in DOMAIN f.byte : f.byte[o] \in 0..255
ASSUME StaleAssumption == Stale \subseteq 0..255
ASSUME ContentAssumption == Content \in Nat /\ Content >= 65535
ASSUME LengthsAssumption == Lengths \subseteq 1..Content

VARIABLES
    pc,
    frame, recvlen,        \* the node thread 2 took
    ethtype,
    offset,                \* bytes of VLAN tags before the type
    ethr_header_len,
    is_vlan,
    protocolo,             \* fill_ipv6: the header that comes next
    cond_break_loop,       \* fill_ipv6: its loop counter
    total_header_lenght,   \* in fill_ipv6 also curr_index, which it follows
    protocolo_transporte,
    ports_at,              \* where fill_tcp or fill_udp read, or -1
    reached,               \* history: one more than the last byte read
    headers_reached,       \* history: the same but for the extension headers
    verdict                \* "null", "loopback" or "packet"

node == <<frame, recvlen>>
link == <<ethtype, offset, ethr_header_len, is_vlan>>
walk == <<protocolo, cond_break_loop, total_header_lenght, protocolo_transporte>>
reads == <<reached, headers_reached>>
vars == <<pc, node, link, walk, ports_at, reads, verdict>>

ETH_P_8021AD == 34984   \* 0x88a8
ETH_P_8021Q == 33024    \* 0x8100
ETH_P_IP == 2048        \* 0x0800
ETH_P_IPV6 == 34525     \* 0x86DD

(* The values buffer[o] may have.                                          *)
Byte(o) ==
    IF o \in DOMAIN frame.byte /\ o < recvlen THEN {frame.byte[o]} ELSE Stale

Further(o, most) == IF o > most THEN o ELSE most

(* The bytes up to o are read, in any header or in an extension header.    *)
ReadUpTo(o) ==
    /\ reached' = Further(o, reached)
    /\ headers_reached' = Further(o, headers_reached)
ReadExtensionUpTo(o) ==
    /\ reached' = Further(o, reached)
    /\ UNCHANGED headers_reached

(* free(packetNode); return NULL                                           *)
Refuse ==
    /\ verdict' = "null"
    /\ pc' = "done"
    /\ UNCHANGED <<node, link, walk, ports_at>>

Init ==
    /\ pc = "ethernet"
    /\ frame \in Frames /\ recvlen \in Lengths
    /\ ethtype = 0 /\ offset = 0 /\ ethr_header_len = 14 /\ is_vlan = 0
    /\ protocolo = 0 /\ cond_break_loop = 1
    /\ total_header_lenght = 0
    /\ protocolo_transporte = 0
    /\ ports_at = -1
    /\ reached = 0 /\ headers_reached = 0
    /\ verdict = "none"

-----------------------------------------------------------------------------
ReadType(at) ==
    \E high \in Byte(at), low \in Byte(at + 1) : ethtype' = 256 * high + low

Ethernet ==
    /\ pc = "ethernet"
    /\ \/ recvlen < 14 /\ Refuse /\ UNCHANGED reads
       \/ /\ recvlen >= 14
          /\ ReadType(12)
          /\ ReadUpTo(14)
          /\ pc' = "serviceTag"
          /\ UNCHANGED <<node, offset, ethr_header_len, is_vlan, walk,
                         ports_at, verdict>>

(* Mutant: the header is not made longer by the tag.                       *)
LengthWithTagUncounted == ethr_header_len
LengthWithTag == ethr_header_len + 4

TakeTag(next) ==
    /\ offset' = offset + 4
    /\ \/ /\ recvlen < 14 + offset'
          /\ verdict' = "null"
          /\ pc' = "done"
          /\ UNCHANGED <<ethtype, ethr_header_len, reads>>
       \/ /\ recvlen >= 14 + offset'
          /\ ethr_header_len' = LengthWithTag
          /\ ReadType(12 + offset')
          /\ ReadUpTo(14 + offset')
          /\ pc' = next
          /\ UNCHANGED verdict

(* One service tag, then one VLAN tag, each when it is there.              *)
ServiceTag ==
    /\ pc = "serviceTag"
    /\ \/ ethtype = ETH_P_8021AD /\ TakeTag("vlanTag")
       \/ /\ ethtype # ETH_P_8021AD
          /\ pc' = "vlanTag"
          /\ UNCHANGED <<ethtype, offset, ethr_header_len, reads, verdict>>
    /\ UNCHANGED <<node, is_vlan, walk, ports_at>>

VlanTag ==
    /\ pc = "vlanTag"
    /\ \/ ethtype = ETH_P_8021Q /\ is_vlan' = 1 /\ TakeTag("network")
       \/ /\ ethtype # ETH_P_8021Q
          /\ pc' = "network"
          /\ UNCHANGED <<ethtype, offset, ethr_header_len, is_vlan, reads, verdict>>
    /\ UNCHANGED <<node, walk, ports_at>>

-----------------------------------------------------------------------------
(* ARP, RARP, MPLS, PPPoE and the unknown types: nothing more is read.     *)
OtherProtocol ==
    /\ pc = "network"
    /\ ethtype \notin {ETH_P_IP, ETH_P_IPV6}
    /\ total_header_lenght' = 0
    /\ protocolo_transporte' = -1
    /\ pc' = "result"
    /\ UNCHANGED <<node, link, protocolo, cond_break_loop, ports_at, reads, verdict>>

(* The bytes that must be there before fill_ipv4 or fill_ipv6 is called.   *)
(* Mutant: those of IPv4 serve for IPv6 too.                               *)
MinimumOfIPv4(type) == 20
Minimum(type) == IF type = ETH_P_IP THEN 20 ELSE 40

(* The switch of fill_ipv4.  Mutant: every protocol is taken as it is.     *)
AnyTransport(protocol) == protocol
KnownTransport(protocol) == IF protocol \in {1, 5, 6, 17} THEN protocol ELSE -1

(* fill_ipv4, between the checks that surround it.                         *)
IPv4 ==
    /\ pc = "network"
    /\ ethtype = ETH_P_IP
    /\ \/ recvlen < ethr_header_len + Minimum(ETH_P_IP) /\ Refuse /\ UNCHANGED reads
       \/ /\ recvlen >= ethr_header_len + Minimum(ETH_P_IP)
          /\ ReadUpTo(ethr_header_len + 20)
          /\ \E first \in Byte(ethr_header_len), protocol \in Byte(ethr_header_len + 9) :
                LET header == ethr_header_len + 4 * (first % 16)
                IN  \/ /\ header < 20 + ethr_header_len \/ recvlen < header
                       /\ Refuse
                    \/ /\ header >= 20 + ethr_header_len /\ recvlen >= header
                       /\ total_header_lenght' = header
                       /\ protocolo_transporte' = KnownTransport(protocol)
                       /\ pc' = "transport"
                       /\ UNCHANGED <<node, link, protocolo, cond_break_loop,
                                      ports_at, verdict>>

(* fill_ipv6 up to its loop.                                               *)
IPv6 ==
    /\ pc = "network"
    /\ ethtype = ETH_P_IPV6
    /\ \/ recvlen < ethr_header_len + Minimum(ETH_P_IPV6) /\ Refuse /\ UNCHANGED reads
       \/ /\ recvlen >= ethr_header_len + Minimum(ETH_P_IPV6)
          /\ ReadUpTo(ethr_header_len + 40)
          /\ protocolo' \in Byte(ethr_header_len + 6)
          /\ total_header_lenght' = ethr_header_len + 40
          /\ pc' = "extension"
          /\ UNCHANGED <<node, link, cond_break_loop, protocolo_transporte,
                         ports_at, verdict>>

(* Hop-by-hop, routing and destination options carry their length; a       *)
(* fragment header has 8 bytes.                                            *)
WithLength == {0, 43, 60}
Fragment == 44

(* The length field counts units of 8 bytes after the first.               *)
(* Mutant: it is taken for the high byte of a 16-bit length.               *)
ExtensionSizeOf16Bits(length) == 8 * (256 * length + 1)
ExtensionSize(length) == 8 * (length + 1)

(* One turn of the loop that finds an extension header.                    *)
Extension ==
    /\ pc = "extension" /\ cond_break_loop < 8
    /\ protocolo \in WithLength \cup {Fragment}
    /\ cond_break_loop' = cond_break_loop + 1
    /\ protocolo' \in Byte(total_header_lenght)
    /\ \/ /\ protocolo = Fragment
          /\ total_header_lenght' = total_header_lenght + 8
          /\ ReadExtensionUpTo(total_header_lenght + 1)
       \/ /\ protocolo # Fragment
          /\ \E length \in Byte(total_header_lenght + 1) :
                total_header_lenght' = total_header_lenght + ExtensionSize(length)
          /\ ReadExtensionUpTo(total_header_lenght + 2)
    /\ UNCHANGED <<pc, node, link, protocolo_transporte, ports_at, verdict>>

(* The turn that finds what the headers were for, or the eighth header:    *)
(* then the loop ends and protocolo_transporte is still 0.                 *)
LastExtension ==
    /\ pc = "extension"
    /\ \/ /\ cond_break_loop < 8
          /\ protocolo \notin WithLength \cup {Fragment}
          /\ cond_break_loop' = 0
          /\ protocolo_transporte' = IF protocolo \in {1, 5, 6, 17, 58} THEN protocolo ELSE -1
       \/ /\ cond_break_loop = 8
          /\ UNCHANGED <<cond_break_loop, protocolo_transporte>>
    /\ pc' = "transport"
    /\ UNCHANGED <<node, link, protocolo, total_header_lenght, ports_at, reads, verdict>>

-----------------------------------------------------------------------------
(* The bytes that must be there before fill_tcp or fill_udp is called.     *)
(* Mutant: those of UDP serve for TCP too.                                 *)
FixedPartOfUdp(protocol) == 8
FixedPart(protocol) == IF protocol = 6 THEN 20 ELSE 8

(* The switch on the transport protocol, the same after both versions.     *)
Tcp ==
    /\ pc = "transport" /\ protocolo_transporte = 6
    /\ \/ recvlen < total_header_lenght + FixedPart(6) /\ Refuse /\ UNCHANGED reads
       \/ /\ recvlen >= total_header_lenght + FixedPart(6)
          /\ ports_at' = total_header_lenght
          /\ \E size \in Byte(total_header_lenght + 12) :
                total_header_lenght' = total_header_lenght + 4 * (size \div 16)
          /\ ReadUpTo(total_header_lenght + 14)
          /\ pc' = "result"
          /\ UNCHANGED <<node, link, protocolo, cond_break_loop,
                         protocolo_transporte, verdict>>

Udp ==
    /\ pc = "transport" /\ protocolo_transporte = 17
    /\ \/ recvlen < total_header_lenght + FixedPart(17) /\ Refuse /\ UNCHANGED reads
       \/ /\ recvlen >= total_header_lenght + FixedPart(17)
          /\ ports_at' = total_header_lenght
          /\ total_header_lenght' = total_header_lenght + 8
          /\ ReadUpTo(total_header_lenght + 4)
          /\ pc' = "result"
          /\ UNCHANGED <<node, link, protocolo, cond_break_loop,
                         protocolo_transporte, verdict>>

OtherTransport ==
    /\ pc = "transport" /\ protocolo_transporte \notin {6, 17}
    /\ pc' = "result"
    /\ UNCHANGED <<node, link, walk, ports_at, reads, verdict>>

(* routine_processing drops the frames of the loopback device.             *)
Result ==
    /\ pc = "result"
    /\ verdict' = IF frame.loopback THEN "loopback" ELSE "packet"
    /\ pc' = "done"
    /\ UNCHANGED <<node, link, walk, ports_at, reads>>

Stopped == pc = "done" /\ UNCHANGED vars

Next ==
    \/ Ethernet \/ ServiceTag \/ VlanTag
    \/ OtherProtocol \/ IPv4 \/ IPv6
    \/ Extension \/ LastExtension
    \/ Tcp \/ Udp \/ OtherTransport
    \/ Result
    \/ Stopped

Spec == Init /\ [][Next]_vars

-----------------------------------------------------------------------------
Labels == {"ethernet", "serviceTag", "vlanTag", "network", "extension",
           "transport", "result", "done"}

TypeOK ==
    /\ pc \in Labels
    /\ ethtype \in Nat /\ ethtype < 65536
    /\ offset \in {0, 4, 8}
    /\ ethr_header_len \in {14, 18, 22}
    /\ is_vlan \in {0, 1}
    /\ protocolo \in 0..255
    /\ cond_break_loop \in 0..8
    /\ total_header_lenght \in Nat
    /\ protocolo_transporte \in {-1, 0, 1, 5, 6, 17, 58}
    /\ ports_at \in Nat \cup {-1}
    /\ reached \in Nat /\ headers_reached \in Nat
    /\ verdict \in {"none", "null", "loopback", "packet"}

(* No byte outside the block is read, whatever the frame says of its       *)
(* lengths and whatever is in the bytes that were not received.            *)
ReadsWithinContent == reached <= Content

(* Every byte that is read was received, but for those of the extension    *)
(* headers of IPv6 (packet_service.c:93-152): the Ethernet header, the     *)
(* tags, both IP headers and the transport header behind them, extension   *)
(* headers or not, are read after their length was checked.                *)
HeadersReceived == headers_reached <= recvlen

(* A packet has ports only if the whole fixed part of its TCP or UDP       *)
(* header was received, after extension headers too.                       *)
PortsReceived ==
    verdict = "packet" /\ ports_at # -1 =>
        ports_at + (IF protocolo_transporte = 6 THEN 20 ELSE 8) <= recvlen

-----------------------------------------------------------------------------
(* A frame laid out as the protocols define it: tags, then IPv4, or IPv6   *)
(* with extension headers at `starts`, or anything else; then a transport  *)
(* protocol, whose header is at `transport`.  All that steers the parser   *)
(* is before `end`.                                                        *)
TagLists == {<<>>, <<ETH_P_8021Q>>, <<ETH_P_8021AD>>, <<ETH_P_8021AD, ETH_P_8021Q>>}

Given(f, o) == o \in DOMAIN f.byte /\ o < f.end
TypeAt(f, o) == 256 * f.byte[o] + f.byte[o + 1]
InternetStart(f) == 14 + 4 * Len(f.tags)
Type(f) == TypeAt(f, 12 + 4 * Len(f.tags))

LinkLaidOut(f) ==
    /\ f.tags \in TagLists
    /\ \A k \in 0..Len(f.tags) : Given(f, 12 + 4 * k) /\ Given(f, 13 + 4 * k)
    /\ \A k \in 1..Len(f.tags) : TypeAt(f, 8 + 4 * k) = f.tags[k]
    /\ f.end \in Nat /\ f.end >= InternetStart(f)

IPv4LaidOut(f) ==
    LET ip == InternetStart(f)
    IN  /\ Type(f) = ETH_P_IP
        /\ Given(f, ip) /\ Given(f, ip + 9) /\ f.end >= ip + 20
        /\ f.byte[ip] % 16 >= 5 /\ f.transport = ip + 4 * (f.byte[ip] % 16)
        /\ f.byte[ip + 9] = f.protocol
        /\ f.exts = <<>>

ExtSize(ext) == IF ext.kind = Fragment THEN 8 ELSE 8 * (ext.units + 1)
Following(f, k) == IF k <= Len(f.exts) THEN f.exts[k].kind ELSE f.protocol

IPv6LaidOut(f) ==
    LET ip == InternetStart(f)
        n == Len(f.exts)
    IN  /\ Type(f) = ETH_P_IPV6
        /\ Given(f, ip + 6) /\ f.end >= ip + 40
        /\ f.exts \in Seq([kind : WithLength \cup {Fragment}, units : 0..255])
        /\ f.starts \in Seq(Nat) /\ Len(f.starts) = n + 1
        /\ f.starts[1] = ip + 40 /\ f.starts[n + 1] = f.transport
        /\ f.byte[ip + 6] = Following(f, 1)
        /\ \A k \in 1..n :
              /\ Given(f, f.starts[k]) /\ f.byte[f.starts[k]] = Following(f, k + 1)
              /\ f.exts[k].kind # Fragment =>
                     /\ Given(f, f.starts[k] + 1)
                     /\ f.byte[f.starts[k] + 1] = f.exts[k].units
              /\ f.starts[k + 1] = f.starts[k] + ExtSize(f.exts[k])
        /\ f.protocol \in 0..255 \ (WithLength \cup {Fragment})

(* Nothing the parser looks into; what follows a tag is no tag it expects. *)
OtherLaidOut(f) ==
    /\ Type(f) \notin {ETH_P_IP, ETH_P_IPV6}
    /\ f.tags = <<>> => Type(f) # ETH_P_8021AD
    /\ f.tags \in {<<>>, <<ETH_P_8021AD>>} => Type(f) # ETH_P_8021Q
    /\ f.protocol = -1 /\ f.exts = <<>>

LaidOut(f) ==
    /\ LinkLaidOut(f)
    /\ IPv4LaidOut(f) \/ IPv6LaidOut(f) \/ OtherLaidOut(f)
    /\ f.protocol \in {6, 17} => f.end >= f.transport + (IF f.protocol = 6 THEN 20 ELSE 8)
    /\ f.protocol # -1 => f.end >= f.transport

(* The protocols that have a name, those of IPv6 and those of IPv4.        *)
Named(f) == IF Type(f) = ETH_P_IPV6 THEN {1, 5, 6, 17, 58} ELSE {1, 5, 6, 17}

(* A frame received down to its transport header, with at most six         *)
(* extension headers (the seventh ends the loop before the protocol is     *)
(* looked at), becomes a packet with the transport protocol it carries,    *)
(* its ports are read where that header starts, and it is marked as tagged *)
(* when it has a VLAN tag (packet_service.c:70-162, 215-431).              *)
Legible == LaidOut(frame) /\ recvlen >= frame.end /\ Len(frame.exts) <= 6

TransportFound ==
    pc = "done" /\ Legible =>
        /\ verdict = IF frame.loopback THEN "loopback" ELSE "packet"
        /\ protocolo_transporte =
               IF frame.protocol \in Named(frame) THEN frame.protocol ELSE -1
        /\ ports_at = IF frame.protocol \in {6, 17} THEN frame.transport ELSE -1
        /\ is_vlan = IF \E k \in DOMAIN frame.tags : frame.tags[k] = ETH_P_8021Q THEN 1 ELSE 0
=============================================================================
