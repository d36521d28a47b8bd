--------------------------- MODULE MCFrameParser ----------------------------
(***************************************************************************)
(* FrameParser for TLC: frames laid out header by header as the protocols  *)
(* define them, each with what it really carries, of which any number of   *)
(* bytes is received.                                                      *)
(***************************************************************************)
EXTENDS FrameParser, FiniteSetsExt, TLC

(* Ethernet, then tags, each followed by the type of what comes next.      *)
TypeBytes(tags, type) ==
    LET types == Append(tags, type)
    IN  [o \in {12 + 4 * k + low : k \in 0..Len(tags), low \in {0, 1}} |->
            LET type16 == types[(o - 12) \div 4 + 1]
            IN  IF o % 2 = 0 THEN type16 \div 256 ELSE type16 % 256]

(* A transport protocol: its number, the size of the fixed part of its     *)
(* header, and the bytes of it that the parser looks at.                   *)
Protocol(number, size) == [number |-> number, size |-> size]
TCP == Protocol(6, 20)
UDP == Protocol(17, 8)
ICMP == Protocol(1, 8)
ICMPv6 == Protocol(58, 8)
SCTP == Protocol(132, 12)

TransportBytes(transport, protocol) ==
    IF protocol = TCP THEN (transport + 12) :> 80 ELSE << >>

(* What a frame carries: the tags, the extension headers and what follows  *)
(* them at `starts`, the transport protocol and where its header is.       *)
Frame(bytes, tags, exts, starts, protocol, transport) ==
    [loopback |-> FALSE, byte |-> bytes, tags |-> tags, exts |-> exts,
     starts |-> starts, protocol |-> protocol.number, transport |-> transport,
     end |-> transport + protocol.size]

IPv4Bytes(tags, ihl, protocol) ==
    LET ip == 14 + 4 * Len(tags)
    IN  TypeBytes(tags, ETH_P_IP) @@ (ip :> 64 + ihl) @@ (ip + 9 :> protocol.number)
            @@ TransportBytes(ip + 4 * ihl, protocol)

IPv4Frames(tagSet, ihls) ==
    {Frame(IPv4Bytes(tags, ihl, protocol), tags, <<>>, <<>>, protocol,
           14 + 4 * Len(tags) + 4 * ihl) :
        tags \in tagSet, ihl \in ihls, protocol \in {TCP, UDP, ICMP, SCTP}}

(* An extension header: its kind and what its length field says.           *)
Ext(kind, units) == [kind |-> kind, units |-> units]
ExtStart(ip, exts, k) ==
    ip + 40 + MapThenSumSet(LAMBDA i : ExtSize(exts[i]), 1..(k - 1))

IPv6Bytes(tags, exts, protocol) ==
    LET ip == 14 + 4 * Len(tags)
        kinds == [k \in 1..(Len(exts) + 1) |->
                     IF k <= Len(exts) THEN exts[k].kind ELSE protocol.number]
        start == [k \in 1..(Len(exts) + 1) |-> ExtStart(ip, exts, k)]
        nexts == {start[k] : k \in 1..Len(exts)}
        lengths == {start[k] + 1 : k \in 1..Len(exts)}
        At(o) == CHOOSE k \in 1..Len(exts) : o \in {start[k], start[k] + 1}
    IN  TypeBytes(tags, ETH_P_IPV6) @@ (ip + 6 :> kinds[1])
            @@ [o \in nexts \cup lengths |->
                   IF o \in nexts THEN kinds[At(o) + 1] ELSE exts[At(o)].units]
            @@ TransportBytes(start[Len(exts) + 1], protocol)

Kinds == {Ext(0, 0), Ext(43, 2), Ext(44, 0), Ext(60, 1)}
Chains ==
    UNION {[1..n -> Kinds] : n \in 0..2}
        \cup {[k \in 1..n |-> Ext(kind, 0)] : n \in {6, 7, 8}, kind \in {0, 44}}

IPv6Frames(tagSet, chains) ==
    {Frame(IPv6Bytes(tags, exts, protocol), tags, exts,
           [k \in 1..(Len(exts) + 1) |-> ExtStart(14 + 4 * Len(tags), exts, k)],
           protocol, ExtStart(14 + 4 * Len(tags), exts, Len(exts) + 1)) :
        tags \in tagSet, exts \in chains, protocol \in {TCP, UDP, ICMPv6, SCTP}}

(* ARP, a second VLAN tag, and frames of the loopback device.              *)
Nothing == Protocol(-1, 0)
OddFrames ==
    {Frame(TypeBytes(<<>>, 2054), <<>>, <<>>, <<>>, Nothing, 14),
     Frame(TypeBytes(<<ETH_P_8021Q>>, ETH_P_8021Q), <<ETH_P_8021Q>>, <<>>, <<>>, Nothing, 18)}
    \cup {[f EXCEPT !.loopback = TRUE] : f \in IPv4Frames({<<>>}, {5})}

(* IPv4 headers shorter than IPv4 allows.                                  *)
ShortHeaders == IPv4Frames({<<>>}, {0, 4})

RightFrames ==
    IPv4Frames(TagLists, {5, 6})
        \cup IPv6Frames({<<>>, <<ETH_P_8021Q>>}, Chains) \cup OddFrames
AllFrames == RightFrames \cup ShortHeaders
AllLengths == 1..145

(* TransportFound speaks of all these frames but the short ones.           *)
ASSUME FramesLaidOut ==
    /\ \A f \in RightFrames : LaidOut(f)
    /\ \A f \in ShortHeaders : ~LaidOut(f)
=============================================================================
