------------------------- MODULE FrameParserProofs --------------------------
(***************************************************************************)
(* What holds of FrameParser for every frame, every number of received     *)
(* bytes and every content of the bytes that were not received.            *)
(***************************************************************************)
EXTENDS FrameParser, TLAPS

(* The bytes up to and including the Ethernet type were received.          *)
LinkReceived ==
    /\ pc # "done" => offset = ethr_header_len - 14
    /\ pc \in {"ethernet", "serviceTag"} => offset = 0
    /\ pc = "vlanTag" => offset \in {0, 4}
    /\ pc \in {"serviceTag", "vlanTag", "network"} => ethr_header_len <= recvlen
    /\ pc \in {"ethernet", "serviceTag", "vlanTag", "network"} => reached <= recvlen

(* An extension header is at most 2048 bytes long, and seven are looked    *)
(* at, the first one after at most 62 bytes.                               *)
WalkBounded ==
    /\ pc \in {"ethernet", "serviceTag", "vlanTag", "network"} => cond_break_loop = 1
    /\ pc = "extension" =>
           /\ ethtype = ETH_P_IPV6
           /\ cond_break_loop \in 1..8
           /\ total_header_lenght <= 62 + 2048 * (cond_break_loop - 1)
    /\ reached <= Content

(* The length check that precedes fill_tcp and fill_udp.                   *)
PortsChecked ==
    /\ pc \notin {"result", "done"} => ports_at = -1
    /\ ports_at # -1 => ports_at + FixedPart(protocolo_transporte) <= recvlen

Inv ==
    /\ TypeOK
    /\ frame \in Frames /\ recvlen \in Lengths
    /\ LinkReceived
    /\ WalkBounded
    /\ PortsChecked
    /\ HeadersReceived

(* The numbers that appear in the steps.                                   *)
LEMMA Sizes ==
    /\ recvlen \in Lengths => recvlen \in 1..Content
    /\ Content \in Nat /\ Content >= 15000
  <1>1. recvlen \in Lengths => recvlen \in 1..Content
    BY LengthsAssumption, Zenon
  <1>2. Content \in Nat /\ Content >= 15000
    BY ContentAssumption, SMT
  <1> QED
    BY <1>1, <1>2

(* The parser never takes one Ethernet type for another.                   *)
LEMMA Types ==
    /\ ETH_P_IP # ETH_P_IPV6
    /\ ETH_P_8021AD # ETH_P_IPV6
    /\ ETH_P_8021Q # ETH_P_IPV6
  BY SMT DEF ETH_P_IP, ETH_P_IPV6, ETH_P_8021AD, ETH_P_8021Q

(* A byte is a byte, wherever it comes from.                               *)
LEMMA ByteRange ==
    ASSUME frame \in Frames, NEW o, NEW b \in Byte(o)
    PROVE  b \in 0..255
  BY FramesAssumption, StaleAssumption, Zenon DEF Byte

(* Two bytes make a type.                                                  *)
LEMMA TypeRange ==
    ASSUME frame \in Frames, NEW at, ReadType(at)
    PROVE  ethtype' \in Nat /\ ethtype' < 65536
  <1>1. PICK high \in Byte(at), low \in Byte(at + 1) : ethtype' = 256 * high + low
    BY Zenon DEF ReadType
  <1>2. high \in 0..255
    BY ByteRange, Zenon
  <1>3. low \in 0..255
    BY ByteRange, Zenon
  <1> QED
    BY <1>1, <1>2, <1>3, SMT

(* Half a byte.                                                            *)
LEMMA Nibbles ==
    ASSUME NEW b \in 0..255
    PROVE  b % 16 \in 0..15 /\ b \div 16 \in 0..15
  BY SMT

(* How far the parser has read.                                            *)
LEMMA ReadUpToBound ==
    ASSUME NEW o \in Nat, reached \in Nat, headers_reached \in Nat, ReadUpTo(o)
    PROVE  /\ reached' \in Nat /\ (reached' = o \/ reached' = reached)
           /\ headers_reached' \in Nat
           /\ headers_reached' = o \/ headers_reached' = headers_reached
  BY SMT DEF ReadUpTo, Further

(* The invariant holds when thread 2 calls the parser.                     *)
LEMMA InitInv == Init => Inv
  <1> SUFFICES ASSUME Init PROVE Inv
    OBVIOUS
  <1>1. TypeOK
    BY SMT DEF Init, TypeOK, Labels
  <1>2. frame \in Frames /\ recvlen \in Lengths
    BY Zenon DEF Init
  <1>3. recvlen \in 1..Content /\ Content \in Nat
    BY <1>2, Sizes
  <1>4. LinkReceived
    BY <1>3, SMT DEF Init, LinkReceived
  <1>5. WalkBounded
    BY <1>3, SMT DEF Init, WalkBounded
  <1>6. PortsChecked
    BY SMT DEF Init, PortsChecked
  <1>7. HeadersReceived
    BY <1>3, SMT DEF Init, HeadersReceived
  <1> QED
    BY <1>1, <1>2, <1>4, <1>5, <1>6, <1>7 DEF Inv

(* A refused frame has no ports.                                           *)
LEMMA RefuseInv ==
    ASSUME Inv, pc \notin {"result", "done"}, Refuse, reached' \in Nat,
           reached' <= Content, headers_reached' \in Nat, headers_reached' <= recvlen
    PROVE  Inv'
  BY SMT DEF Refuse, Inv, TypeOK, Labels, LinkReceived, WalkBounded, PortsChecked,
     HeadersReceived, node, link, walk

(* One lemma for each action that reads bytes: it keeps the invariant.     *)
LEMMA EthernetInv == Inv /\ Ethernet => Inv'
  <1> SUFFICES ASSUME Inv, Ethernet PROVE Inv'
    OBVIOUS
  <1>1. recvlen \in 1..Content /\ Content \in Nat
    BY Sizes DEF Inv
  <1>2. CASE recvlen < 14 /\ Refuse /\ UNCHANGED reads
    <2>1. /\ reached \in Nat /\ reached <= Content
          /\ headers_reached \in Nat /\ headers_reached <= recvlen
      BY SMT DEF Inv, TypeOK, WalkBounded, HeadersReceived
    <2> QED
      BY <1>2, <2>1, RefuseInv, SMT DEF Ethernet, reads
  <1>3. CASE recvlen >= 14 /\ ReadType(12) /\ ReadUpTo(14)
    <2>1. ethtype' \in Nat /\ ethtype' < 65536
      BY <1>3, TypeRange, SMT DEF Inv
    <2>2. /\ reached' \in Nat /\ (reached' = 14 \/ reached' = reached)
          /\ headers_reached' \in Nat
          /\ headers_reached' = 14 \/ headers_reached' = headers_reached
      BY <1>3, ReadUpToBound, SMT DEF Inv, TypeOK
    <2>3. /\ pc = "ethernet" /\ pc' = "serviceTag"
          /\ UNCHANGED <<frame, recvlen, offset, ethr_header_len, is_vlan, protocolo,
                         cond_break_loop, total_header_lenght, protocolo_transporte,
                         ports_at, verdict>>
      BY <1>1, <1>3, SMT DEF Ethernet, Refuse, node, walk
    <2>4. TypeOK'
      BY <2>1, <2>2, <2>3, SMT DEF Inv, TypeOK, Labels
    <2>5. LinkReceived'
      BY <1>1, <1>3, <2>2, <2>3, SMT DEF Inv, TypeOK, LinkReceived
    <2>6. WalkBounded'
      BY <1>1, <1>3, <2>2, <2>3, SMT DEF Inv, TypeOK, WalkBounded
    <2>7. PortsChecked'
      BY <2>3, SMT DEF Inv, TypeOK, PortsChecked
    <2>8. HeadersReceived'
      BY <1>1, <1>3, <2>2, <2>3, SMT DEF Inv, TypeOK, LinkReceived, HeadersReceived
    <2> QED
      BY <2>3, <2>4, <2>5, <2>6, <2>7, <2>8 DEF Inv
  <1> QED
    BY <1>2, <1>3, Zenon DEF Ethernet

(* Taking a tag, in either place: the check that precedes it covers the    *)
(* two bytes of the type behind it.                                        *)
LEMMA TakeTagInv ==
    ASSUME Inv, NEW next \in {"vlanTag", "network"}, TakeTag(next),
           offset = 0 \/ (offset = 4 /\ next = "network"),
           ethtype # ETH_P_IPV6,
           pc \in {"serviceTag", "vlanTag"}, is_vlan' \in {0, 1},
           UNCHANGED <<node, walk, ports_at>>
    PROVE  Inv'
  <1>1. recvlen \in 1..Content /\ Content \in Nat
    BY Sizes DEF Inv
  <1>2. UNCHANGED <<frame, recvlen, protocolo, cond_break_loop, total_header_lenght,
                    protocolo_transporte, ports_at>>
    BY Zenon DEF node, walk
  <1>3. offset' = offset + 4
    BY Zenon DEF TakeTag
  <1>4. CASE recvlen < 14 + offset'
    <2>1. /\ verdict' = "null" /\ pc' = "done"
          /\ UNCHANGED <<ethtype, ethr_header_len, reached, headers_reached>>
      BY <1>1, <1>3, <1>4, SMT DEF TakeTag, Inv, TypeOK, reads
    <2>2. TypeOK'
      BY <1>2, <1>3, <2>1, SMT DEF Inv, TypeOK, Labels
    <2>3. LinkReceived'
      BY <2>1, SMT DEF LinkReceived
    <2>4. WalkBounded'
      BY <1>2, <2>1, SMT DEF Inv, TypeOK, WalkBounded
    <2>5. PortsChecked'
      BY <1>2, <2>1, SMT DEF Inv, TypeOK, PortsChecked
    <2>6. HeadersReceived'
      BY <1>1, <1>2, <2>1, SMT DEF Inv, TypeOK, HeadersReceived
    <2> QED
      BY <1>2, <2>2, <2>3, <2>4, <2>5, <2>6 DEF Inv
  <1>5. CASE recvlen >= 14 + offset'
    <2>1. /\ ethr_header_len' = ethr_header_len + 4
          /\ ReadType(12 + offset') /\ ReadUpTo(14 + offset')
          /\ pc' = next
          /\ UNCHANGED verdict
      BY <1>1, <1>3, <1>5, SMT DEF TakeTag, LengthWithTag, Inv, TypeOK
    <2>2. ethtype' \in Nat /\ ethtype' < 65536
      BY <2>1, TypeRange, SMT DEF Inv
    <2>3. /\ reached' \in Nat /\ (reached' = 14 + offset' \/ reached' = reached)
          /\ headers_reached' \in Nat
          /\ headers_reached' = 14 + offset' \/ headers_reached' = headers_reached
      BY <1>3, <2>1, ReadUpToBound, SMT DEF Inv, TypeOK
    <2>4. /\ offset' = ethr_header_len' - 14
          /\ offset' \in {4, 8} /\ (next = "vlanTag" => offset' = 4)
          /\ ethr_header_len' \in {18, 22}
      BY <1>3, <2>1, SMT DEF Inv, TypeOK, LinkReceived
    <2>5. TypeOK'
      BY <1>2, <2>1, <2>2, <2>3, <2>4, SMT DEF Inv, TypeOK, Labels
    <2>6. LinkReceived'
      BY <1>1, <1>2, <1>5, <2>1, <2>3, <2>4, SMT DEF Inv, TypeOK, LinkReceived
    <2>7. WalkBounded'
      BY <1>1, <1>2, <1>5, <2>1, <2>3, <2>4, SMT DEF Inv, TypeOK, WalkBounded
    <2>8. PortsChecked'
      BY <1>2, <2>1, SMT DEF Inv, TypeOK, PortsChecked
    <2>9. HeadersReceived'
      BY <1>1, <1>2, <1>5, <2>1, <2>3, <2>4, SMT DEF Inv, TypeOK, LinkReceived, HeadersReceived
    <2> QED
      BY <1>2, <2>5, <2>6, <2>7, <2>8, <2>9 DEF Inv
  <1> QED
    BY <1>1, <1>3, <1>4, <1>5, SMT DEF Inv, TypeOK

LEMMA ServiceTagInv == Inv /\ ServiceTag => Inv'
  <1> SUFFICES ASSUME Inv, ServiceTag PROVE Inv'
    OBVIOUS
  <1>1. recvlen \in 1..Content /\ Content \in Nat
    BY Sizes DEF Inv
  <1>2. CASE ethtype = ETH_P_8021AD /\ TakeTag("vlanTag")
    <2>1. /\ ethtype # ETH_P_IPV6 /\ pc = "serviceTag" /\ is_vlan' \in {0, 1}
          /\ UNCHANGED <<node, walk, ports_at>>
      BY <1>2, Types, SMT DEF ServiceTag, Inv, TypeOK
    <2>2. offset = 0
      BY <2>1, SMT DEF Inv, TypeOK, LinkReceived
    <2> QED
      BY <1>2, <2>1, <2>2, TakeTagInv
  <1>3. CASE ethtype # ETH_P_8021AD
    <2>1. /\ pc = "serviceTag" /\ pc' = "vlanTag"
          /\ UNCHANGED <<frame, recvlen, ethtype, offset, ethr_header_len, is_vlan,
                         protocolo, cond_break_loop, total_header_lenght,
                         protocolo_transporte, ports_at, reached, headers_reached, verdict>>
      BY <1>3, SMT DEF ServiceTag, node, reads, walk
    <2>2. TypeOK'
      BY <2>1, SMT DEF Inv, TypeOK, Labels
    <2>3. LinkReceived'
      BY <2>1, SMT DEF Inv, TypeOK, LinkReceived
    <2>4. WalkBounded'
      BY <2>1, SMT DEF Inv, WalkBounded
    <2>5. PortsChecked'
      BY <2>1, SMT DEF Inv, PortsChecked
    <2>6. HeadersReceived'
      BY <2>1, SMT DEF Inv, HeadersReceived
    <2> QED
      BY <2>1, <2>2, <2>3, <2>4, <2>5, <2>6 DEF Inv
  <1> QED
    BY <1>2, <1>3, Zenon DEF ServiceTag

LEMMA VlanTagInv == Inv /\ VlanTag => Inv'
  <1> SUFFICES ASSUME Inv, VlanTag PROVE Inv'
    OBVIOUS
  <1>1. recvlen \in 1..Content /\ Content \in Nat
    BY Sizes DEF Inv
  <1>2. CASE ethtype = ETH_P_8021Q /\ TakeTag("network")
    <2>1. /\ ethtype # ETH_P_IPV6 /\ pc = "vlanTag" /\ is_vlan' \in {0, 1}
          /\ UNCHANGED <<node, walk, ports_at>>
      BY <1>2, Types, SMT DEF VlanTag, Inv, TypeOK
    <2>2. offset = 0 \/ offset = 4
      BY <2>1, SMT DEF Inv, LinkReceived
    <2> QED
      BY <1>2, <2>1, <2>2, TakeTagInv
  <1>3. CASE ethtype # ETH_P_8021Q
    <2>1. /\ pc = "vlanTag" /\ pc' = "network"
          /\ UNCHANGED <<frame, recvlen, ethtype, offset, ethr_header_len, is_vlan,
                         protocolo, cond_break_loop, total_header_lenght,
                         protocolo_transporte, ports_at, reached, headers_reached, verdict>>
      BY <1>3, SMT DEF VlanTag, node, reads, walk
    <2>2. TypeOK'
      BY <2>1, SMT DEF Inv, TypeOK, Labels
    <2>3. LinkReceived'
      BY <2>1, SMT DEF Inv, LinkReceived
    <2>4. WalkBounded'
      BY <2>1, SMT DEF Inv, WalkBounded
    <2>5. PortsChecked'
      BY <2>1, SMT DEF Inv, PortsChecked
    <2>6. HeadersReceived'
      BY <2>1, SMT DEF Inv, HeadersReceived
    <2> QED
      BY <2>1, <2>2, <2>3, <2>4, <2>5, <2>6 DEF Inv
  <1> QED
    BY <1>2, <1>3, Zenon DEF VlanTag

LEMMA OtherProtocolInv == Inv /\ OtherProtocol => Inv'
  <1> SUFFICES ASSUME Inv, OtherProtocol PROVE Inv'
    OBVIOUS
  <1>1. /\ pc = "network" /\ pc' = "result"
        /\ total_header_lenght' = 0 /\ protocolo_transporte' = -1
        /\ UNCHANGED <<frame, recvlen, ethtype, offset, ethr_header_len, is_vlan,
                       protocolo, cond_break_loop, ports_at, reached, headers_reached, verdict>>
    BY Zenon DEF OtherProtocol, node, reads, link
  <1>2. TypeOK'
    BY <1>1, SMT DEF Inv, TypeOK, Labels
  <1>3. LinkReceived'
    BY <1>1, SMT DEF Inv, LinkReceived
  <1>4. WalkBounded'
    BY <1>1, SMT DEF Inv, WalkBounded
  <1>5. PortsChecked'
    BY <1>1, SMT DEF Inv, PortsChecked
  <1>6. HeadersReceived'
    BY <1>1, SMT DEF Inv, HeadersReceived
  <1> QED
    BY <1>1, <1>2, <1>3, <1>4, <1>5, <1>6 DEF Inv

(* The options of IPv4 are not read, and their length was checked.         *)
LEMMA IPv4Inv == Inv /\ IPv4 => Inv'
  <1> SUFFICES ASSUME Inv, IPv4 PROVE Inv'
    OBVIOUS
  <1>1. recvlen \in 1..Content /\ Content \in Nat
    BY Sizes DEF Inv
  <1>2. /\ pc = "network" /\ ethtype = ETH_P_IP /\ ethtype # ETH_P_IPV6
        /\ reached \in Nat /\ reached <= recvlen /\ ethr_header_len \in {14, 18, 22}
        /\ headers_reached \in Nat /\ headers_reached <= recvlen
    BY Types, SMT DEF IPv4, Inv, TypeOK, LinkReceived, HeadersReceived
  <1>3. CASE recvlen < ethr_header_len + Minimum(ETH_P_IP) /\ Refuse /\ UNCHANGED reads
    <2>1. /\ reached' \in Nat /\ reached' <= recvlen /\ reached' <= Content
          /\ headers_reached' \in Nat /\ headers_reached' <= recvlen
      BY <1>1, <1>2, <1>3, SMT DEF reads
    <2> QED
      BY <1>2, <1>3, <2>1, RefuseInv, Zenon
  <1>4. CASE ~(recvlen < ethr_header_len + Minimum(ETH_P_IP) /\ Refuse /\ UNCHANGED reads)
    <2>1. /\ recvlen >= ethr_header_len + 20
          /\ ReadUpTo(ethr_header_len + 20)
      BY <1>4, SMT DEF IPv4, Minimum
    <2>2. /\ reached' \in Nat /\ reached' <= recvlen /\ reached' <= Content
          /\ headers_reached' \in Nat /\ headers_reached' <= recvlen
      BY <1>1, <1>2, <2>1, SMT DEF ReadUpTo, Further
    <2>3. PICK first \in Byte(ethr_header_len), protocol \in Byte(ethr_header_len + 9) :
             \/ Refuse
             \/ /\ total_header_lenght' = ethr_header_len + 4 * (first % 16)
                /\ protocolo_transporte' = KnownTransport(protocol)
                /\ pc' = "transport"
                /\ UNCHANGED <<node, link, protocolo, cond_break_loop, ports_at, verdict>>
      BY <1>4, Zenon DEF IPv4
    <2>4. CASE Refuse
      BY <1>2, <2>2, <2>4, RefuseInv, Zenon
    <2>5. CASE ~Refuse
      <3>1. /\ pc' = "transport"
            /\ total_header_lenght' = ethr_header_len + 4 * (first % 16)
            /\ UNCHANGED <<frame, recvlen, ethtype, offset, ethr_header_len, is_vlan,
                           protocolo, cond_break_loop, ports_at, verdict>>
        BY <2>3, <2>5, Zenon DEF node, link
      <3>2. first \in 0..255
        BY ByteRange, Zenon DEF Inv
      <3>3. total_header_lenght' \in Nat
        BY <1>2, <3>1, <3>2, Nibbles, SMT
      <3>4. protocolo_transporte' \in {-1, 0, 1, 5, 6, 17, 58}
        BY <2>3, <2>5, SMT DEF KnownTransport
      <3>5. TypeOK'
        BY <2>2, <3>1, <3>3, <3>4, SMT DEF Inv, TypeOK, Labels
      <3>6. LinkReceived'
        BY <1>2, <3>1, SMT DEF Inv, LinkReceived
      <3>7. WalkBounded'
        BY <2>2, <3>1, SMT DEF Inv, WalkBounded
      <3>8. PortsChecked'
        BY <1>2, <3>1, SMT DEF Inv, PortsChecked
      <3>9. HeadersReceived'
        BY <2>2, <3>1, SMT DEF HeadersReceived
      <3> QED
        BY <3>1, <3>5, <3>6, <3>7, <3>8, <3>9 DEF Inv
    <2> QED
      BY <2>4, <2>5
  <1> QED
    BY <1>3, <1>4

LEMMA IPv6Inv == Inv /\ IPv6 => Inv'
  <1> SUFFICES ASSUME Inv, IPv6 PROVE Inv'
    OBVIOUS
  <1>1. recvlen \in 1..Content /\ Content \in Nat /\ Content >= 15000
    BY Sizes DEF Inv
  <1>2. /\ pc = "network" /\ ethtype = ETH_P_IPV6 /\ cond_break_loop = 1
        /\ reached \in Nat /\ reached <= recvlen /\ ethr_header_len \in {14, 18, 22}
        /\ headers_reached \in Nat /\ headers_reached <= recvlen
    BY SMT DEF IPv6, Inv, TypeOK, LinkReceived, WalkBounded, HeadersReceived
  <1>3. CASE recvlen < ethr_header_len + Minimum(ETH_P_IPV6) /\ Refuse /\ UNCHANGED reads
    <2>1. /\ reached' \in Nat /\ reached' <= recvlen /\ reached' <= Content
          /\ headers_reached' \in Nat /\ headers_reached' <= recvlen
      BY <1>1, <1>2, <1>3, SMT DEF reads
    <2> QED
      BY <1>2, <1>3, <2>1, RefuseInv, Zenon
  <1>4. CASE ~(recvlen < ethr_header_len + Minimum(ETH_P_IPV6) /\ Refuse /\ UNCHANGED reads)
    <2>1. /\ recvlen >= ethr_header_len + 40
          /\ ReadUpTo(ethr_header_len + 40)
          /\ protocolo' \in Byte(ethr_header_len + 6)
          /\ total_header_lenght' = ethr_header_len + 40
      BY <1>4, Types, SMT DEF IPv6, Minimum
    <2>2. /\ pc' = "extension"
          /\ UNCHANGED <<frame, recvlen, ethtype, offset, ethr_header_len, is_vlan,
                         cond_break_loop, protocolo_transporte, ports_at, verdict>>
      BY <1>4, Zenon DEF IPv6, node, link
    <2>3. /\ reached' \in Nat /\ reached' <= recvlen /\ reached' <= Content
          /\ headers_reached' \in Nat /\ headers_reached' <= recvlen
      BY <1>1, <1>2, <2>1, SMT DEF ReadUpTo, Further
    <2>4. protocolo' \in 0..255
      BY <2>1, ByteRange, Zenon DEF Inv
    <2>5. TypeOK'
      BY <1>1, <1>2, <2>1, <2>2, <2>3, <2>4, SMT DEF Inv, TypeOK, Labels
    <2>6. LinkReceived'
      BY <1>1, <1>2, <2>1, <2>2, <2>3, SMT DEF Inv, TypeOK, LinkReceived
    <2>7. WalkBounded'
      BY <1>1, <1>2, <2>1, <2>2, <2>3, SMT DEF Inv, TypeOK, WalkBounded
    <2>8. PortsChecked'
      BY <1>1, <1>2, <2>1, <2>2, <2>3, SMT DEF Inv, TypeOK, PortsChecked
    <2>9. HeadersReceived'
      BY <1>1, <1>2, <2>1, <2>2, <2>3, SMT DEF Inv, TypeOK, HeadersReceived
    <2> QED
      BY <2>2, <2>5, <2>6, <2>7, <2>8, <2>9 DEF Inv
  <1> QED
    BY <1>3, <1>4

(* No length is checked in the loop of fill_ipv6, but it ends.             *)
LEMMA ExtensionInv == Inv /\ Extension => Inv'
  <1> SUFFICES ASSUME Inv, Extension PROVE Inv'
    OBVIOUS
  <1>1. Content \in Nat /\ Content >= 15000
    BY Sizes
  <1>2. /\ pc = "extension" /\ pc' = pc /\ ethtype = ETH_P_IPV6
        /\ cond_break_loop \in 1..7 /\ cond_break_loop' = cond_break_loop + 1
        /\ total_header_lenght \in Nat
        /\ total_header_lenght <= 62 + 2048 * (cond_break_loop - 1)
        /\ reached \in Nat /\ reached <= Content
    BY SMT DEF Extension, Inv, TypeOK, WalkBounded
  <1>3. UNCHANGED <<frame, recvlen, ethtype, offset, ethr_header_len, is_vlan,
                    protocolo_transporte, ports_at, verdict>>
    BY Zenon DEF Extension, node, link
  <1>4. protocolo' \in 0..255
    <2>1. protocolo' \in Byte(total_header_lenght)
      BY Zenon DEF Extension
    <2> QED
      BY <2>1, ByteRange, Zenon DEF Inv
  <1>5. /\ total_header_lenght' \in Nat
        /\ total_header_lenght' <= total_header_lenght + 2048
        /\ ReadExtensionUpTo(total_header_lenght + 1)
           \/ ReadExtensionUpTo(total_header_lenght + 2)
    <2>1. CASE protocolo = Fragment
      BY <1>2, <2>1, SMT DEF Extension
    <2>2. CASE protocolo # Fragment
      <3>1. PICK length \in Byte(total_header_lenght + 1) :
               total_header_lenght' = total_header_lenght + 8 * (length + 1)
        BY <2>2, Zenon DEF Extension, ExtensionSize
      <3>2. length \in 0..255
        BY ByteRange, Zenon DEF Inv
      <3>3. ReadExtensionUpTo(total_header_lenght + 2)
        BY <2>2, Zenon DEF Extension
      <3> QED
        BY <1>2, <3>1, <3>2, <3>3, SMT
    <2> QED
      BY <2>1, <2>2
  <1>6. reached' \in Nat /\ reached' <= Content /\ UNCHANGED headers_reached
    BY <1>1, <1>2, <1>5, SMT DEF ReadExtensionUpTo, Further
  <1>7. total_header_lenght' <= 62 + 2048 * (cond_break_loop' - 1)
    BY <1>2, <1>5, SMT
  <1>8. TypeOK'
    BY <1>2, <1>3, <1>4, <1>5, <1>6, SMT DEF Inv, TypeOK, Labels
  <1>9. LinkReceived'
    BY <1>2, <1>3, SMT DEF Inv, TypeOK, LinkReceived
  <1>10. WalkBounded'
    BY <1>2, <1>3, <1>6, <1>7, SMT DEF Inv, TypeOK, WalkBounded
  <1>11. PortsChecked'
    BY <1>2, <1>3, SMT DEF Inv, TypeOK, PortsChecked
  <1>12. HeadersReceived'
    BY <1>3, <1>6, SMT DEF Inv, TypeOK, HeadersReceived
  <1> QED
    BY <1>3, <1>8, <1>9, <1>10, <1>11, <1>12 DEF Inv

LEMMA LastExtensionInv == Inv /\ LastExtension => Inv'
  <1> SUFFICES ASSUME Inv, LastExtension PROVE Inv'
    OBVIOUS
  <1>1. /\ pc = "extension" /\ pc' = "transport"
        /\ UNCHANGED <<frame, recvlen, ethtype, offset, ethr_header_len, is_vlan,
                       protocolo, total_header_lenght, ports_at, reached, headers_reached, verdict>>
    BY Zenon DEF LastExtension, node, reads, link
  <1>2. /\ cond_break_loop' \in 0..8
        /\ protocolo_transporte' \in {-1, 0, 1, 5, 6, 17, 58}
        /\ ethtype = ETH_P_IPV6
    BY <1>1, SMT DEF LastExtension, Inv, TypeOK, WalkBounded
  <1>3. TypeOK'
    BY <1>1, <1>2, SMT DEF Inv, TypeOK, Labels
  <1>4. LinkReceived'
    BY <1>1, <1>2, SMT DEF Inv, TypeOK, LinkReceived
  <1>5. WalkBounded'
    BY <1>1, <1>2, SMT DEF Inv, TypeOK, WalkBounded
  <1>6. PortsChecked'
    BY <1>1, <1>2, SMT DEF Inv, TypeOK, PortsChecked
  <1>7. HeadersReceived'
    BY <1>1, <1>2, SMT DEF Inv, TypeOK, HeadersReceived
  <1> QED
    BY <1>1, <1>3, <1>4, <1>5, <1>6, <1>7 DEF Inv

(* Tcp: the check before it covers what it reads, and the ports.         *)
LEMMA TcpInv == Inv /\ Tcp => Inv'
  <1> SUFFICES ASSUME Inv, Tcp PROVE Inv'
    OBVIOUS
  <1>1. recvlen \in 1..Content /\ Content \in Nat
    BY Sizes DEF Inv
  <1>2. /\ pc = "transport" /\ protocolo_transporte = 6
        /\ total_header_lenght \in Nat /\ reached \in Nat /\ reached <= Content
        /\ headers_reached \in Nat /\ headers_reached <= recvlen
    BY SMT DEF Tcp, Inv, TypeOK, WalkBounded, HeadersReceived
  <1>3. CASE recvlen < total_header_lenght + FixedPart(6) /\ Refuse /\ UNCHANGED reads
    <2>1. /\ reached' \in Nat /\ reached' <= Content
          /\ headers_reached' \in Nat /\ headers_reached' <= recvlen
      BY <1>2, <1>3, SMT DEF reads
    <2> QED
      BY <1>2, <1>3, <2>1, RefuseInv
  <1>4. CASE ~(recvlen < total_header_lenght + FixedPart(6) /\ Refuse /\ UNCHANGED reads)
    <2>1. /\ recvlen >= total_header_lenght + FixedPart(6)
          /\ ports_at' = total_header_lenght
          /\ ReadUpTo(total_header_lenght + 14)
          /\ pc' = "result"
          /\ UNCHANGED <<frame, recvlen, ethtype, offset, ethr_header_len, is_vlan,
                         protocolo, cond_break_loop, protocolo_transporte, verdict>>
      BY <1>4, Zenon DEF Tcp, node, link
    <2>2. FixedPart(6) = 20
      BY SMT DEF FixedPart
    <2>3. /\ reached' \in Nat /\ reached' <= Content
          /\ headers_reached' \in Nat /\ headers_reached' <= recvlen
      BY <1>1, <1>2, <2>1, <2>2, SMT DEF ReadUpTo, Further
    <2>4. total_header_lenght' \in Nat
      <3>1. PICK size \in Byte(total_header_lenght + 12) :
               total_header_lenght' = total_header_lenght + 4 * (size \div 16)
        BY <1>4, Zenon DEF Tcp
      <3>2. size \in 0..255
        BY ByteRange, Zenon DEF Inv
      <3> QED
        BY <1>2, <3>1, <3>2, Nibbles, SMT
    <2>5. TypeOK'
      BY <1>1, <1>2, <2>1, <2>3, <2>4, SMT DEF Inv, TypeOK, Labels
    <2>6. LinkReceived'
      BY <1>1, <1>2, <2>1, <2>3, SMT DEF Inv, TypeOK, LinkReceived
    <2>7. WalkBounded'
      BY <1>1, <1>2, <2>1, <2>3, SMT DEF Inv, TypeOK, WalkBounded
    <2>8. PortsChecked'
      BY <1>1, <1>2, <2>1, <2>3, SMT DEF Inv, TypeOK, PortsChecked
    <2>9. HeadersReceived'
      BY <1>1, <1>2, <2>1, <2>3, SMT DEF Inv, TypeOK, HeadersReceived
    <2> QED
      BY <2>1, <2>5, <2>6, <2>7, <2>8, <2>9 DEF Inv
  <1> QED
    BY <1>3, <1>4

(* Udp: the check before it covers what it reads, and the ports.         *)
LEMMA UdpInv == Inv /\ Udp => Inv'
  <1> SUFFICES ASSUME Inv, Udp PROVE Inv'
    OBVIOUS
  <1>1. recvlen \in 1..Content /\ Content \in Nat
    BY Sizes DEF Inv
  <1>2. /\ pc = "transport" /\ protocolo_transporte = 17
        /\ total_header_lenght \in Nat /\ reached \in Nat /\ reached <= Content
        /\ headers_reached \in Nat /\ headers_reached <= recvlen
    BY SMT DEF Udp, Inv, TypeOK, WalkBounded, HeadersReceived
  <1>3. CASE recvlen < total_header_lenght + FixedPart(17) /\ Refuse /\ UNCHANGED reads
    <2>1. /\ reached' \in Nat /\ reached' <= Content
          /\ headers_reached' \in Nat /\ headers_reached' <= recvlen
      BY <1>2, <1>3, SMT DEF reads
    <2> QED
      BY <1>2, <1>3, <2>1, RefuseInv
  <1>4. CASE ~(recvlen < total_header_lenght + FixedPart(17) /\ Refuse /\ UNCHANGED reads)
    <2>1. /\ recvlen >= total_header_lenght + FixedPart(17)
          /\ ports_at' = total_header_lenght
          /\ ReadUpTo(total_header_lenght + 4)
          /\ pc' = "result"
          /\ UNCHANGED <<frame, recvlen, ethtype, offset, ethr_header_len, is_vlan,
                         protocolo, cond_break_loop, protocolo_transporte, verdict>>
      BY <1>4, Zenon DEF Udp, node, link
    <2>2. FixedPart(17) = 8
      BY SMT DEF FixedPart
    <2>3. /\ reached' \in Nat /\ reached' <= Content
          /\ headers_reached' \in Nat /\ headers_reached' <= recvlen
      BY <1>1, <1>2, <2>1, <2>2, SMT DEF ReadUpTo, Further
    <2>4. total_header_lenght' \in Nat
      BY <1>2, <1>4, SMT DEF Udp
    <2>5. TypeOK'
      BY <1>1, <1>2, <2>1, <2>3, <2>4, SMT DEF Inv, TypeOK, Labels
    <2>6. LinkReceived'
      BY <1>1, <1>2, <2>1, <2>3, SMT DEF Inv, TypeOK, LinkReceived
    <2>7. WalkBounded'
      BY <1>1, <1>2, <2>1, <2>3, SMT DEF Inv, TypeOK, WalkBounded
    <2>8. PortsChecked'
      BY <1>1, <1>2, <2>1, <2>3, SMT DEF Inv, TypeOK, PortsChecked
    <2>9. HeadersReceived'
      BY <1>1, <1>2, <2>1, <2>3, SMT DEF Inv, TypeOK, HeadersReceived
    <2> QED
      BY <2>1, <2>5, <2>6, <2>7, <2>8, <2>9 DEF Inv
  <1> QED
    BY <1>3, <1>4

LEMMA OtherTransportInv == Inv /\ OtherTransport => Inv'
  <1> SUFFICES ASSUME Inv, OtherTransport PROVE Inv'
    OBVIOUS
  <1>1. /\ pc = "transport" /\ pc' = "result"
        /\ UNCHANGED <<frame, recvlen, ethtype, offset, ethr_header_len, is_vlan,
                       protocolo, cond_break_loop, total_header_lenght,
                       protocolo_transporte, ports_at, reached, headers_reached, verdict>>
    BY Zenon DEF OtherTransport, node, reads, link, walk
  <1>2. verdict' \in {"none", "null", "loopback", "packet"}
    BY SMT DEF OtherTransport, Inv, TypeOK
  <1>3. TypeOK'
    BY <1>1, <1>2, SMT DEF Inv, TypeOK, Labels
  <1>4. LinkReceived'
    BY <1>1, SMT DEF Inv, TypeOK, LinkReceived
  <1>5. WalkBounded'
    BY <1>1, SMT DEF Inv, TypeOK, WalkBounded
  <1>6. PortsChecked'
    BY <1>1, SMT DEF Inv, TypeOK, PortsChecked
  <1>7. HeadersReceived'
    BY <1>1, SMT DEF Inv, TypeOK, HeadersReceived
  <1> QED
    BY <1>1, <1>3, <1>4, <1>5, <1>6, <1>7 DEF Inv

LEMMA ResultInv == Inv /\ Result => Inv'
  <1> SUFFICES ASSUME Inv, Result PROVE Inv'
    OBVIOUS
  <1>1. /\ pc = "result" /\ pc' = "done"
        /\ UNCHANGED <<frame, recvlen, ethtype, offset, ethr_header_len, is_vlan,
                       protocolo, cond_break_loop, total_header_lenght,
                       protocolo_transporte, ports_at, reached, headers_reached>>
    BY Zenon DEF Result, node, reads, link, walk
  <1>2. verdict' \in {"none", "null", "loopback", "packet"}
    BY SMT DEF Result, Inv, TypeOK
  <1>3. TypeOK'
    BY <1>1, <1>2, SMT DEF Inv, TypeOK, Labels
  <1>4. LinkReceived'
    BY <1>1, SMT DEF Inv, TypeOK, LinkReceived
  <1>5. WalkBounded'
    BY <1>1, SMT DEF Inv, TypeOK, WalkBounded
  <1>6. PortsChecked'
    BY <1>1, SMT DEF Inv, TypeOK, PortsChecked
  <1>7. HeadersReceived'
    BY <1>1, SMT DEF Inv, TypeOK, HeadersReceived
  <1> QED
    BY <1>1, <1>3, <1>4, <1>5, <1>6, <1>7 DEF Inv

-----------------------------------------------------------------------------
(* The strengthened invariant is an invariant of the parser.               *)
THEOREM Invariance == Spec => []Inv
  <1>1. Inv /\ [Next]_vars => Inv'
    <2> SUFFICES ASSUME Inv, [Next]_vars PROVE Inv'
      OBVIOUS
    <2>1. CASE UNCHANGED vars
      <3>1. UNCHANGED <<pc, frame, recvlen, ethtype, offset, ethr_header_len, is_vlan,
                       protocolo, cond_break_loop, total_header_lenght,
                       protocolo_transporte, ports_at, reached, headers_reached, verdict>>
        BY <2>1, Zenon DEF vars, node, reads, link, walk
      <3>2. TypeOK'
        BY <3>1, SMT DEF Inv, TypeOK
      <3>3. LinkReceived'
        BY <3>1, SMT DEF Inv, LinkReceived
      <3>4. WalkBounded'
        BY <3>1, SMT DEF Inv, WalkBounded
      <3>5. PortsChecked'
        BY <3>1, SMT DEF Inv, PortsChecked
      <3>6. HeadersReceived'
        BY <3>1, SMT DEF Inv, HeadersReceived
      <3> QED
        BY <3>1, <3>2, <3>3, <3>4, <3>5, <3>6 DEF Inv
    <2> QED
      BY <2>1, EthernetInv, ServiceTagInv, VlanTagInv, OtherProtocolInv, IPv4Inv, IPv6Inv,
         ExtensionInv, LastExtensionInv, TcpInv, UdpInv, OtherTransportInv, ResultInv, Zenon
         DEF Next, Stopped
  <1> QED
    BY InitInv, <1>1, PTL DEF Spec

(* The parser's state keeps its types.                                     *)
THEOREM TypeCorrect == Spec => []TypeOK
  <1>1. Inv => TypeOK
    BY DEF Inv
  <1> QED
    BY Invariance, <1>1, PTL

(* fill_fullPacket_node never reads outside the block it is given.         *)
THEOREM BlockRespected == Spec => []ReadsWithinContent
  <1>1. Inv => ReadsWithinContent
    BY Zenon DEF Inv, WalkBounded, ReadsWithinContent
  <1> QED
    BY Invariance, <1>1, PTL

(* It reads received bytes only, but in IPv6 extension headers: also in    *)
(* the fixed header of IPv6 and in the transport header behind it          *)
(* (packet_service.c:390-411).                                             *)
THEOREM ChecksSuffice == Spec => []HeadersReceived
  <1>1. Inv => HeadersReceived
    BY DEF Inv
  <1> QED
    BY Invariance, <1>1, PTL

(* The ports of a packet come from a header that was received.             *)
THEOREM PortsComeFromHeaders == Spec => []PortsReceived
  <1>1. Inv => PortsReceived
    BY Zenon DEF Inv, PortsChecked, PortsReceived, FixedPart
  <1> QED
    BY Invariance, <1>1, PTL

-----------------------------------------------------------------------------
(* The parser on a legible frame.  What it should find in it:              *)
Vlan(f) == IF \E k \in DOMAIN f.tags : f.tags[k] = ETH_P_8021Q THEN 1 ELSE 0
Transport(f) == IF f.protocol \in Named(f) THEN f.protocol ELSE -1
Ports(f) == IF f.protocol \in {6, 17} THEN f.transport ELSE -1
ServiceTagged(f) == f.tags # <<>> /\ f.tags[1] = ETH_P_8021AD

(* At each header the parser is where the frame has that header, and knows *)
(* what the headers before it say.                                         *)
OnTrack ==
    /\ pc \in {"ethernet", "serviceTag", "vlanTag"} => is_vlan = 0
    /\ pc \notin {"ethernet", "serviceTag", "vlanTag"} => is_vlan = Vlan(frame)
    /\ pc = "serviceTag" => ethtype = TypeAt(frame, 12)
    /\ pc = "vlanTag" =>
           /\ offset = IF ServiceTagged(frame) THEN 4 ELSE 0
           /\ ethtype = TypeAt(frame, 12 + offset)
    /\ pc = "network" =>
           /\ ethtype = Type(frame)
           /\ ethr_header_len = InternetStart(frame)
    /\ pc = "extension" =>
           /\ IPv6LaidOut(frame)
           /\ cond_break_loop \in 1..Len(frame.exts) + 1
           /\ total_header_lenght = frame.starts[cond_break_loop]
           /\ protocolo = Following(frame, cond_break_loop)
    /\ pc = "transport" =>
           /\ total_header_lenght = frame.transport
           /\ frame.protocol # -1
    /\ pc \in {"transport", "result", "done"} => protocolo_transporte = Transport(frame)
    /\ pc \in {"result", "done"} => ports_at = Ports(frame)
    /\ pc = "done" => verdict = IF frame.loopback THEN "loopback" ELSE "packet"

(* The link layer of a legible frame, by the two tags it may have.         *)
LEMMA LinkFacts ==
    ASSUME NEW f, LaidOut(f)
    PROVE  LET o == IF ServiceTagged(f) THEN 4 ELSE 0
           IN  /\ f.end \in Nat /\ f.end >= InternetStart(f)
               /\ Given(f, 12) /\ Given(f, 13) /\ f.end >= 14
               /\ IF ServiceTagged(f)
                  THEN TypeAt(f, 12) = ETH_P_8021AD /\ Given(f, 16) /\ Given(f, 17)
                       /\ f.end >= 18
                  ELSE TypeAt(f, 12) # ETH_P_8021AD
               /\ Vlan(f) \in {0, 1}
               /\ Vlan(f) = 1 =>
                      /\ TypeAt(f, 12 + o) = ETH_P_8021Q
                      /\ Given(f, 16 + o) /\ Given(f, 17 + o)
                      /\ InternetStart(f) = 18 + o /\ Type(f) = TypeAt(f, 16 + o)
               /\ Vlan(f) = 0 =>
                      /\ TypeAt(f, 12 + o) # ETH_P_8021Q
                      /\ InternetStart(f) = 14 + o /\ Type(f) = TypeAt(f, 12 + o)
  <1> DEFINE AD == ETH_P_8021AD
             Q == ETH_P_8021Q
  <1>1. /\ f.tags \in {<<>>, <<Q>>, <<AD>>, <<AD, Q>>}
        /\ \A k \in 0..Len(f.tags) : Given(f, 12 + 4 * k) /\ Given(f, 13 + 4 * k)
        /\ \A k \in 1..Len(f.tags) : TypeAt(f, 8 + 4 * k) = f.tags[k]
        /\ f.end \in Nat /\ f.end >= 14 + 4 * Len(f.tags)
    BY Zenon DEF LaidOut, LinkLaidOut, TagLists, InternetStart
  <1>2. AD # Q
    BY SMT DEF ETH_P_8021AD, ETH_P_8021Q
  <1>3. /\ f.tags = <<>> => Type(f) # AD
        /\ f.tags \in {<<>>, <<AD>>} => Type(f) # Q
    <2>1. Q \notin {ETH_P_IP, ETH_P_IPV6} /\ AD \notin {ETH_P_IP, ETH_P_IPV6}
      BY SMT DEF ETH_P_8021AD, ETH_P_8021Q, ETH_P_IP, ETH_P_IPV6
    <2> QED  BY <2>1, Zenon DEF LaidOut, IPv4LaidOut, IPv6LaidOut, OtherLaidOut
  <1> DEFINE n == Len(f.tags)
  <1>4. Type(f) = TypeAt(f, 12 + 4 * n) /\ InternetStart(f) = 14 + 4 * n
    BY Zenon DEF Type, InternetStart
  <1> HIDE DEF AD, Q
  <1>5. CASE f.tags = <<>>
    <2>1. n = 0 /\ DOMAIN f.tags = {}
      BY <1>5, SMT
    <2>2. ~ServiceTagged(f) /\ Vlan(f) = 0
      BY <1>5, <2>1, Zenon DEF ServiceTagged, Vlan
    <2>3. Given(f, 12 + 4 * 0) /\ Given(f, 13 + 4 * 0)
      <3>1. 0 \in 0..n
        BY <2>1, SMT
      <3> QED  BY <1>1, <3>1
    <2>4. Given(f, 12) /\ Given(f, 13) /\ f.end >= 14 /\ f.end >= InternetStart(f)
      BY <1>1, <1>4, <2>1, <2>3, SMT
    <2>5. Type(f) = TypeAt(f, 12) /\ InternetStart(f) = 14
      BY <1>4, <2>1, SMT
    <2>6. 12 + 0 = 12 /\ 14 + 0 = 14 /\ 0 # 1
      OBVIOUS
    <2> QED  BY <1>1, <1>3, <1>5, <2>2, <2>4, <2>5, <2>6, Zenon DEF AD, Q
  <1>6. CASE f.tags = <<Q>>
    <2>1. n = 1 /\ DOMAIN f.tags = {1} /\ f.tags[1] = Q
      BY <1>6, SMT
    <2>2. ~ServiceTagged(f) /\ Vlan(f) = 1
      BY <1>2, <2>1, Zenon DEF ServiceTagged, Vlan, AD, Q
    <2>3. /\ Given(f, 12 + 4 * 0) /\ Given(f, 13 + 4 * 0)
          /\ Given(f, 12 + 4 * 1) /\ Given(f, 13 + 4 * 1)
          /\ TypeAt(f, 8 + 4 * 1) = f.tags[1]
      <3>1. 0 \in 0..n /\ 1 \in 0..n /\ 1 \in 1..n
        BY <2>1, SMT
      <3> QED  BY <1>1, <3>1
    <2>4. /\ Given(f, 12) /\ Given(f, 13) /\ f.end >= 14 /\ f.end >= InternetStart(f)
          /\ Given(f, 16) /\ Given(f, 17) /\ TypeAt(f, 12) = Q
      BY <1>1, <1>4, <2>1, <2>3, SMT
    <2>5. Type(f) = TypeAt(f, 16) /\ InternetStart(f) = 18
      BY <1>4, <2>1, SMT
    <2>6. 12 + 0 = 12 /\ 16 + 0 = 16 /\ 17 + 0 = 17 /\ 18 + 0 = 18 /\ 0 # 1
      OBVIOUS
    <2> QED  BY <1>1, <1>2, <2>2, <2>4, <2>5, <2>6, Zenon DEF AD, Q
  <1>7. CASE f.tags = <<AD>>
    <2>1. n = 1 /\ DOMAIN f.tags = {1} /\ f.tags[1] = AD /\ f.tags # <<>>
      BY <1>7, SMT
    <2>2. ServiceTagged(f) /\ Vlan(f) = 0
      BY <1>2, <2>1, Zenon DEF ServiceTagged, Vlan, AD, Q
    <2>3. /\ Given(f, 12 + 4 * 0) /\ Given(f, 13 + 4 * 0)
          /\ Given(f, 12 + 4 * 1) /\ Given(f, 13 + 4 * 1)
          /\ TypeAt(f, 8 + 4 * 1) = f.tags[1]
      <3>1. 0 \in 0..n /\ 1 \in 0..n /\ 1 \in 1..n
        BY <2>1, SMT
      <3> QED  BY <1>1, <3>1
    <2>4. /\ Given(f, 12) /\ Given(f, 13) /\ f.end >= 14 /\ f.end >= 18
          /\ f.end >= InternetStart(f)
          /\ Given(f, 16) /\ Given(f, 17) /\ TypeAt(f, 12) = AD
      BY <1>1, <1>4, <2>1, <2>3, SMT
    <2>5. Type(f) = TypeAt(f, 16) /\ InternetStart(f) = 18 /\ Type(f) # Q
      BY <1>3, <1>4, <1>7, <2>1, SMT
    <2>6. 12 + 4 = 16 /\ 14 + 4 = 18 /\ 0 # 1
      OBVIOUS
    <2> QED  BY <1>1, <2>2, <2>4, <2>5, <2>6, Zenon DEF AD, Q
  <1>8. CASE f.tags = <<AD, Q>>
    <2>1. n = 2 /\ DOMAIN f.tags = {1, 2} /\ f.tags[1] = AD /\ f.tags[2] = Q /\ f.tags # <<>>
      BY <1>8, SMT
    <2>2. ServiceTagged(f) /\ Vlan(f) = 1
      BY <2>1, Zenon DEF ServiceTagged, Vlan, AD, Q
    <2>3. /\ Given(f, 12 + 4 * 0) /\ Given(f, 13 + 4 * 0)
          /\ Given(f, 12 + 4 * 1) /\ Given(f, 13 + 4 * 1)
          /\ Given(f, 12 + 4 * 2) /\ Given(f, 13 + 4 * 2)
          /\ TypeAt(f, 8 + 4 * 1) = f.tags[1] /\ TypeAt(f, 8 + 4 * 2) = f.tags[2]
      <3>1. 0 \in 0..n /\ 1 \in 0..n /\ 2 \in 0..n /\ 1 \in 1..n /\ 2 \in 1..n
        BY <2>1, SMT
      <3> QED  BY <1>1, <3>1
    <2>4. /\ Given(f, 12) /\ Given(f, 13) /\ f.end >= 14 /\ f.end >= 18
          /\ f.end >= InternetStart(f)
          /\ Given(f, 16) /\ Given(f, 17) /\ TypeAt(f, 12) = AD
          /\ Given(f, 20) /\ Given(f, 21) /\ TypeAt(f, 16) = Q
      BY <1>1, <1>4, <2>1, <2>3, SMT
    <2>5. Type(f) = TypeAt(f, 20) /\ InternetStart(f) = 22
      BY <1>4, <2>1, SMT
    <2>6. 12 + 4 = 16 /\ 16 + 4 = 20 /\ 17 + 4 = 21 /\ 18 + 4 = 22 /\ 0 # 1
      OBVIOUS
    <2> QED  BY <1>1, <2>2, <2>4, <2>5, <2>6, Zenon DEF AD, Q
  <1> QED  BY <1>1, <1>5, <1>6, <1>7, <1>8, Zenon DEF AD, Q

(* What was received is what was sent.                                     *)
LEMMA GivenByte ==
    ASSUME Inv, Legible, NEW o \in Nat, Given(frame, o)
    PROVE  Byte(o) = {frame.byte[o]} /\ frame.byte[o] \in 0..255
  <1>1. frame.end \in Nat /\ o < frame.end /\ o \in DOMAIN frame.byte
    BY LinkFacts, Zenon DEF Legible, Given
  <1>2. recvlen \in Nat /\ recvlen >= frame.end
    BY Sizes, SMT DEF Inv, Legible
  <1>3. o < recvlen
    BY <1>1, <1>2, SMT
  <1>4. frame.byte[o] \in 0..255
    BY <1>1, FramesAssumption, Zenon DEF Inv
  <1> QED  BY <1>1, <1>3, <1>4, Zenon DEF Byte

LEMMA GivenType ==
    ASSUME Inv, Legible, NEW o \in Nat, Given(frame, o), Given(frame, o + 1), ReadType(o)
    PROVE  ethtype' = TypeAt(frame, o)
  <1>1. Byte(o) = {frame.byte[o]}
    BY GivenByte
  <1>2. Byte(o + 1) = {frame.byte[o + 1]}
    <2>1. o + 1 \in Nat
      BY SMT
    <2> QED  BY <2>1, GivenByte
  <1> QED  BY <1>1, <1>2, Zenon DEF ReadType, TypeAt

(* What was received of a legible frame, and where the parser stands in it.*)
LEMMA LegibleLengths ==
    ASSUME Inv, Legible
    PROVE  /\ frame.end \in Nat /\ recvlen \in Nat /\ recvlen >= frame.end
           /\ LaidOut(frame) /\ Len(frame.exts) <= 6
  BY Sizes, LinkFacts, SMT DEF Inv, Legible

LEMMA EthernetTrack ==
    ASSUME Inv, Legible, OnTrack, Ethernet
    PROVE  OnTrack'
  <1>1. /\ recvlen >= 14 /\ Given(frame, 12) /\ Given(frame, 12 + 1)
    <2>1. Given(frame, 12) /\ Given(frame, 13) /\ frame.end >= 14
      BY LegibleLengths, LinkFacts
    <2>2. 12 + 1 = 13
      OBVIOUS
    <2> QED  BY <2>1, <2>2, LegibleLengths, SMT
  <1>2. /\ pc = "ethernet" /\ pc' = "serviceTag" /\ ReadType(12)
        /\ UNCHANGED <<frame, is_vlan>>
    <2>1. ~(recvlen < 14)
      BY <1>1, LegibleLengths, SMT
    <2> QED  BY <2>1, Zenon DEF Ethernet, node
  <1>3. ethtype' = TypeAt(frame, 12)
    BY <1>1, <1>2, GivenType
  <1> QED  BY <1>2, <1>3, SMT DEF OnTrack

LEMMA ServiceTagTrack ==
    ASSUME Inv, Legible, OnTrack, ServiceTag
    PROVE  OnTrack'
  <1>1. /\ pc = "serviceTag" /\ UNCHANGED <<frame, recvlen, is_vlan>>
        /\ ethtype = TypeAt(frame, 12) /\ offset = 0 /\ is_vlan = 0
    BY Zenon DEF ServiceTag, node, OnTrack, Inv, LinkReceived
  <1>2. LaidOut(frame) /\ recvlen \in Nat /\ frame.end \in Nat /\ recvlen >= frame.end
    BY LegibleLengths
  <1>3. CASE ServiceTagged(frame)
    <2>1. /\ ethtype = ETH_P_8021AD /\ Given(frame, 16) /\ Given(frame, 17)
          /\ frame.end >= 18
      BY <1>1, <1>2, <1>3, LinkFacts
    <2>2. TakeTag("vlanTag")
      BY <2>1, Zenon DEF ServiceTag
    <2>3. offset' = 4 /\ ~(recvlen < 14 + offset')
      <3>1. offset' = offset + 4
        BY <2>2, Zenon DEF TakeTag
      <3> QED  BY <1>1, <1>2, <2>1, <3>1, SMT
    <2>4. pc' = "vlanTag" /\ ReadType(12 + offset')
      BY <2>2, <2>3, Zenon DEF TakeTag
    <2>5. 12 + 4 = 16 /\ 16 + 1 = 17
      OBVIOUS
    <2>6. ReadType(16)
      BY <2>3, <2>4, <2>5, Zenon
    <2>7. ethtype' = TypeAt(frame, 12 + offset')
      BY <2>1, <2>3, <2>5, <2>6, GivenType
    <2> QED  BY <1>1, <1>3, <2>3, <2>4, <2>7, SMT DEF OnTrack
  <1>4. CASE ~ServiceTagged(frame)
    <2>1. ethtype # ETH_P_8021AD
      BY <1>1, <1>2, <1>4, LinkFacts
    <2>2. pc' = "vlanTag" /\ UNCHANGED <<ethtype, offset>>
      BY <2>1, Zenon DEF ServiceTag
    <2>3. 12 + 0 = 12
      OBVIOUS
    <2>4. ethtype' = TypeAt(frame, 12 + offset')
      BY <1>1, <2>2, <2>3, Zenon
    <2> QED  BY <1>1, <1>4, <2>2, <2>4, SMT DEF OnTrack
  <1> QED  BY <1>3, <1>4

LEMMA VlanTagTrack ==
    ASSUME Inv, Legible, OnTrack, VlanTag
    PROVE  OnTrack'
  <1> DEFINE o == IF ServiceTagged(frame) THEN 4 ELSE 0
  <1>1. /\ pc = "vlanTag" /\ UNCHANGED <<frame, recvlen>>
        /\ ethtype = TypeAt(frame, 12 + offset) /\ offset = o /\ is_vlan = 0
    BY Zenon DEF VlanTag, node, OnTrack
  <1>2. LaidOut(frame) /\ recvlen \in Nat /\ frame.end \in Nat /\ recvlen >= frame.end
    BY LegibleLengths
  <1>3. /\ frame.end >= InternetStart(frame) /\ Vlan(frame) \in {0, 1} /\ o \in {0, 4}
        /\ Vlan(frame) = 1 =>
               /\ TypeAt(frame, 12 + o) = ETH_P_8021Q
               /\ Given(frame, 16 + o) /\ Given(frame, 17 + o)
               /\ InternetStart(frame) = 18 + o /\ Type(frame) = TypeAt(frame, 16 + o)
        /\ Vlan(frame) = 0 =>
               /\ TypeAt(frame, 12 + o) # ETH_P_8021Q
               /\ InternetStart(frame) = 14 + o /\ Type(frame) = TypeAt(frame, 12 + o)
    BY <1>2, LinkFacts
  <1>4. ethr_header_len = 14 + o
    BY <1>1, <1>3, SMT DEF Inv, TypeOK, LinkReceived
  <1> HIDE DEF o
  <1>5. CASE Vlan(frame) = 1
    <2>1. ethtype = ETH_P_8021Q
      BY <1>1, <1>3, <1>5, Zenon
    <2>2. is_vlan' = 1 /\ TakeTag("network")
      BY <2>1, Zenon DEF VlanTag
    <2>3. offset' = 4 + o /\ ~(recvlen < 14 + offset')
      <3>1. offset' = offset + 4
        BY <2>2, Zenon DEF TakeTag
      <3> QED  BY <1>1, <1>2, <1>3, <1>5, <3>1, SMT
    <2>4. /\ pc' = "network" /\ ReadType(12 + offset')
          /\ ethr_header_len' = ethr_header_len + 4
      BY <2>2, <2>3, Zenon DEF TakeTag, LengthWithTag
    <2>5. /\ 12 + offset' = 16 + o /\ 16 + o + 1 = 17 + o /\ 16 + o \in Nat
          /\ ethr_header_len' = 18 + o
      BY <1>3, <1>4, <2>3, <2>4, SMT
    <2>6. ReadType(16 + o) /\ Given(frame, 16 + o) /\ Given(frame, 16 + o + 1)
      BY <1>3, <1>5, <2>4, <2>5, Zenon
    <2>7. ethtype' = Type(frame)
      BY <1>3, <1>5, <2>5, <2>6, GivenType
    <2>8. ethr_header_len' = InternetStart(frame)
      BY <1>3, <1>5, <2>5, Zenon
    <2> QED  BY <1>1, <1>5, <2>2, <2>4, <2>7, <2>8, SMT DEF OnTrack
  <1>6. CASE Vlan(frame) = 0
    <2>1. ethtype # ETH_P_8021Q
      BY <1>1, <1>3, <1>6, Zenon
    <2>2. pc' = "network" /\ UNCHANGED <<ethtype, ethr_header_len, is_vlan>>
      BY <2>1, Zenon DEF VlanTag
    <2>3. ethtype' = Type(frame) /\ ethr_header_len' = InternetStart(frame)
      BY <1>1, <1>3, <1>4, <1>6, <2>2, Zenon
    <2> QED  BY <1>1, <1>6, <2>2, <2>3, SMT DEF OnTrack
  <1> QED  BY <1>3, <1>5, <1>6

(* Which of the three layouts the frame has is what its type says.         *)
LEMMA NetworkFacts ==
    ASSUME Inv, Legible, OnTrack, pc = "network"
    PROVE  /\ ethtype = ETH_P_IP => IPv4LaidOut(frame)
           /\ ethtype = ETH_P_IPV6 => IPv6LaidOut(frame)
           /\ ethtype \notin {ETH_P_IP, ETH_P_IPV6} => OtherLaidOut(frame)
           /\ ethtype = Type(frame) /\ ethr_header_len = InternetStart(frame)
           /\ ethr_header_len \in {14, 18, 22} /\ is_vlan = Vlan(frame) /\ ports_at = -1
           /\ LaidOut(frame)
  <1>1. LaidOut(frame)
    BY LegibleLengths
  <1>2. ethtype = Type(frame) /\ ethr_header_len = InternetStart(frame) /\ is_vlan = Vlan(frame)
    BY Zenon DEF OnTrack
  <1>3. ports_at = -1 /\ ethr_header_len \in {14, 18, 22}
    BY SMT DEF Inv, PortsChecked, TypeOK
  <1>4. /\ IPv4LaidOut(frame) => Type(frame) = ETH_P_IP
        /\ IPv6LaidOut(frame) => Type(frame) = ETH_P_IPV6
        /\ OtherLaidOut(frame) => Type(frame) \notin {ETH_P_IP, ETH_P_IPV6}
    BY Zenon DEF IPv4LaidOut, IPv6LaidOut, OtherLaidOut
  <1>5. IPv4LaidOut(frame) \/ IPv6LaidOut(frame) \/ OtherLaidOut(frame)
    BY <1>1, Zenon DEF LaidOut
  <1> QED  BY <1>1, <1>2, <1>3, <1>4, <1>5, Types, Zenon

LEMMA OtherProtocolTrack ==
    ASSUME Inv, Legible, OnTrack, OtherProtocol
    PROVE  OnTrack'
  <1>1. /\ pc = "network" /\ pc' = "result" /\ ethtype \notin {ETH_P_IP, ETH_P_IPV6}
        /\ protocolo_transporte' = -1 /\ UNCHANGED <<frame, is_vlan, ports_at>>
    BY Zenon DEF OtherProtocol, node, link
  <1>2. OtherLaidOut(frame) /\ is_vlan = Vlan(frame) /\ ports_at = -1
    BY <1>1, NetworkFacts
  <1>3. frame.protocol = -1
    BY <1>2, Zenon DEF OtherLaidOut
  <1>4. -1 \notin {1, 5, 6, 17, 58}
    BY SMT
  <1>5. Transport(frame) = -1 /\ Ports(frame) = -1
    BY <1>3, <1>4, Zenon DEF Transport, Ports, Named
  <1> QED  BY <1>1, <1>2, <1>5, SMT DEF OnTrack

LEMMA IPv4Track ==
    ASSUME Inv, Legible, OnTrack, IPv4
    PROVE  OnTrack'
  <1> DEFINE ip == InternetStart(frame)
             ihl == frame.byte[ip] % 16
  <1>1. pc = "network" /\ ethtype = ETH_P_IP /\ UNCHANGED <<frame, is_vlan>>
    BY Zenon DEF IPv4, Refuse, node, link
  <1>2. /\ IPv4LaidOut(frame) /\ ethtype = Type(frame) /\ ethr_header_len = ip
        /\ ip \in {14, 18, 22} /\ is_vlan = Vlan(frame) /\ ports_at = -1 /\ LaidOut(frame)
    BY <1>1, NetworkFacts
  <1>3. frame.end \in Nat /\ recvlen \in Nat /\ recvlen >= frame.end
    BY LegibleLengths
  <1>4. /\ Given(frame, ip) /\ Given(frame, ip + 9) /\ frame.end >= ip + 20
        /\ ihl >= 5 /\ frame.transport = ip + 4 * ihl
        /\ frame.byte[ip + 9] = frame.protocol
    BY <1>2, Zenon DEF IPv4LaidOut
  <1>5. Byte(ip) = {frame.byte[ip]} /\ frame.byte[ip] \in 0..255
    <2>1. ip \in Nat
      BY <1>2, SMT
    <2> QED  BY <1>4, <2>1, GivenByte
  <1>6. Byte(ip + 9) = {frame.protocol} /\ frame.protocol \in 0..255
    <2>1. ip + 9 \in Nat
      BY <1>2, SMT
    <2>2. Byte(ip + 9) = {frame.byte[ip + 9]} /\ frame.byte[ip + 9] \in 0..255
      BY <1>4, <2>1, GivenByte
    <2> QED  BY <1>4, <2>2, Zenon
  <1>7. frame.end >= frame.transport /\ frame.protocol # -1
    <2>1. frame.protocol # -1
      BY <1>6, SMT
    <2> QED  BY <1>2, <2>1, Zenon DEF LaidOut
  <1>8. ihl \in Nat
    BY <1>5, Nibbles, SMT
  <1>9. ~(recvlen < ip + Minimum(ETH_P_IP))
    <2>1. Minimum(ETH_P_IP) = 20
      BY Zenon DEF Minimum
    <2> HIDE DEF ip
    <2> QED  BY <1>2, <1>3, <1>4, <2>1, SMT
  <1>10. ~(frame.transport < 20 + ip) /\ ~(recvlen < frame.transport)
    <2> HIDE DEF ip, ihl
    <2> QED  BY <1>2, <1>3, <1>4, <1>7, <1>8, SMT
  <1>11. PICK first \in Byte(ip), protocol \in Byte(ip + 9) :
                LET header == ip + 4 * (first % 16)
                IN  \/ /\ header < 20 + ip \/ recvlen < header
                       /\ Refuse
                    \/ /\ header >= 20 + ip /\ recvlen >= header
                       /\ total_header_lenght' = header
                       /\ protocolo_transporte' = KnownTransport(protocol)
                       /\ pc' = "transport"
                       /\ UNCHANGED <<node, link, protocolo, cond_break_loop,
                                      ports_at, verdict>>
    BY <1>2, <1>9, Zenon DEF IPv4
  <1>12. first = frame.byte[ip] /\ protocol = frame.protocol
    BY <1>5, <1>6, <1>11, Zenon
  <1>13. /\ pc' = "transport" /\ total_header_lenght' = frame.transport
         /\ protocolo_transporte' = KnownTransport(frame.protocol)
    BY <1>4, <1>10, <1>11, <1>12, Zenon
  <1>14. KnownTransport(frame.protocol) = Transport(frame)
    BY <1>1, <1>2, Types, Zenon DEF KnownTransport, Transport, Named
  <1> HIDE DEF ip, ihl
  <1> QED  BY <1>1, <1>2, <1>7, <1>13, <1>14, SMT DEF OnTrack

LEMMA IPv6Track ==
    ASSUME Inv, Legible, OnTrack, IPv6
    PROVE  OnTrack'
  <1> DEFINE ip == InternetStart(frame)
  <1>1. pc = "network" /\ ethtype = ETH_P_IPV6 /\ UNCHANGED <<frame, is_vlan>>
    BY Zenon DEF IPv6, Refuse, node, link
  <1>2. /\ IPv6LaidOut(frame) /\ ethr_header_len = ip
        /\ ip \in {14, 18, 22} /\ is_vlan = Vlan(frame)
    BY <1>1, NetworkFacts
  <1>3. frame.end \in Nat /\ recvlen \in Nat /\ recvlen >= frame.end
    BY LegibleLengths
  <1>4. /\ Given(frame, ip + 6) /\ frame.end >= ip + 40
        /\ frame.starts[1] = ip + 40 /\ frame.byte[ip + 6] = Following(frame, 1)
    BY <1>2, Zenon DEF IPv6LaidOut
  <1>5. Byte(ip + 6) = {frame.byte[ip + 6]}
    <2>1. ip + 6 \in Nat
      BY <1>2, SMT
    <2> QED  BY <1>4, <2>1, GivenByte
  <1>6. ~(recvlen < ip + Minimum(ETH_P_IPV6))
    <2>1. Minimum(ETH_P_IPV6) = 40
      BY Types, Zenon DEF Minimum
    <2> HIDE DEF ip
    <2> QED  BY <1>2, <1>3, <1>4, <2>1, SMT
  <1>7. /\ pc' = "extension" /\ protocolo' \in Byte(ip + 6)
        /\ total_header_lenght' = ip + 40 /\ UNCHANGED cond_break_loop
    BY <1>2, <1>6, Zenon DEF IPv6
  <1>8. protocolo' = Following(frame, 1) /\ total_header_lenght' = frame.starts[1]
    BY <1>4, <1>5, <1>7, Zenon
  <1>9. cond_break_loop' = 1
    BY <1>1, <1>7, Zenon DEF Inv, WalkBounded
  <1>10. 1 \in 1..Len(frame.exts) + 1
    <2> DEFINE E == [kind : WithLength \cup {Fragment}, units : 0..255]
    <2>1. frame.exts \in Seq(E)
      BY <1>2, Zenon DEF IPv6LaidOut
    <2> HIDE DEF E
    <2> QED  BY <2>1, SMT
  <1> HIDE DEF ip
  <1>11. IPv6LaidOut(frame')
    BY <1>1, <1>2, Zenon
  <1> QED  BY <1>1, <1>2, <1>7, <1>8, <1>9, <1>10, <1>11, Zenon DEF OnTrack

(* The chain of extension headers, from its k-th header on.                *)
LEMMA ChainFacts ==
    ASSUME Inv, Legible, OnTrack, pc = "extension"
    PROVE  LET k == cond_break_loop
               n == Len(frame.exts)
           IN  /\ n \in 0..6 /\ k \in 1..n + 1 /\ k < 8
               /\ total_header_lenght = frame.starts[k] /\ frame.starts[k] \in Nat
               /\ protocolo = Following(frame, k)
               /\ k = n + 1 => /\ protocolo = frame.protocol
                               /\ protocolo \notin WithLength \cup {Fragment}
                               /\ total_header_lenght = frame.transport
               /\ k # n + 1 =>
                      /\ k \in 1..n /\ k + 1 \in 1..n + 1
                      /\ protocolo = frame.exts[k].kind
                      /\ protocolo \in WithLength \cup {Fragment}
                      /\ Byte(frame.starts[k]) = {Following(frame, k + 1)}
                      /\ protocolo # Fragment =>
                             Byte(frame.starts[k] + 1) = {frame.exts[k].units}
                      /\ frame.starts[k + 1] = frame.starts[k] + ExtSize(frame.exts[k])
  <1> DEFINE k == cond_break_loop
             n == Len(frame.exts)
             E == [kind : WithLength \cup {Fragment}, units : 0..255]
  <1>1. /\ IPv6LaidOut(frame) /\ k \in 1..n + 1
        /\ total_header_lenght = frame.starts[k] /\ protocolo = Following(frame, k)
    BY Zenon DEF OnTrack
  <1>2. /\ frame.exts \in Seq(E) /\ frame.starts \in Seq(Nat) /\ Len(frame.starts) = n + 1
        /\ frame.starts[n + 1] = frame.transport
        /\ frame.protocol \in 0..255 \ (WithLength \cup {Fragment})
        /\ \A i \in 1..n :
              /\ Given(frame, frame.starts[i])
              /\ frame.byte[frame.starts[i]] = Following(frame, i + 1)
              /\ frame.exts[i].kind # Fragment =>
                     /\ Given(frame, frame.starts[i] + 1)
                     /\ frame.byte[frame.starts[i] + 1] = frame.exts[i].units
              /\ frame.starts[i + 1] = frame.starts[i] + ExtSize(frame.exts[i])
    BY <1>1, Zenon DEF IPv6LaidOut
  <1>3. n \in 0..6 /\ k < 8
    <2>1. n \in Nat /\ n <= 6
      BY <1>2, LegibleLengths, SMT
    <2> HIDE DEF n
    <2> QED  BY <1>1, <2>1, SMT
  <1>4. frame.starts[k] \in Nat
    BY <1>1, <1>2, SMT
  <1>5. ASSUME k = n + 1
        PROVE  /\ protocolo = frame.protocol /\ protocolo \notin WithLength \cup {Fragment}
               /\ total_header_lenght = frame.transport
    <2>1. ~(k <= n)
      <3> HIDE DEF n
      <3> QED  BY <1>3, <1>5, SMT
    <2> QED  BY <1>1, <1>2, <1>5, <2>1, Zenon DEF Following
  <1>6. ASSUME k # n + 1
        PROVE  /\ k \in 1..n /\ k + 1 \in 1..n + 1
               /\ protocolo = frame.exts[k].kind
               /\ protocolo \in WithLength \cup {Fragment}
               /\ Byte(frame.starts[k]) = {Following(frame, k + 1)}
               /\ protocolo # Fragment => Byte(frame.starts[k] + 1) = {frame.exts[k].units}
               /\ frame.starts[k + 1] = frame.starts[k] + ExtSize(frame.exts[k])
    <2>1. k \in 1..n /\ k <= n /\ k + 1 \in 1..n + 1
      <3> HIDE DEF n
      <3> QED  BY <1>1, <1>3, <1>6, SMT
    <2>2. protocolo = frame.exts[k].kind
      BY <1>1, <2>1, Zenon DEF Following
    <2>3. frame.exts[k] \in E
      <3> HIDE DEF E
      <3> QED  BY <1>2, <2>1, SMT
    <2>4. frame.exts[k].kind \in WithLength \cup {Fragment}
      BY <2>3, Zenon
    <2>5. Byte(frame.starts[k]) = {Following(frame, k + 1)}
      BY <1>2, <1>4, <2>1, GivenByte, ZenonT(60)
    <2>6. ASSUME protocolo # Fragment
          PROVE  Byte(frame.starts[k] + 1) = {frame.exts[k].units}
      <3>1. frame.starts[k] + 1 \in Nat
        BY <1>4, SMT
      <3> QED  BY <1>2, <2>1, <2>2, <2>6, <3>1, GivenByte, ZenonT(60)
    <2> QED  BY <1>2, <2>1, <2>2, <2>4, <2>5, <2>6, Zenon
  <1> QED  BY <1>1, <1>3, <1>4, <1>5, <1>6, Zenon

LEMMA ExtensionTrack ==
    ASSUME Inv, Legible, OnTrack, Extension
    PROVE  OnTrack'
  <1> DEFINE k == cond_break_loop
             n == Len(frame.exts)
  <1>1. /\ pc = "extension" /\ pc' = "extension" /\ UNCHANGED <<frame, is_vlan>>
        /\ protocolo \in WithLength \cup {Fragment}
        /\ cond_break_loop' = k + 1 /\ protocolo' \in Byte(total_header_lenght)
    BY Zenon DEF Extension, node, link
  <1>2. k # n + 1
    BY <1>1, ChainFacts
  <1>3. /\ k + 1 \in 1..n + 1
        /\ total_header_lenght = frame.starts[k]
        /\ protocolo = frame.exts[k].kind
        /\ Byte(frame.starts[k]) = {Following(frame, k + 1)}
        /\ protocolo # Fragment => Byte(frame.starts[k] + 1) = {frame.exts[k].units}
        /\ frame.starts[k + 1] = frame.starts[k] + ExtSize(frame.exts[k])
    BY <1>1, <1>2, ChainFacts
  <1>4. protocolo' = Following(frame, k + 1)
    BY <1>1, <1>3, Zenon
  <1>5. total_header_lenght' = frame.starts[k + 1]
    <2>1. CASE protocolo = Fragment
      <3>1. total_header_lenght' = total_header_lenght + 8
        BY <2>1, Zenon DEF Extension
      <3>2. ExtSize(frame.exts[k]) = 8
        BY <1>3, <2>1, Zenon DEF ExtSize
      <3> QED  BY <1>3, <3>1, <3>2, Zenon
    <2>2. CASE protocolo # Fragment
      <3>1. PICK length \in Byte(total_header_lenght + 1) :
                total_header_lenght' = total_header_lenght + ExtensionSize(length)
        BY <2>2, Zenon DEF Extension
      <3>2. length = frame.exts[k].units
        BY <1>3, <2>2, <3>1, Zenon
      <3>3. ExtensionSize(length) = ExtSize(frame.exts[k])
        BY <1>3, <2>2, <3>2, Zenon DEF ExtSize, ExtensionSize
      <3> QED  BY <1>3, <3>1, <3>3, Zenon
    <2> QED  BY <2>1, <2>2
  <1>6. is_vlan' = Vlan(frame') /\ IPv6LaidOut(frame')
    BY <1>1, SMT DEF OnTrack
  <1> HIDE DEF k, n
  <1>7. /\ cond_break_loop' \in 1..Len(frame'.exts) + 1
        /\ total_header_lenght' = frame'.starts[cond_break_loop']
        /\ protocolo' = Following(frame', cond_break_loop')
    BY <1>1, <1>3, <1>4, <1>5, Zenon DEF n
  <1> QED  BY <1>1, <1>6, <1>7, SMT DEF OnTrack

LEMMA LastExtensionTrack ==
    ASSUME Inv, Legible, OnTrack, LastExtension
    PROVE  OnTrack'
  <1>1. /\ pc = "extension" /\ pc' = "transport"
        /\ UNCHANGED <<frame, is_vlan, total_header_lenght>>
    BY Zenon DEF LastExtension, node, link
  <1>2. cond_break_loop < 8 /\ cond_break_loop # 8
    BY <1>1, ChainFacts, SMT
  <1>3. /\ protocolo \notin WithLength \cup {Fragment}
        /\ protocolo_transporte' = IF protocolo \in {1, 5, 6, 17, 58} THEN protocolo ELSE -1
    BY <1>2, Zenon DEF LastExtension
  <1>4. protocolo = frame.protocol /\ total_header_lenght = frame.transport
    BY <1>1, <1>3, ChainFacts
  <1>5. Type(frame) = ETH_P_IPV6 /\ frame.protocol # -1 /\ is_vlan = Vlan(frame)
    <2>1. IPv6LaidOut(frame) /\ is_vlan = Vlan(frame)
      BY <1>1, Zenon DEF OnTrack
    <2>2. frame.protocol \in 0..255
      BY <2>1, Zenon DEF IPv6LaidOut
    <2>3. frame.protocol # -1
      BY <2>2, SMT
    <2> QED  BY <2>1, <2>3, Zenon DEF IPv6LaidOut
  <1>6. protocolo_transporte' = Transport(frame)
    BY <1>3, <1>4, <1>5, Zenon DEF Transport, Named
  <1> QED  BY <1>1, <1>4, <1>5, <1>6, SMT DEF OnTrack

(* The transport header of a legible frame was received.                   *)
LEMMA TransportFacts ==
    ASSUME Inv, Legible, OnTrack, pc = "transport"
    PROVE  /\ total_header_lenght = frame.transport /\ frame.transport \in Nat
           /\ protocolo_transporte = Transport(frame) /\ is_vlan = Vlan(frame)
           /\ ports_at = -1
           /\ protocolo_transporte \in {6, 17} <=> frame.protocol \in {6, 17}
           /\ protocolo_transporte = frame.protocol \/ frame.protocol \notin {6, 17}
           /\ frame.protocol \in {6, 17} =>
                  recvlen >= frame.transport + FixedPart(frame.protocol)
  <1>1. /\ total_header_lenght = frame.transport /\ is_vlan = Vlan(frame)
        /\ protocolo_transporte = Transport(frame)
    BY Zenon DEF OnTrack
  <1>2. frame.transport \in Nat /\ ports_at = -1
    BY <1>1, SMT DEF Inv, TypeOK, PortsChecked
  <1>3. -1 \notin {6, 17}
    BY SMT
  <1>4. frame.protocol \in {6, 17} => protocolo_transporte = frame.protocol
    BY <1>1, Zenon DEF Transport, Named
  <1>5. protocolo_transporte \in {6, 17} => frame.protocol = protocolo_transporte
    BY <1>1, <1>3, Zenon DEF Transport
  <1>6. ASSUME frame.protocol \in {6, 17}
        PROVE  recvlen >= frame.transport + FixedPart(frame.protocol)
    <2>1. frame.end >= frame.transport + FixedPart(frame.protocol)
      BY <1>6, LegibleLengths, Zenon DEF LaidOut, FixedPart
    <2>2. FixedPart(frame.protocol) \in Nat
      BY SMT DEF FixedPart
    <2> QED  BY <1>2, <2>1, <2>2, LegibleLengths, SMT
  <1> QED  BY <1>1, <1>2, <1>4, <1>5, <1>6, Zenon

LEMMA TransportTrack ==
    ASSUME Inv, Legible, OnTrack, Tcp \/ Udp \/ OtherTransport
    PROVE  OnTrack'
  <1>1. /\ pc = "transport" /\ UNCHANGED <<frame, is_vlan, protocolo_transporte>>
    BY Zenon DEF Tcp, Udp, OtherTransport, Refuse, node, link, walk
  <1>2. /\ total_header_lenght = frame.transport /\ frame.transport \in Nat
        /\ protocolo_transporte = Transport(frame) /\ is_vlan = Vlan(frame)
        /\ ports_at = -1
        /\ protocolo_transporte \in {6, 17} <=> frame.protocol \in {6, 17}
        /\ protocolo_transporte = frame.protocol \/ frame.protocol \notin {6, 17}
        /\ frame.protocol \in {6, 17} =>
                  recvlen >= frame.transport + FixedPart(frame.protocol)
    BY <1>1, TransportFacts
  <1>3. recvlen \in Nat
    BY LegibleLengths
  <1>4. pc' = "result" /\ ports_at' = Ports(frame)
    <2>1. CASE Tcp
      <3>1. protocolo_transporte = 6 /\ frame.protocol = 6
        BY <1>2, <2>1, Zenon DEF Tcp
      <3>2. ~(recvlen < total_header_lenght + FixedPart(6))
        <4>1. FixedPart(6) \in Nat
          BY SMT DEF FixedPart
        <4> QED  BY <1>2, <1>3, <3>1, <4>1, SMT
      <3> QED  BY <1>2, <2>1, <3>1, <3>2, Zenon DEF Tcp, Ports
    <2>2. CASE Udp
      <3>1. protocolo_transporte = 17 /\ frame.protocol = 17
        BY <1>2, <2>2, Zenon DEF Udp
      <3>2. ~(recvlen < total_header_lenght + FixedPart(17))
        <4>1. FixedPart(17) \in Nat
          BY SMT DEF FixedPart
        <4> QED  BY <1>2, <1>3, <3>1, <4>1, SMT
      <3> QED  BY <1>2, <2>2, <3>1, <3>2, Zenon DEF Udp, Ports
    <2>3. CASE OtherTransport
      BY <1>2, <2>3, Zenon DEF OtherTransport, Ports
    <2> QED  BY <2>1, <2>2, <2>3
  <1> QED  BY <1>1, <1>2, <1>4, SMT DEF OnTrack

LEMMA ResultTrack ==
    ASSUME Inv, Legible, OnTrack, Result
    PROVE  OnTrack'
  <1>1. /\ pc = "result" /\ pc' = "done"
        /\ UNCHANGED <<frame, is_vlan, protocolo_transporte, ports_at>>
        /\ verdict' = IF frame.loopback THEN "loopback" ELSE "packet"
    BY Zenon DEF Result, node, link, walk
  <1>2. /\ is_vlan = Vlan(frame) /\ protocolo_transporte = Transport(frame)
        /\ ports_at = Ports(frame)
    BY <1>1, SMT DEF OnTrack
  <1> QED  BY <1>1, <1>2, SMT DEF OnTrack

LEMMA NextTrack ==
    ASSUME Inv, [Next]_vars, Legible => OnTrack
    PROVE  (Legible => OnTrack)'
  <1>1. UNCHANGED <<frame, recvlen>>
    BY Zenon DEF Next, Ethernet, ServiceTag, VlanTag, OtherProtocol, IPv4, IPv6, Extension,
       LastExtension, Tcp, Udp, OtherTransport, Result, Stopped, Refuse, node, vars
  <1> SUFFICES ASSUME Legible PROVE OnTrack'
    BY <1>1, Zenon DEF Legible
  <1>2. CASE UNCHANGED vars \/ Stopped
    BY <1>2, Zenon DEF Stopped, vars, node, link, walk, OnTrack
  <1> QED  BY <1>2, EthernetTrack, ServiceTagTrack, VlanTagTrack, OtherProtocolTrack,
              IPv4Track, IPv6Track, ExtensionTrack, LastExtensionTrack, TransportTrack,
              ResultTrack, Zenon DEF Next

(* A frame laid out as the protocols define it, received down to its       *)
(* transport header, is reported for what it is: whatever its tags, the    *)
(* options of its IPv4 header, its extension headers (six at most) and     *)
(* what they contain, the parser finds the transport header where it is    *)
(* (packet_service.c:70-162, 215-431).                                     *)
THEOREM HeadersFound == Spec => []TransportFound
  <1>1. Init => (Legible => OnTrack)
    BY Zenon DEF Init, OnTrack
  <1>2. Inv /\ (Legible => OnTrack) /\ [Next]_vars => (Legible => OnTrack)'
    BY NextTrack
  <1>3. (Legible => OnTrack) => TransportFound
    BY Zenon DEF OnTrack, TransportFound, Transport, Ports, Vlan
  <1> QED
    BY <1>1, <1>2, <1>3, Invariance, PTL DEF Spec
=============================================================================
