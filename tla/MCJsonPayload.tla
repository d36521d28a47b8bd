--------------------------- MODULE MCJsonPayload ----------------------------
(***************************************************************************)
(* JsonPayload for TLC: a few ports, of which the tables name some, and    *)
(* the two directions of each conversation.                                *)
(***************************************************************************)
EXTENDS JsonPayload, TLC

Entry(name, n) == [name |-> name, size |-> n]
TcpServices == 80 :> Entry("http", 4) @@ 5432 :> Entry("postgresql", 10)
UdpServices == 53 :> Entry("domain", 6) @@ 80 :> Entry("longest", 63)

Pkt(fields, size, protocol, from, to) ==
    [fields |-> fields, size |-> size, protocolo_transporte |-> protocol,
     porta_origem |-> from, porta_destino |-> to]

(* A conversation with one named port in both directions, one with two,    *)
(* one with none; UDP with a port that has another name there; and packets *)
(* without ports.                                                          *)
SamplePackets ==
    {Pkt("request", 150, 6, 40000, 80), Pkt("reply", 150, 6, 80, 40000),
     Pkt("query", MaxFields, 6, 80, 5432),
     Pkt("other", 150, 6, 40000, 40001),
     Pkt("datagram", MaxFields, 17, 40000, 80), Pkt("answer", 150, 17, 80, 40000),
     Pkt("zero", 150, 17, 53, 0),
     Pkt("ping", 150, 1, 0, 0), Pkt("arp", 120, -1, 0, 0)}

(* The capacity and the size the code has.                                 *)
ASSUME CodeFits == Fits(1000, 3 * 1024 * 1024)
=============================================================================
