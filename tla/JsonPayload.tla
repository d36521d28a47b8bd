---------------------------- MODULE JsonPayload -----------------------------
(***************************************************************************)
(* The serialiser (src/jsonparser.c): generate_json_payload walks over the *)
(* packet list, under the mutex, and generate_request puts an HTTP header  *)
(* in front of what it wrote.  Every buffer has a fixed size, and strcat   *)
(* checks none: that they suffice rests on the capacity of the list.       *)
(*                                                                         *)
(* A text is its pieces and its number of characters.  The pieces of a     *)
(* packet are its fields (one piece), its flags, the transport protocol,   *)
(* the application, and what ends it.                                      *)
(***************************************************************************)
EXTENDS Integers, Sequences

CONSTANTS
    Packets,           \* packets the parser may have left in the list
    MaxPackets,        \* capacity of packet_list, 1000
    MAX_JSON_SIZE,     \* size of json_payload and of json_request, 3 MiB
    app_tcp_services,  \* the two tables of services_table.h: from the ports
    app_udp_services,  \*   that have a name to the name and its length
    HeaderFields       \* lengths of host, time, digest, UUID and size together

(* What the fields of FullInternetPacket can take: five strings of up to   *)
(* 63 characters, a timestamp of up to 29, four int and three long.        *)
MaxFields == 5 * 63 + 29 + 4 * 11 + 3 * 20

ASSUME PacketsAssumption ==
    \A p \in Packets :
        /\ p.size \in Nat /\ p.size <= MaxFields
        /\ p.protocolo_transporte \in Int
        /\ p.porta_destino \in Nat /\ p.porta_origem \in Nat

(* No name of the table is longer than 63 characters.                      *)
ASSUME TablesAssumption ==
    \A table \in {app_tcp_services, app_udp_services} :
        \A port \in DOMAIN table : table[port].size \in Nat /\ table[port].size <= 63

VARIABLES
    pc,
    original_inicio,   \* the list it was called with, from its head on
    inicio,            \* what is left of it
    temporary_buffer,  \* the packet being written, 2048 characters
    json_payload,
    header,            \* the HTTP header, 2048 characters
    json_request

vars == <<pc, original_inicio, inicio, temporary_buffer, json_payload, header, json_request>>

-----------------------------------------------------------------------------
Text(piece, n) == [pieces |-> <<piece>>, size |-> n]
Nothing == [pieces |-> <<>>, size |-> 0]

(* strcat, and what snprintf leaves of n characters in a buffer.           *)
Strcat(text, piece, n) ==
    [pieces |-> Append(text.pieces, piece), size |-> text.size + n]
Cut(n, size) == IF n < size THEN n ELSE size - 1

(* Characters of the literal text.                                         *)
Opening == 17        \* "{ packets: [" with its blanks
Closing == 7         \* "] }"
FieldsText == 328    \* the format of the first snprintf without what it inserts
FlagsText == 207     \* nine lines of a flag, when all are false
TransportText == 45  \* the longest line of the switch, Unknown/None
UnnamedText == 44    \* the line of an application without a name
NamedText == 32      \* the line of an application without its name
EndText == 5
SeparatorText == 2
HeaderText == 203    \* the format of the header without what it inserts

(* The most characters a packet can take.                                  *)
MaxRecord ==
    FieldsText + MaxFields + FlagsText + TransportText + NamedText + 63
        + EndText + SeparatorText

(* A full list fits, with the header in front of it.                       *)
Fits(packets, size) ==
    Opening + packets * MaxRecord + Closing + 2048 <= size

ASSUME SizesAssumption == MaxPackets \in Nat /\ MAX_JSON_SIZE \in Nat
ASSUME FitsAssumption == Fits(MaxPackets, MAX_JSON_SIZE)
ASSUME HeaderAssumption ==
    \A n \in HeaderFields : n \in Nat /\ HeaderText + n < 2048

-----------------------------------------------------------------------------
(* Mutant: what the buffer held is not thrown away.                        *)
FormattedAfterLast(p) ==
    Strcat(temporary_buffer, p.fields, Cut(FieldsText + p.size, 2048))

(* The fields that are text and numbers, then the flags.                   *)
Formatted(p) == Text(p.fields, Cut(FieldsText + p.size, 2048))

Flagged(text) == Strcat(text, "flags", FlagsText)

TransportName(protocol) ==
    CASE protocol = 1 -> "ICMP"
      [] protocol = 5 -> "STREAM"
      [] protocol = 6 -> "TCP"
      [] protocol = 17 -> "UDP"
      [] protocol = 58 -> "ICMPv6"
      [] OTHER -> "Unknown/None"

(* An entry of a table is NULL for the ports it does not name.             *)
Listed(table, port) == port > 0 /\ port \in DOMAIN table

Unnamed(text) == Strcat(text, "Unknown/None", UnnamedText)
Named(text, service) ==
    Strcat(text, service.name, Cut(NamedText + service.size, 256))

(* Mutants: only the destination is looked up, or its entry is not         *)
(* compared with NULL.                                                     *)
ApplicationOfDestination(text, table, p) ==
    IF Listed(table, p.porta_destino) THEN Named(text, table[p.porta_destino])
    ELSE Unnamed(text)

ApplicationUnchecked(text, table, p) ==
    IF Listed(table, p.porta_destino) THEN Named(text, table[p.porta_destino])
    ELSE IF p.porta_destino > 0 THEN Strcat(text, "(null)", NamedText + 6)
    ELSE Unnamed(text)

(* The name of the destination port, else of the source port.              *)
Application(text, table, p) ==
    IF Listed(table, p.porta_destino) THEN Named(text, table[p.porta_destino])
    ELSE IF Listed(table, p.porta_origem) THEN Named(text, table[p.porta_origem])
    ELSE Unnamed(text)

(* The switch on the transport protocol.                                   *)
Transported(text, p) ==
    LET line == Strcat(text, TransportName(p.protocolo_transporte), TransportText)
    IN  CASE p.protocolo_transporte = 6 -> Application(line, app_tcp_services, p)
          [] p.protocolo_transporte = 17 -> Application(line, app_udp_services, p)
          [] OTHER -> line

(* Mutant: whether a packet follows is asked before the pointer moves.     *)
FollowedBeforeMoving(list) == list # <<>>
Followed(list) == Tail(list) # <<>>

Ended(text, list) ==
    LET end == Strcat(text, "}", EndText)
    IN  IF Followed(list) THEN Strcat(end, ",", SeparatorText) ELSE end

-----------------------------------------------------------------------------
Init ==
    /\ pc = "open"
    /\ original_inicio \in UNION {[1..n -> Packets] : n \in 1..MaxPackets}
    /\ inicio = original_inicio
    /\ temporary_buffer = Nothing
    /\ json_payload = Nothing
    /\ header = [size |-> 0, content_length |-> 0]
    /\ json_request = 0

Open ==
    /\ pc = "open"
    /\ json_payload' = Text(<<"[">>, Opening)
    /\ pc' = "packet"
    /\ UNCHANGED <<original_inicio, inicio, temporary_buffer, header, json_request>>

Packet ==
    /\ pc = "packet" /\ inicio # <<>>
    /\ temporary_buffer' =
           LET p == Head(inicio)
           IN  Ended(Transported(Flagged(Formatted(p)), p), inicio)
    /\ json_payload' =
           Strcat(json_payload, temporary_buffer'.pieces, temporary_buffer'.size)
    /\ inicio' = Tail(inicio)
    /\ UNCHANGED <<pc, original_inicio, header, json_request>>

Close ==
    /\ pc = "packet" /\ inicio = <<>>
    /\ json_payload' = Strcat(json_payload, <<"]">>, Closing)
    /\ pc' = "header"
    /\ UNCHANGED <<original_inicio, inicio, temporary_buffer, header, json_request>>

(* generate_json_header.                                                   *)
Header ==
    /\ pc = "header"
    /\ \E n \in HeaderFields :
          header' = [size |-> Cut(HeaderText + n, 2048),
                     content_length |-> json_payload.size]
    /\ pc' = "request"
    /\ UNCHANGED <<original_inicio, inicio, temporary_buffer, json_payload, json_request>>

(* Mutant: the buffer is taken to be as long as that of the header.        *)
JoinedShort == Cut(header.size + json_payload.size, 2048)
Joined == Cut(header.size + json_payload.size, MAX_JSON_SIZE)

Request ==
    /\ pc = "request"
    /\ json_request' = Joined
    /\ pc' = "done"
    /\ UNCHANGED <<original_inicio, inicio, temporary_buffer, json_payload, header>>

Stopped == pc = "done" /\ UNCHANGED vars

Next == Open \/ Packet \/ Close \/ Header \/ Request \/ Stopped

Spec == Init /\ [][Next]_vars
-----------------------------------------------------------------------------
Tables == {app_tcp_services, app_udp_services}

Words ==
    {"flags", "ICMP", "STREAM", "TCP", "UDP", "ICMPv6", "Unknown/None", "}", ","}
        \cup {p.fields : p \in Packets}
        \cup UNION {{table[port].name : port \in DOMAIN table} : table \in Tables}

TypeOK ==
    /\ pc \in {"open", "packet", "header", "request", "done"}
    /\ original_inicio \in Seq(Packets) /\ inicio \in Seq(Packets)
    /\ temporary_buffer \in [pieces : Seq(Words), size : Nat]
    /\ json_payload \in [pieces : Seq(Seq(Words \cup {"[", "]"})), size : Nat]
    /\ header \in [size : Nat, content_length : Nat]
    /\ json_request \in Nat

(* No strcat writes past the end of its buffer, however many packets the   *)
(* list holds and whatever their strings and numbers are: the terminating  *)
(* zero still fits (jsonparser.c:17-128).                                  *)
BuffersSuffice ==
    /\ temporary_buffer.size < 2048
    /\ json_payload.size < MAX_JSON_SIZE

(* The request announces as many characters as it carries: neither the     *)
(* header nor the body is cut by the snprintf that writes it.              *)
ContentLengthIsBody ==
    pc = "done" => json_request = header.size + header.content_length

(* What the walk leaves in the buffer is the JSON document of the list:    *)
(* each packet once, in order, a comma between two of them and none after  *)
(* the last, and an application for TCP and UDP and for nothing else.      *)
ApplicationOf(p) ==
    LET table == IF p.protocolo_transporte = 6 THEN app_tcp_services ELSE app_udp_services
        named == {port \in {p.porta_origem, p.porta_destino} \cap DOMAIN table : port # 0}
    IN  IF p.protocolo_transporte \notin {6, 17} THEN {<<>>}
        ELSE IF named = {} THEN {<<"Unknown/None">>}
        ELSE {<<table[port].name>> : port \in named}

IsObject(pieces, p, last) ==
    \E application \in ApplicationOf(p) :
        pieces = <<p.fields, "flags", TransportName(p.protocolo_transporte)>>
                     \o application \o (IF last THEN <<"}">> ELSE <<"}", ",">>)

PayloadIsDocument ==
    pc \notin {"open", "packet"} =>
        LET n == Len(original_inicio)
        IN  /\ Len(json_payload.pieces) = n + 2
            /\ json_payload.pieces[1] = <<"[">> /\ json_payload.pieces[n + 2] = <<"]">>
            /\ \A k \in 1..n :
                   IsObject(json_payload.pieces[k + 1], original_inicio[k], k = n)

(* The two directions of a conversation are reported as the same           *)
(* application, as long as the tables name no more than one of its ports.  *)
Opposite(p, q) ==
    /\ p.protocolo_transporte = q.protocolo_transporte
    /\ p.porta_origem = q.porta_destino /\ p.porta_destino = q.porta_origem

OnePortListed(p) ==
    \A table \in Tables : ~(Listed(table, p.porta_origem) /\ Listed(table, p.porta_destino))

NamesAgreeBothWays ==
    \A j, k \in 1..(Len(original_inicio) - Len(inicio)) :
        LET p == original_inicio[j]
            q == original_inicio[k]
        IN  Opposite(p, q) /\ OnePortListed(p) /\ p.protocolo_transporte \in {6, 17} =>
                json_payload.pieces[j + 1][4] = json_payload.pieces[k + 1][4]
=============================================================================
