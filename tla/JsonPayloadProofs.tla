-------------------------- MODULE JsonPayloadProofs -------------------------
(***************************************************************************)
(* The serialiser for every list of packets, both tables and every size of *)
(* the buffers that Fits allows: no strcat writes past the end, the header *)
(* announces the body as it is, and the body is the document of the list,  *)
(* with the same application for both directions of a conversation.        *)
(***************************************************************************)
EXTENDS JsonPayload, SequenceTheorems, TLAPS

(* The walk: what is written so far is in proportion to what was walked.   *)
Lists ==
    /\ original_inicio \in Seq(Packets) /\ Len(original_inicio) <= MaxPackets
    /\ inicio \in Seq(Packets) /\ Len(inicio) <= Len(original_inicio)

RecordSize == temporary_buffer.size \in Nat /\ temporary_buffer.size <= MaxRecord

PayloadSize ==
    /\ json_payload.size \in Nat
    /\ pc = "open" => json_payload.size = 0
    /\ pc = "packet" =>
           json_payload.size <= Opening + (Len(original_inicio) - Len(inicio)) * MaxRecord
    /\ pc \in {"header", "request", "done"} =>
           json_payload.size <= Opening + MaxPackets * MaxRecord + Closing

HeaderSize ==
    pc \in {"request", "done"} =>
        /\ header.size \in Nat /\ header.size < 2048
        /\ header.content_length = json_payload.size

Inv ==
    /\ pc \in {"open", "packet", "header", "request", "done"}
    /\ Lists
    /\ RecordSize
    /\ PayloadSize
    /\ HeaderSize
    /\ ContentLengthIsBody

(* What strcat and snprintf do to the number of characters.                *)
LEMMA StrcatSize ==
    ASSUME NEW text, NEW piece, NEW n
    PROVE  Strcat(text, piece, n).size = text.size + n
  BY DEF Strcat

LEMMA CutBounds ==
    ASSUME NEW n \in Nat, NEW size \in Nat, size > 0
    PROVE  Cut(n, size) \in Nat /\ Cut(n, size) <= n /\ (n < size => Cut(n, size) = n)
  BY SMT DEF Cut

(* The lines of an application are no longer than the longest name.        *)
LEMMA ApplicationBound ==
    ASSUME NEW p \in Packets, NEW table \in {app_tcp_services, app_udp_services},
           NEW text, text.size \in Nat
    PROVE  /\ Application(text, table, p).size \in Nat
           /\ Application(text, table, p).size <= text.size + NamedText + 63
  <1>1. ASSUME NEW port \in DOMAIN table
        PROVE  /\ Named(text, table[port]).size \in Nat
               /\ Named(text, table[port]).size <= text.size + NamedText + 63
    <2>1. table[port].size \in Nat /\ table[port].size <= 63
      BY <1>1, TablesAssumption
    <2>2. NamedText + table[port].size \in Nat
      BY <2>1, SMT DEF NamedText
    <2>3. /\ Cut(NamedText + table[port].size, 256) \in Nat
          /\ Cut(NamedText + table[port].size, 256) <= NamedText + table[port].size
      BY <2>2, CutBounds, SMT
    <2>4. Named(text, table[port]).size = text.size + Cut(NamedText + table[port].size, 256)
      BY StrcatSize DEF Named
    <2> QED  BY <2>1, <2>3, <2>4, SMT DEF NamedText
  <1>2. Unnamed(text).size = text.size + UnnamedText
    BY StrcatSize DEF Unnamed
  <1>3. /\ Unnamed(text).size \in Nat
        /\ Unnamed(text).size <= text.size + NamedText + 63
    BY <1>2, SMT DEF UnnamedText, NamedText
  <1>4. CASE Listed(table, p.porta_destino)
    <2>1. p.porta_destino \in DOMAIN table  BY <1>4 DEF Listed
    <2>2. Application(text, table, p) = Named(text, table[p.porta_destino])
      BY <1>4 DEF Application
    <2> QED  BY <1>1, <2>1, <2>2
  <1>5. CASE ~Listed(table, p.porta_destino) /\ Listed(table, p.porta_origem)
    <2>1. p.porta_origem \in DOMAIN table  BY <1>5 DEF Listed
    <2>2. Application(text, table, p) = Named(text, table[p.porta_origem])
      BY <1>5 DEF Application
    <2> QED  BY <1>1, <2>1, <2>2
  <1>6. CASE ~Listed(table, p.porta_destino) /\ ~Listed(table, p.porta_origem)
    <2>1. Application(text, table, p) = Unnamed(text)
      BY <1>6 DEF Application
    <2> QED  BY <1>3, <2>1
  <1> QED  BY <1>4, <1>5, <1>6

LEMMA TransportedBound ==
    ASSUME NEW p \in Packets, NEW text, text.size \in Nat
    PROVE  /\ Transported(text, p).size \in Nat
           /\ Transported(text, p).size <= text.size + TransportText + NamedText + 63
  <1> DEFINE line == Strcat(text, TransportName(p.protocolo_transporte), TransportText)
  <1>1. line.size = text.size + TransportText
    BY StrcatSize
  <1>2. line.size \in Nat
    BY <1>1, SMT DEF TransportText
  <1>3. Transported(text, p) \in {Application(line, app_tcp_services, p),
                                  Application(line, app_udp_services, p), line}
    BY DEF Transported
  <1>4. ASSUME NEW table \in {app_tcp_services, app_udp_services}
        PROVE  /\ Application(line, table, p).size \in Nat
               /\ Application(line, table, p).size <= line.size + NamedText + 63
    <2> HIDE DEF line
    <2> QED  BY <1>2, <1>4, ApplicationBound
  <1> HIDE DEF line
  <1>5. CASE Transported(text, p) = line
    BY <1>1, <1>2, <1>5, SMT DEF NamedText, TransportText
  <1>6. ASSUME NEW table \in {app_tcp_services, app_udp_services},
               Transported(text, p) = Application(line, table, p)
        PROVE  /\ Transported(text, p).size \in Nat
               /\ Transported(text, p).size <= text.size + TransportText + NamedText + 63
    BY <1>1, <1>4, <1>6, SMT DEF NamedText, TransportText
  <1> QED  BY <1>3, <1>5, <1>6

(* What is written of one packet fits its buffer.                          *)
LEMMA RecordBound ==
    ASSUME NEW p \in Packets, NEW list
    PROVE  /\ Ended(Transported(Flagged(Formatted(p)), p), list).size \in Nat
           /\ Ended(Transported(Flagged(Formatted(p)), p), list).size <= MaxRecord
  <1> DEFINE fields == Formatted(p)
             flags == Flagged(fields)
             text == Transported(flags, p)
             end == Strcat(text, "}", EndText)
  <1>1. p.size \in Nat /\ p.size <= MaxFields
    BY PacketsAssumption
  <1>2. fields.size = Cut(FieldsText + p.size, 2048)
    BY DEF Formatted, Text
  <1>3. fields.size \in Nat /\ fields.size <= FieldsText + MaxFields
    <2>1. FieldsText + p.size \in Nat  BY <1>1, SMT DEF FieldsText
    <2>2. Cut(FieldsText + p.size, 2048) \in Nat
          /\ Cut(FieldsText + p.size, 2048) <= FieldsText + p.size
      BY <2>1, CutBounds, SMT
    <2> QED  BY <1>1, <1>2, <2>2, SMT DEF FieldsText, MaxFields
  <1>4. flags.size = fields.size + FlagsText
    BY StrcatSize DEF Flagged
  <1>5. flags.size \in Nat
    BY <1>3, <1>4, SMT DEF FlagsText
  <1>6. text.size \in Nat /\ text.size <= flags.size + TransportText + NamedText + 63
    <2> HIDE DEF flags
    <2> QED  BY <1>5, TransportedBound
  <1>7. end.size = text.size + EndText
    BY StrcatSize
  <1>8. Ended(text, list).size \in {end.size, end.size + SeparatorText}
    <2>1. Ended(text, list) \in {end, Strcat(end, ",", SeparatorText)}
      BY DEF Ended
    <2>2. Strcat(end, ",", SeparatorText).size = end.size + SeparatorText
      BY StrcatSize
    <2> QED  BY <2>1, <2>2
  <1> HIDE DEF fields, flags, text, end
  <1>9. Ended(text, list).size \in Nat /\ Ended(text, list).size <= MaxRecord
    BY <1>3, <1>4, <1>6, <1>7, <1>8, SMT
       DEF FieldsText, MaxFields, FlagsText, TransportText, NamedText, EndText,
           SeparatorText, MaxRecord
  <1> QED  BY <1>9 DEF fields, flags, text

-----------------------------------------------------------------------------
(* What Fits says of any list that is walked.                              *)
LEMMA Room ==
    /\ MaxPackets \in Nat /\ MaxRecord \in Nat /\ MAX_JSON_SIZE \in Nat
    /\ \A n \in Nat : n <= MaxPackets =>
           Opening + n * MaxRecord + Closing + 2048 <= MAX_JSON_SIZE
  <1>1. MaxPackets \in Nat /\ MAX_JSON_SIZE \in Nat
    BY SizesAssumption
  <1>2. Opening + MaxPackets * MaxRecord + Closing + 2048 <= MAX_JSON_SIZE
    BY FitsAssumption DEF Fits
  <1>3. MaxRecord = 1130
    BY SMT DEF FieldsText, MaxFields, FlagsText, TransportText, NamedText, EndText,
               SeparatorText, MaxRecord
  <1> QED  BY <1>1, <1>2, <1>3, SMT DEF Opening, Closing

LEMMA ListSteps ==
    ASSUME Lists
    PROVE  /\ Len(original_inicio) \in Nat /\ Len(inicio) \in Nat
           /\ inicio # <<>> =>
                  /\ Head(inicio) \in Packets /\ Tail(inicio) \in Seq(Packets)
                  /\ Len(Tail(inicio)) = Len(inicio) - 1
           /\ inicio = <<>> => Len(inicio) = 0
  BY SMT DEF Lists

LEMMA InitInv == Init => Inv
  <1> SUFFICES ASSUME Init PROVE Inv
    OBVIOUS
  <1>1. PICK n \in 1..MaxPackets : original_inicio \in [1..n -> Packets]
    BY Zenon DEF Init
  <1>2. n \in Nat /\ n <= MaxPackets
    BY SizesAssumption, SMT
  <1>3. Lists
    <2>1. original_inicio \in Seq(Packets) /\ Len(original_inicio) = n
      BY <1>1, <1>2, SMT
    <2>2. inicio = original_inicio
      BY DEF Init
    <2> QED  BY <1>2, <2>1, <2>2, SMT DEF Lists
  <1>4. RecordSize
    BY Room, SMT DEF Init, RecordSize, Nothing
  <1>5. PayloadSize /\ HeaderSize /\ ContentLengthIsBody
    BY SMT DEF Init, PayloadSize, HeaderSize, ContentLengthIsBody, Nothing
  <1> QED  BY <1>3, <1>4, <1>5 DEF Init, Inv

LEMMA OpenInv == Inv /\ Open => Inv'
  <1> SUFFICES ASSUME Inv, Open PROVE Inv'
    OBVIOUS
  <1>1. Lists' /\ RecordSize'
    BY Zenon DEF Inv, Open, Lists, RecordSize
  <1>2. json_payload'.size = Opening
    BY DEF Open, Text
  <1>3. PayloadSize'
    <2>1. pc' = "packet"
      BY DEF Open
    <2>2. Len(original_inicio') - Len(inicio') \in Nat
      BY <1>1, SMT DEF Lists
    <2>3. (Len(original_inicio') - Len(inicio')) * MaxRecord \in Nat
      BY <2>2, Room, SMT
    <2> QED  BY <1>2, <2>1, <2>3, SMT DEF PayloadSize, Opening
  <1>4. HeaderSize' /\ ContentLengthIsBody'
    BY Zenon DEF Open, HeaderSize, ContentLengthIsBody
  <1> QED  BY <1>1, <1>3, <1>4, Zenon DEF Inv, Open

LEMMA PacketInv == Inv /\ Packet => Inv'
  <1> SUFFICES ASSUME Inv, Packet PROVE Inv'
    OBVIOUS
  <1>1. Lists'
    <2>1. inicio # <<>> /\ inicio' = Tail(inicio) /\ original_inicio' = original_inicio
      BY DEF Packet
    <2> QED  BY <2>1, SMT DEF Inv, Lists
  <1>2. RecordSize'
    <2> DEFINE p == Head(inicio)
    <2>1. p \in Packets
      BY ListSteps DEF Inv, Packet
    <2>2. temporary_buffer' = Ended(Transported(Flagged(Formatted(p)), p), inicio)
      BY DEF Packet
    <2> HIDE DEF p
    <2> QED  BY <2>1, <2>2, RecordBound DEF RecordSize
  <1>3. json_payload'.size = json_payload.size + temporary_buffer'.size
    BY StrcatSize DEF Packet
  <1>4. PayloadSize'
    <2>1. /\ pc = "packet" /\ pc' = "packet"
          /\ original_inicio' = original_inicio /\ inicio' = Tail(inicio) /\ inicio # <<>>
      BY DEF Packet
    <2>2. Len(inicio') = Len(inicio) - 1 /\ Len(inicio) \in Nat /\ Len(original_inicio) \in Nat
      BY <2>1, ListSteps DEF Inv
    <2>3. /\ json_payload.size \in Nat
          /\ json_payload.size
                <= Opening + (Len(original_inicio) - Len(inicio)) * MaxRecord
      BY <2>1 DEF Inv, PayloadSize
    <2>4. MaxRecord = 1130
      BY SMT DEF FieldsText, MaxFields, FlagsText, TransportText, NamedText, EndText,
                 SeparatorText, MaxRecord
    <2>5. temporary_buffer'.size \in Nat /\ temporary_buffer'.size <= MaxRecord
      BY <1>2 DEF RecordSize
    <2>6. /\ json_payload'.size \in Nat
          /\ json_payload'.size
                <= Opening + (Len(original_inicio') - Len(inicio')) * MaxRecord
      BY <1>3, <2>1, <2>2, <2>3, <2>4, <2>5, SMT DEF Opening
    <2> QED  BY <2>1, <2>6, Zenon DEF PayloadSize
  <1>5. HeaderSize' /\ ContentLengthIsBody'
    BY Zenon DEF Packet, HeaderSize, ContentLengthIsBody
  <1> QED  BY <1>1, <1>2, <1>4, <1>5, Zenon DEF Inv, Packet

LEMMA CloseInv == Inv /\ Close => Inv'
  <1> SUFFICES ASSUME Inv, Close PROVE Inv'
    OBVIOUS
  <1>1. Lists' /\ RecordSize'
    BY Zenon DEF Inv, Close, Lists, RecordSize
  <1>2. json_payload'.size = json_payload.size + Closing
    BY StrcatSize DEF Close
  <1>3. PayloadSize'
    <2>1. pc = "packet" /\ pc' = "header" /\ inicio = <<>>
      BY DEF Close
    <2>2. /\ Len(inicio) = 0 /\ Len(original_inicio) \in Nat
          /\ Len(original_inicio) <= MaxPackets
      BY <2>1, ListSteps DEF Inv, Lists
    <2>3. /\ json_payload.size \in Nat
          /\ json_payload.size
                <= Opening + (Len(original_inicio) - Len(inicio)) * MaxRecord
      BY <2>1 DEF Inv, PayloadSize
    <2>4. MaxRecord = 1130
      BY SMT DEF FieldsText, MaxFields, FlagsText, TransportText, NamedText, EndText,
                 SeparatorText, MaxRecord
    <2>5. /\ json_payload'.size \in Nat
          /\ json_payload'.size <= Opening + MaxPackets * MaxRecord + Closing
      BY <1>2, <2>2, <2>3, <2>4, SizesAssumption, SMT DEF Opening, Closing
    <2> QED  BY <2>1, <2>5, Zenon DEF PayloadSize
  <1>4. HeaderSize' /\ ContentLengthIsBody'
    BY Zenon DEF Close, HeaderSize, ContentLengthIsBody
  <1> QED  BY <1>1, <1>3, <1>4, Zenon DEF Inv, Close

LEMMA HeaderInv == Inv /\ Header => Inv'
  <1> SUFFICES ASSUME Inv, Header PROVE Inv'
    OBVIOUS
  <1>1. Lists' /\ RecordSize'
    BY SMT DEF Inv, Header, Lists, RecordSize
  <1>2. PayloadSize'
    <2>1. pc = "header" /\ pc' = "request" /\ json_payload' = json_payload
      BY DEF Header
    <2> QED  BY <2>1, Zenon DEF Inv, PayloadSize
  <1>3. HeaderSize'
    <2>1. PICK n \in HeaderFields :
              header' = [size |-> Cut(HeaderText + n, 2048),
                         content_length |-> json_payload.size]
      BY DEF Header
    <2>2. HeaderText + n \in Nat /\ HeaderText + n < 2048
      BY HeaderAssumption, SMT DEF HeaderText
    <2>3. /\ Cut(HeaderText + n, 2048) \in Nat
          /\ Cut(HeaderText + n, 2048) < 2048
      BY <2>2, SMT DEF Cut
    <2>4. header'.content_length = json_payload'.size
      BY <2>1 DEF Header
    <2>5. header'.size \in Nat /\ header'.size < 2048
      BY <2>1, <2>3
    <2> QED  BY <2>4, <2>5 DEF HeaderSize
  <1>4. pc' = "request"
    BY DEF Header
  <1>5. ContentLengthIsBody'
    BY <1>4, Zenon DEF ContentLengthIsBody
  <1> QED  BY <1>1, <1>2, <1>3, <1>4, <1>5, Zenon DEF Inv

LEMMA RequestInv == Inv /\ Request => Inv'
  <1> SUFFICES ASSUME Inv, Request PROVE Inv'
    OBVIOUS
  <1>1. Lists' /\ RecordSize'
    BY Zenon DEF Inv, Request, Lists, RecordSize
  <1>2. /\ pc = "request" /\ pc' = "done"
        /\ json_payload' = json_payload /\ header' = header
        /\ json_request' = Joined
    BY DEF Request
  <1>3. PayloadSize'
    BY <1>2, Zenon DEF Inv, PayloadSize
  <1>4. HeaderSize'
    BY <1>2, SMT DEF Inv, HeaderSize
  <1>5. ContentLengthIsBody'
    <2>1. /\ header.size \in Nat /\ header.size < 2048
          /\ header.content_length = json_payload.size
      BY <1>2 DEF Inv, HeaderSize
    <2>2. /\ json_payload.size \in Nat
          /\ json_payload.size <= Opening + MaxPackets * MaxRecord + Closing
      BY <1>2 DEF Inv, PayloadSize
    <2>3. Opening + MaxPackets * MaxRecord + Closing + 2048 <= MAX_JSON_SIZE
      BY Room, SizesAssumption
    <2>4. MaxPackets * MaxRecord \in Nat
      BY Room, SMT
    <2>5. /\ header.size + json_payload.size \in Nat
          /\ header.size + json_payload.size < MAX_JSON_SIZE
      BY <2>1, <2>2, <2>3, <2>4, Room, SMT DEF Opening, Closing
    <2>6. Joined = header.size + json_payload.size
      BY <2>5, Zenon DEF Joined, Cut
    <2> QED  BY <1>2, <2>1, <2>6 DEF ContentLengthIsBody
  <1> QED  BY <1>1, <1>2, <1>3, <1>4, <1>5, Zenon DEF Inv

LEMMA StutterInv == Inv /\ UNCHANGED vars => Inv'
  <1> SUFFICES ASSUME Inv, UNCHANGED vars PROVE Inv'
    OBVIOUS
  <1>1. Lists' /\ RecordSize' /\ ContentLengthIsBody'
    BY Zenon DEF Inv, vars, Lists, RecordSize, ContentLengthIsBody
  <1>2. PayloadSize'
    BY Zenon DEF Inv, vars, PayloadSize
  <1>3. HeaderSize'
    BY SMT DEF Inv, vars, HeaderSize
  <1> QED  BY <1>1, <1>2, <1>3, Zenon DEF Inv, vars

LEMMA Invariance == Spec => []Inv
  <1>1. Inv /\ [Next]_vars => Inv'
    BY OpenInv, PacketInv, CloseInv, HeaderInv, RequestInv, StutterInv DEF Next, Stopped
  <1> QED  BY InitInv, <1>1, PTL DEF Spec

-----------------------------------------------------------------------------
(* Neither buffer overflows, whatever the packets, the tables and the      *)
(* number of packets in the list (jsonparser.c:17-128).                    *)
THEOREM BuffersHold == Spec => []BuffersSuffice
  <1>1. Inv => BuffersSuffice
    <2> SUFFICES ASSUME Inv PROVE BuffersSuffice
      OBVIOUS
    <2>1. MaxRecord = 1130
      BY SMT DEF FieldsText, MaxFields, FlagsText, TransportText, NamedText, EndText,
                 SeparatorText, MaxRecord
    <2>2. temporary_buffer.size < 2048
      BY <2>1, SMT DEF Inv, RecordSize
    <2>3. /\ Len(original_inicio) \in Nat /\ Len(inicio) \in Nat
          /\ Len(inicio) <= Len(original_inicio) /\ Len(original_inicio) <= MaxPackets
      BY ListSteps DEF Inv, Lists
    <2>4. Opening + MaxPackets * MaxRecord + Closing + 2048 <= MAX_JSON_SIZE
      BY Room, SizesAssumption
    <2>5. json_payload.size \in Nat
      BY DEF Inv, PayloadSize
    <2>6. CASE pc = "open"
      <3>1. json_payload.size = 0
        BY <2>6 DEF Inv, PayloadSize
      <3> QED  BY <2>1, <2>2, <2>4, <3>1, Room, SMT DEF BuffersSuffice, Opening, Closing
    <2>7. CASE pc = "packet"
      <3>1. json_payload.size
                <= Opening + (Len(original_inicio) - Len(inicio)) * MaxRecord
        BY <2>7 DEF Inv, PayloadSize
      <3> QED  BY <2>1, <2>2, <2>3, <2>4, <2>5, <3>1, Room, SMT
                  DEF BuffersSuffice, Opening, Closing
    <2>8. CASE pc \in {"header", "request", "done"}
      <3>1. json_payload.size <= Opening + MaxPackets * MaxRecord + Closing
        BY <2>8 DEF Inv, PayloadSize
      <3> QED  BY <2>1, <2>2, <2>4, <2>5, <3>1, Room, SMT
                  DEF BuffersSuffice, Opening, Closing
    <2> QED  BY <2>6, <2>7, <2>8 DEF Inv
  <1> QED  BY Invariance, <1>1, PTL

(* The Content-Length of every request is the length of its body           *)
(* (jsonparser.c:159-163).                                                 *)
THEOREM LengthsAgree == Spec => []ContentLengthIsBody
  <1>1. Inv => ContentLengthIsBody
    BY DEF Inv
  <1> QED  BY Invariance, <1>1, PTL

-----------------------------------------------------------------------------
(* The pieces of what is written.                                          *)

Pieces == Seq(Words \cup {"[", "]"})

TableOf(p) == IF p.protocolo_transporte = 6 THEN app_tcp_services ELSE app_udp_services

NameOf(table, p) ==
    IF Listed(table, p.porta_destino) THEN table[p.porta_destino].name
    ELSE IF Listed(table, p.porta_origem) THEN table[p.porta_origem].name
    ELSE "Unknown/None"

Written(p, list) == Ended(Transported(Flagged(Formatted(p)), p), list)

IsNamed(pieces, p) ==
    p.protocolo_transporte \in {6, 17} => pieces[4] = NameOf(TableOf(p), p)

LEMMA StrcatPieces ==
    ASSUME NEW text, NEW piece, NEW n
    PROVE  Strcat(text, piece, n).pieces = Append(text.pieces, piece)
  BY DEF Strcat

LEMMA TextIsWords ==
    ASSUME NEW S, NEW text \in [pieces : Seq(S), size : Nat],
           NEW piece \in S, NEW n \in Nat
    PROVE  Strcat(text, piece, n) \in [pieces : Seq(S), size : Nat]
  <1>1. text.pieces \in Seq(S) /\ text.size \in Nat
    OBVIOUS
  <1>2. Append(text.pieces, piece) \in Seq(S)
    BY <1>1, AppendProperties
  <1>3. text.size + n \in Nat
    BY <1>1, SMT
  <1> QED  BY <1>2, <1>3 DEF Strcat

(* Three pieces one after the other.                                       *)
LEMMA ThreePieces ==
    ASSUME NEW S, NEW a \in S, NEW b \in S, NEW c \in S
    PROVE  Append(Append(<<a>>, b), c) = <<a, b, c>>
  <1> DEFINE s == Append(<<a>>, b)
             t == Append(s, c)
             u == <<a, b, c>>
  <1>1. <<a>> \in Seq(S) /\ Len(<<a>>) = 1 /\ <<a>>[1] = a
    BY SMT
  <1>2. /\ s \in Seq(S) /\ Len(s) = Len(<<a>>) + 1
        /\ \A i \in 1..Len(<<a>>) : s[i] = <<a>>[i]
        /\ s[Len(<<a>>) + 1] = b
    BY <1>1, AppendProperties
  <1> HIDE DEF s
  <1>3. s \in Seq(S)  BY <1>2
  <1>4. Len(s) = 2 /\ s[1] = a /\ s[2] = b
    BY <1>1, <1>2, SMT
  <1>5. /\ t \in Seq(S) /\ Len(t) = Len(s) + 1
        /\ \A i \in 1..Len(s) : t[i] = s[i]
        /\ t[Len(s) + 1] = c
    BY <1>3, AppendProperties
  <1> HIDE DEF t
  <1>6. t \in Seq(S) /\ Len(t) = 3 /\ t[1] = a /\ t[2] = b /\ t[3] = c
    BY <1>4, <1>5, SMT
  <1>7. u \in Seq(S) /\ Len(u) = 3 /\ u[1] = a /\ u[2] = b /\ u[3] = c
    BY SMT
  <1> HIDE DEF u
  <1>8. \A i \in 1..Len(t) : t[i] = u[i]
    BY <1>6, <1>7, SMT
  <1>9. t = u  BY <1>6, <1>7, <1>8, SeqEqual
  <1> QED  BY <1>9 DEF t, u, s

LEMMA FourthStays ==
    ASSUME NEW S, NEW s \in Seq(S), NEW a \in S
    PROVE  /\ Append(s, a) \in Seq(S)
           /\ Len(Append(s, a)) = Len(s) + 1
           /\ Len(s) = 3 => Append(s, a)[4] = a
           /\ Len(s) > 3 => Append(s, a)[4] = s[4]
  <1>1. /\ Append(s, a) \in Seq(S) /\ Len(Append(s, a)) = Len(s) + 1
        /\ \A i \in 1..Len(s) : Append(s, a)[i] = s[i]
        /\ Append(s, a)[Len(s) + 1] = a
    BY AppendProperties
  <1>2. Len(s) \in Nat  BY LenProperties
  <1>3. Len(s) > 3 => 4 \in 1..Len(s)  BY <1>2, SMT
  <1>4. Len(s) = 3 => Len(s) + 1 = 4  BY SMT
  <1> QED  BY <1>1, <1>3, <1>4

LEMMA TuplesAreSequences ==
    ASSUME NEW S, NEW a \in S, NEW b \in S, NEW c \in S
    PROVE  <<a>> \in Seq(S) /\ <<a, b, c>> \in Seq(S) /\ Len(<<a, b, c>>) = 3
  BY SMT

(* One piece, or two, behind others.                                       *)
LEMMA PiecesBehind ==
    ASSUME NEW S, NEW s \in Seq(S), NEW a \in S, NEW b \in S
    PROVE  s \o <<a>> = Append(s, a) /\ s \o <<a, b>> = Append(Append(s, a), b)
  <1>1. s \o <<a>> = Append(s, a) /\ Append(s, a) \in Seq(S)
    BY AppendIsConcat, AppendProperties
  <1>2. Append(s, a) \o <<b>> = Append(Append(s, a), b)
    BY <1>1, AppendIsConcat
  <1>3. <<a>> \in Seq(S) /\ <<b>> \in Seq(S) /\ Len(<<a>>) = 1 /\ Len(<<b>>) = 1
        /\ <<a>>[1] = a /\ <<b>>[1] = b
    BY SMT
  <1>4. (s \o <<a>>) \o <<b>> = s \o (<<a>> \o <<b>>)
    BY <1>3, ConcatAssociative
  <1>5. <<a>> \o <<b>> = <<a, b>>
    <2> DEFINE t == <<a>> \o <<b>>
               u == <<a, b>>
    <2>1. /\ t \in Seq(S) /\ Len(t) = Len(<<a>>) + Len(<<b>>)
          /\ \A i \in 1..(Len(<<a>>) + Len(<<b>>)) :
                 t[i] = IF i <= Len(<<a>>) THEN <<a>>[i] ELSE <<b>>[i - Len(<<a>>)]
      BY <1>3, ConcatProperties
    <2> HIDE DEF t
    <2>2. Len(t) = 2 /\ t[1] = a /\ t[2] = b
      BY <1>3, <2>1, SMT
    <2>3. u \in Seq(S) /\ Len(u) = 2 /\ u[1] = a /\ u[2] = b
      BY SMT
    <2> HIDE DEF u
    <2>4. \A i \in 1..Len(t) : t[i] = u[i]  BY <2>2, <2>3, SMT
    <2>5. t = u  BY <2>1, <2>2, <2>3, <2>4, SeqEqual
    <2> QED  BY <2>5 DEF t, u
  <1> QED  BY <1>1, <1>2, <1>4, <1>5

(* What the application adds is its name.                                  *)
LEMMA ApplicationPieces ==
    ASSUME NEW text, NEW table, NEW p
    PROVE  Application(text, table, p).pieces = Append(text.pieces, NameOf(table, p))
  BY StrcatPieces, Zenon DEF Application, Named, Unnamed, NameOf

(* The name is one the document may have there.                            *)
LEMMA NameIsOfApplication ==
    ASSUME NEW p \in Packets, p.protocolo_transporte \in {6, 17}
    PROVE  <<NameOf(TableOf(p), p)>> \in ApplicationOf(p)
  <1> DEFINE table == TableOf(p)
             named == {port \in {p.porta_origem, p.porta_destino} \cap DOMAIN table : port # 0}
  <1>1. p.porta_origem \in Nat /\ p.porta_destino \in Nat
    BY PacketsAssumption
  <1>2. ApplicationOf(p) = IF named = {} THEN {<<"Unknown/None">>}
                           ELSE {<<table[port].name>> : port \in named}
    BY DEF ApplicationOf, TableOf
  <1>3. \A port \in Nat : port # 0 <=> port > 0
    BY SMT
  <1> HIDE DEF table
  <1>4. /\ p.porta_origem \in named <=> Listed(table, p.porta_origem)
        /\ p.porta_destino \in named <=> Listed(table, p.porta_destino)
    BY <1>1, <1>3 DEF Listed
  <1>5. named \subseteq {p.porta_origem, p.porta_destino}
    OBVIOUS
  <1> HIDE DEF named
  <1>6. CASE Listed(table, p.porta_destino)
    BY <1>2, <1>4, <1>6 DEF NameOf, table
  <1>7. CASE ~Listed(table, p.porta_destino) /\ Listed(table, p.porta_origem)
    BY <1>2, <1>4, <1>7 DEF NameOf, table
  <1>8. CASE ~Listed(table, p.porta_destino) /\ ~Listed(table, p.porta_origem)
    <2>1. named = {}  BY <1>4, <1>5, <1>8
    <2> QED  BY <1>2, <1>8, <2>1 DEF NameOf, table
  <1> QED  BY <1>6, <1>7, <1>8

LEMMA NameIsWord ==
    ASSUME NEW p
    PROVE  NameOf(TableOf(p), p) \in Words
  <1>1. TableOf(p) \in Tables  BY DEF TableOf, Tables
  <1>2. ASSUME NEW port, Listed(TableOf(p), port)
        PROVE  TableOf(p)[port].name \in Words
    <2> DEFINE table == TableOf(p)
               names == {table[q].name : q \in DOMAIN table}
    <2>1. port \in DOMAIN table  BY <1>2 DEF Listed
    <2>2. table[port].name \in names  BY <2>1
    <2>3. names \in {{t[q].name : q \in DOMAIN t} : t \in Tables}  BY <1>1
    <2> HIDE DEF names
    <2>4. table[port].name \in UNION {{t[q].name : q \in DOMAIN t} : t \in Tables}
      BY <2>2, <2>3
    <2> QED  BY <2>4 DEF Words
  <1>3. "Unknown/None" \in Words  BY DEF Words
  <1> QED  BY <1>2, <1>3 DEF NameOf

LEMMA TransportNameIsWord ==
    ASSUME NEW protocol
    PROVE  TransportName(protocol) \in Words
  <1>1. TransportName(protocol) \in
            {"ICMP", "STREAM", "TCP", "UDP", "ICMPv6", "Unknown/None"}
    BY Zenon DEF TransportName
  <1> QED  BY <1>1 DEF Words

LEMMA SizesAreNumbers ==
    /\ FlagsText \in Nat /\ TransportText \in Nat /\ UnnamedText \in Nat
    /\ NamedText \in Nat /\ EndText \in Nat /\ SeparatorText \in Nat
    /\ Opening \in Nat /\ Closing \in Nat
  BY SMT DEF FlagsText, TransportText, UnnamedText, NamedText, EndText, SeparatorText,
             Opening, Closing

(* A packet's pieces are its object, and its name is where it should be.   *)
LEMMA WrittenIsObject ==
    ASSUME NEW p \in Packets, NEW list
    PROVE  /\ IsObject(Written(p, list).pieces, p, ~Followed(list))
           /\ IsNamed(Written(p, list).pieces, p)
           /\ Written(p, list) \in [pieces : Seq(Words), size : Nat]
  <1> DEFINE base == <<p.fields, "flags", TransportName(p.protocolo_transporte)>>
             line == Strcat(Flagged(Formatted(p)), TransportName(p.protocolo_transporte),
                            TransportText)
             text == Transported(Flagged(Formatted(p)), p)
             name == NameOf(TableOf(p), p)
             end == Strcat(text, "}", EndText)
  <1>1. /\ p.fields \in Words /\ "flags" \in Words /\ "}" \in Words /\ "," \in Words
        /\ TransportName(p.protocolo_transporte) \in Words /\ name \in Words
    BY TransportNameIsWord, NameIsWord DEF Words
  <1>2. line.pieces = base
    <2>1. Formatted(p).pieces = <<p.fields>>  BY DEF Formatted, Text
    <2>2. Flagged(Formatted(p)).pieces = Append(<<p.fields>>, "flags")
      BY <2>1, StrcatPieces DEF Flagged
    <2>3. line.pieces =
              Append(Append(<<p.fields>>, "flags"), TransportName(p.protocolo_transporte))
      BY <2>2, StrcatPieces
    <2> QED  BY <1>1, <2>3, ThreePieces
  <1>3. base \in Seq(Words) /\ Len(base) = 3
    BY <1>1, TuplesAreSequences
  <1>4. p.protocolo_transporte \in {6, 17} => text = Application(line, TableOf(p), p)
    BY DEF Transported, TableOf
  <1>5. p.protocolo_transporte \notin {6, 17} => text = line
    BY DEF Transported
  <1>6. line \in [pieces : Seq(Words), size : Nat]
    <2>1. FieldsText + p.size \in Nat
      BY PacketsAssumption, SMT DEF FieldsText
    <2>2. Cut(FieldsText + p.size, 2048) \in Nat
      BY <2>1, CutBounds, SMT
    <2>3. <<p.fields>> \in Seq(Words)  BY <1>1, TuplesAreSequences
    <2>4. Formatted(p) \in [pieces : Seq(Words), size : Nat]
      BY <2>2, <2>3 DEF Formatted, Text
    <2>5. Flagged(Formatted(p)) \in [pieces : Seq(Words), size : Nat]
      BY <1>1, <2>4, TextIsWords, SizesAreNumbers DEF Flagged
    <2> QED  BY <1>1, <2>5, TextIsWords, SizesAreNumbers
  <1> HIDE DEF line
  <1>7. p.protocolo_transporte \in {6, 17} => text.pieces = Append(base, name)
    BY <1>2, <1>4, ApplicationPieces
  <1> HIDE DEF base, name
  <1>8. text.size \in Nat
    <2>1. line.size \in Nat  BY <1>6
    <2>2. TableOf(p) \in {app_tcp_services, app_udp_services}  BY DEF TableOf
    <2>3. Application(line, TableOf(p), p).size \in Nat
      BY <2>1, <2>2, ApplicationBound
    <2> QED  BY <1>4, <1>5, <2>1, <2>3
  <1>9. text \in [pieces : Seq(Words), size : Nat]
    <2>1. text.pieces \in Seq(Words)
      <3>1. Append(base, name) \in Seq(Words)  BY <1>1, <1>3, AppendProperties
      <3> QED  BY <1>2, <1>3, <1>5, <1>7, <3>1
    <2>2. text = [pieces |-> text.pieces, size |-> text.size]
      <3>1. Application(line, TableOf(p), p) =
                [pieces |-> Application(line, TableOf(p), p).pieces,
                 size |-> Application(line, TableOf(p), p).size]
        BY Zenon DEF Application, Named, Unnamed, Strcat
      <3>2. line = [pieces |-> line.pieces, size |-> line.size]  BY <1>6
      <3> QED  BY <1>4, <1>5, <3>1, <3>2
    <2> QED  BY <1>8, <2>1, <2>2
  <1> HIDE DEF text
  <1>10. end \in [pieces : Seq(Words), size : Nat] /\ end.pieces = Append(text.pieces, "}")
    BY <1>1, <1>9, TextIsWords, StrcatPieces, SizesAreNumbers
  <1>11. Written(p, list) =
             IF Followed(list) THEN Strcat(end, ",", SeparatorText) ELSE end
    BY DEF Written, Ended, text
  <1> HIDE DEF end
  <1>12. Written(p, list) \in [pieces : Seq(Words), size : Nat]
    <2>1. "," \in Words /\ SeparatorText \in Nat  BY <1>1, SizesAreNumbers
    <2>2. end \in [pieces : Seq(Words), size : Nat]  BY <1>10
    <2>3. Strcat(end, ",", SeparatorText) \in [pieces : Seq(Words), size : Nat]
      BY <2>1, <2>2, TextIsWords
    <2> QED  BY <1>11, <2>2, <2>3
  <1>13. Written(p, list).pieces =
             text.pieces \o (IF ~Followed(list) THEN <<"}">> ELSE <<"}", ",">>)
    <2>1. text.pieces \in Seq(Words)  BY <1>9
    <2> DEFINE close == "}"
               comma == ","
    <2>2. close \in Words /\ comma \in Words  BY <1>1
    <2> HIDE DEF close, comma
    <2>3. /\ text.pieces \o <<close>> = Append(text.pieces, close)
          /\ text.pieces \o <<close, comma>> = Append(Append(text.pieces, close), comma)
      BY <2>1, <2>2, PiecesBehind
    <2>4. /\ text.pieces \o <<"}">> = end.pieces
          /\ text.pieces \o <<"}", ",">> = Append(end.pieces, ",")
      BY <1>10, <2>3 DEF close, comma
    <2> QED  BY <1>11, <2>4, StrcatPieces
  <1>14. \E application \in ApplicationOf(p) : text.pieces = base \o application
    <2>1. CASE p.protocolo_transporte \in {6, 17}
      <3>1. <<name>> \in ApplicationOf(p)  BY <2>1, NameIsOfApplication DEF name
      <3>2. base \o <<name>> = Append(base, name)  BY <1>1, <1>3, PiecesBehind
      <3> QED  BY <1>7, <2>1, <3>1, <3>2
    <2>2. CASE p.protocolo_transporte \notin {6, 17}
      <3>1. ApplicationOf(p) = {<<>>}  BY <2>2 DEF ApplicationOf
      <3>2. base \o <<>> = base  BY <1>3, ConcatEmptySeq
      <3> QED  BY <1>2, <1>5, <2>2, <3>1, <3>2
    <2> QED  BY <2>1, <2>2
  <1>15. IsObject(Written(p, list).pieces, p, ~Followed(list))
    BY <1>13, <1>14 DEF IsObject, base
  <1>16. IsNamed(Written(p, list).pieces, p)
    <2> SUFFICES ASSUME p.protocolo_transporte \in {6, 17}
                 PROVE  Written(p, list).pieces[4] = name
      BY DEF IsNamed, name
    <2>1. text.pieces \in Seq(Words) /\ Len(text.pieces) = 4 /\ text.pieces[4] = name
      <3>1. /\ Append(base, name) \in Seq(Words)
            /\ Len(Append(base, name)) = Len(base) + 1
            /\ Len(base) = 3 => Append(base, name)[4] = name
        BY <1>1, <1>3, FourthStays
      <3>2. Len(base) + 1 = 4  BY <1>3, SMT
      <3> QED  BY <1>3, <1>7, <3>1, <3>2
    <2>2. text.pieces \in Seq(Words) /\ "}" \in Words /\ "," \in Words
      BY <1>1, <2>1
    <2>3. end.pieces \in Seq(Words) /\ Len(end.pieces) = 5 /\ end.pieces[4] = name
      <3>1. /\ Append(text.pieces, "}") \in Seq(Words)
            /\ Len(Append(text.pieces, "}")) = Len(text.pieces) + 1
            /\ Len(text.pieces) > 3 => Append(text.pieces, "}")[4] = text.pieces[4]
        BY <2>2, FourthStays
      <3>2. Len(text.pieces) > 3 /\ Len(text.pieces) + 1 = 5  BY <2>1, SMT
      <3> QED  BY <1>10, <2>1, <3>1, <3>2
    <2>4. Append(end.pieces, ",")[4] = name
      <3>1. end.pieces \in Seq(Words)  BY <2>3
      <3>2. Len(end.pieces) > 3 => Append(end.pieces, ",")[4] = end.pieces[4]
        BY <2>2, <3>1, FourthStays
      <3>3. Len(end.pieces) > 3  BY <2>3, SMT
      <3> QED  BY <2>3, <3>2, <3>3
    <2> QED  BY <1>11, <2>3, <2>4, StrcatPieces
  <1> QED  BY <1>12, <1>15, <1>16

-----------------------------------------------------------------------------
(* The document: an object for each packet that was walked, in order.      *)

Walked == Len(original_inicio) - Len(inicio)

Rest == \A j \in 1..Len(inicio) : inicio[j] = original_inicio[Walked + j]

Types ==
    /\ temporary_buffer \in [pieces : Seq(Words), size : Nat]
    /\ json_payload \in [pieces : Seq(Pieces), size : Nat]
    /\ header \in [size : Nat, content_length : Nat]
    /\ json_request \in Nat

Frame ==
    /\ pc = "open" => Walked = 0
    /\ pc # "open" =>
           /\ Len(json_payload.pieces) = Walked + (IF pc = "packet" THEN 1 ELSE 2)
           /\ json_payload.pieces[1] = <<"[">>
    /\ pc \notin {"open", "packet"} =>
           Len(inicio) = 0 /\ json_payload.pieces[Walked + 2] = <<"]">>

Objects ==
    pc # "open" =>
        \A k \in 1..Walked :
            /\ IsObject(json_payload.pieces[k + 1], original_inicio[k],
                        k = Len(original_inicio))
            /\ IsNamed(json_payload.pieces[k + 1], original_inicio[k])

DocInv ==
    /\ Inv
    /\ Types
    /\ Rest
    /\ Frame
    /\ Objects

LEMMA WalkedBounds ==
    ASSUME Lists
    PROVE  /\ Walked \in Nat /\ Len(original_inicio) \in Nat /\ Len(inicio) \in Nat
           /\ Walked = Len(original_inicio) - Len(inicio)
  BY ListSteps, SMT DEF Lists, Walked

(* A word is a text of one piece, and so are both brackets.                *)
LEMMA PiecesOfWords ==
    /\ Seq(Words) \subseteq Pieces
    /\ <<"[">> \in Pieces /\ <<"]">> \in Pieces
  <1> DEFINE Both == Words \cup {"[", "]"}
             opening == "["
             closing == "]"
  <1>1. Words \subseteq Both /\ opening \in Both /\ closing \in Both
    OBVIOUS
  <1> HIDE DEF Both, opening, closing
  <1>2. <<opening>> \in Seq(Both) /\ <<closing>> \in Seq(Both)
    BY <1>1, TuplesAreSequences
  <1>3. \A s \in Seq(Words) : s \in Seq(Both)
    BY <1>1, SeqMonotonic
  <1> QED  BY <1>2, <1>3 DEF Pieces, Both, opening, closing

LEMMA DocInit == Init => DocInv
  <1> SUFFICES ASSUME Init PROVE DocInv
    OBVIOUS
  <1>1. Inv  BY InitInv
  <1>2. Len(original_inicio) \in Nat /\ inicio = original_inicio /\ pc = "open"
    BY <1>1, ListSteps DEF Inv, Init
  <1>3. Walked = 0  BY <1>2, SMT DEF Walked
  <1>4. Types
    <2>1. <<>> \in Seq(Words) /\ <<>> \in Seq(Pieces)  BY EmptySeq
    <2> QED  BY <2>1 DEF Init, Types, Nothing
  <1>5. Rest
    <2>1. \A j \in 1..Len(inicio) : Walked + j = j  BY <1>2, <1>3, SMT
    <2> QED  BY <1>2, <2>1 DEF Rest
  <1>6. Frame  BY <1>2, <1>3 DEF Frame
  <1>7. Objects  BY <1>2 DEF Objects
  <1> QED  BY <1>1, <1>4, <1>5, <1>6, <1>7 DEF DocInv

LEMMA OpenDoc == DocInv /\ Open => DocInv'
  <1> SUFFICES ASSUME DocInv, Open PROVE DocInv'
    OBVIOUS
  <1>1. Inv'  BY OpenInv DEF DocInv
  <1>2. /\ pc = "open" /\ pc' = "packet" /\ inicio' = inicio
        /\ original_inicio' = original_inicio
        /\ temporary_buffer' = temporary_buffer /\ header' = header
        /\ json_request' = json_request
        /\ json_payload' = [pieces |-> <<<<"[">>>>, size |-> Opening]
    BY DEF Open, Text
  <1> DEFINE bracket == <<"[">>
  <1>3. bracket \in Pieces  BY PiecesOfWords
  <1>4. json_payload' = [pieces |-> <<bracket>>, size |-> Opening]  BY <1>2
  <1> HIDE DEF bracket
  <1>5. Types'
    <2>1. <<bracket>> \in Seq(Pieces)  BY <1>3, TuplesAreSequences
    <2> QED  BY <1>2, <1>4, <2>1, SizesAreNumbers DEF DocInv, Types
  <1>6. Walked' = 0  BY <1>2 DEF DocInv, Frame, Walked
  <1>7. Rest'  BY <1>2 DEF DocInv, Rest, Walked
  <1>8. Frame'
    <2>1. Len(<<bracket>>) = 0 + 1 /\ <<bracket>>[1] = bracket  BY SMT
    <2> QED  BY <1>2, <1>4, <1>6, <2>1 DEF Frame, bracket
  <1>9. Objects'
    <2>1. 1..0 = {}  BY SMT
    <2> QED  BY <1>6, <2>1 DEF Objects
  <1> QED  BY <1>1, <1>5, <1>7, <1>8, <1>9 DEF DocInv

(* No packet follows the last one.                                         *)
LEMMA LastOne == ASSUME NEW w \in Nat, NEW m \in Nat, NEW l \in Nat, w = m - l
                 PROVE  l - 1 = 0 <=> w + 1 = m
  BY SMT

LEMMA PacketDoc == DocInv /\ Packet => DocInv'
  <1> SUFFICES ASSUME DocInv, Packet PROVE DocInv'
    OBVIOUS
  <1> DEFINE p == Head(inicio)
             n == Len(original_inicio)
             record == temporary_buffer'.pieces
             pieces == json_payload.pieces
  <1>1. Inv'  BY PacketInv DEF DocInv
  <1>2. /\ pc = "packet" /\ pc' = "packet" /\ inicio # <<>> /\ inicio' = Tail(inicio)
        /\ original_inicio' = original_inicio /\ header' = header
        /\ json_request' = json_request
        /\ temporary_buffer' = Written(p, inicio)
        /\ json_payload' = Strcat(json_payload, record, temporary_buffer'.size)
    BY DEF Packet, Written
  <1>3. p \in Packets /\ Len(Tail(inicio)) = Len(inicio) - 1 /\ inicio \in Seq(Packets)
    BY <1>2, ListSteps DEF DocInv, Inv, Lists
  <1>4. /\ Walked \in Nat /\ n \in Nat /\ Len(inicio) \in Nat /\ Len(inicio) # 0
        /\ Walked = n - Len(inicio)
    <2>1. Len(inicio) \in Nat \ {0}  BY <1>2, <1>3, EmptySeq
    <2> QED  BY <2>1, WalkedBounds DEF DocInv, Inv
  <1>5. Walked' = Walked + 1
    BY <1>2, <1>3, <1>4, SMT DEF Walked
  <1>6. /\ IsObject(record, p, ~Followed(inicio)) /\ IsNamed(record, p)
        /\ temporary_buffer' \in [pieces : Seq(Words), size : Nat]
    BY <1>2, <1>3, WrittenIsObject
  <1>7. /\ inicio[1] = original_inicio[Walked + 1]
        /\ p = inicio[1]
        /\ \A i \in 1..Len(Tail(inicio)) : Tail(inicio)[i] = inicio[i + 1]
    <2>1. 1 \in 1..Len(inicio)  BY <1>4, SMT
    <2>2. inicio[1] = original_inicio[Walked + 1]  BY <2>1 DEF DocInv, Rest
    <2>3. p = inicio[1]  BY <1>3
    <2> QED  BY <1>2, <1>3, <2>2, <2>3, HeadTailProperties
  <1>8. ~Followed(inicio) <=> Walked + 1 = n
    <2>1. Tail(inicio) \in Seq(Packets)  BY <1>2, <1>3, HeadTailProperties
    <2>2. Tail(inicio) = <<>> <=> Len(Tail(inicio)) = 0  BY <2>1, EmptySeq
    <2>3. Len(inicio) - 1 = 0 <=> Walked + 1 = n
      <3> HIDE DEF n
      <3> QED  BY <1>4, LastOne, ZenonT(60)
    <2> QED  BY <1>3, <2>2, <2>3 DEF Followed
  <1> HIDE DEF p, n
  <1>9. record \in Pieces /\ temporary_buffer'.size \in Nat
    <2>1. record \in Seq(Words) /\ temporary_buffer'.size \in Nat  BY <1>6
    <2> HIDE DEF record
    <2> QED  BY <2>1, PiecesOfWords
  <1>10. /\ pieces \in Seq(Pieces) /\ Len(pieces) = Walked + 1 /\ pieces[1] = <<"[">>
         /\ json_payload \in [pieces : Seq(Pieces), size : Nat]
    BY <1>2 DEF DocInv, Types, Frame
  <1>11. json_payload'.pieces = Append(pieces, record)
    BY <1>2, StrcatPieces
  <1> HIDE DEF record, pieces
  <1>12. /\ Append(pieces, record) \in Seq(Pieces)
         /\ Len(Append(pieces, record)) = Len(pieces) + 1
         /\ \A i \in 1..Len(pieces) : Append(pieces, record)[i] = pieces[i]
         /\ Append(pieces, record)[Len(pieces) + 1] = record
    BY <1>9, <1>10, AppendProperties
  <1>13. Types'
    <2>1. json_payload' \in [pieces : Seq(Pieces), size : Nat]
      BY <1>2, <1>9, <1>10, TextIsWords
    <2> QED  BY <1>2, <1>6, <2>1 DEF DocInv, Types
  <1>14. Rest'
    <2> SUFFICES ASSUME NEW j \in 1..Len(Tail(inicio))
                 PROVE  Tail(inicio)[j] = original_inicio[Walked + 1 + j]
      BY <1>2, <1>5 DEF Rest
    <2>1. j + 1 \in 1..Len(inicio) /\ Walked + (j + 1) = Walked + 1 + j
      BY <1>3, <1>4, SMT
    <2>2. inicio[j + 1] = original_inicio[Walked + (j + 1)]
      BY <2>1 DEF DocInv, Rest
    <2> QED  BY <1>7, <2>1, <2>2
  <1>15. Frame'
    <2>1. Len(pieces) + 1 = Walked + 1 + 1  BY <1>10
    <2>2. 1 \in 1..Len(pieces)  BY <1>4, <1>10, SMT
    <2>3. Append(pieces, record)[1] = <<"[">>  BY <1>10, <1>12, <2>2
    <2> QED  BY <1>2, <1>5, <1>11, <1>12, <2>1, <2>3 DEF Frame
  <1>16. Objects'
    <2> SUFFICES ASSUME NEW k \in 1..(Walked + 1)
                 PROVE  /\ IsObject(Append(pieces, record)[k + 1], original_inicio[k], k = n)
                        /\ IsNamed(Append(pieces, record)[k + 1], original_inicio[k])
      BY <1>2, <1>5, <1>11, Zenon DEF Objects, n
    <2>1. CASE k = Walked + 1
      <3>1. Append(pieces, record)[k + 1] = record  BY <1>10, <1>12, <2>1
      <3>2. original_inicio[k] = p  BY <1>7, <2>1
      <3>3. IsObject(record, p, k = n) /\ IsNamed(record, p)
        BY <1>6, <1>8, <2>1
      <3> QED  BY <3>1, <3>2, <3>3
    <2>2. CASE k # Walked + 1
      <3>1. k \in 1..Walked /\ k + 1 \in 1..Len(pieces)
        BY <1>4, <1>10, <2>2, SMT
      <3>2. Append(pieces, record)[k + 1] = pieces[k + 1]  BY <1>12, <3>1
      <3>3. /\ IsObject(pieces[k + 1], original_inicio[k], k = n)
            /\ IsNamed(pieces[k + 1], original_inicio[k])
        BY <1>2, <3>1 DEF DocInv, Objects, pieces, n
      <3> QED  BY <3>2, <3>3
    <2> QED  BY <2>1, <2>2
  <1> QED  BY <1>1, <1>13, <1>14, <1>15, <1>16 DEF DocInv

LEMMA CloseDoc == DocInv /\ Close => DocInv'
  <1> SUFFICES ASSUME DocInv, Close PROVE DocInv'
    OBVIOUS
  <1> DEFINE bracket == <<"]">>
             pieces == json_payload.pieces
  <1>1. Inv'  BY CloseInv DEF DocInv
  <1>2. /\ pc = "packet" /\ pc' = "header" /\ inicio = <<>> /\ inicio' = inicio
        /\ original_inicio' = original_inicio
        /\ temporary_buffer' = temporary_buffer /\ header' = header
        /\ json_request' = json_request
        /\ json_payload' = Strcat(json_payload, bracket, Closing)
    BY DEF Close
  <1>3. Len(inicio) = 0 /\ Walked \in Nat
    BY <1>2, ListSteps, WalkedBounds DEF DocInv, Inv
  <1>4. bracket \in Pieces  BY PiecesOfWords
  <1>5. /\ pieces \in Seq(Pieces) /\ Len(pieces) = Walked + 1 /\ pieces[1] = <<"[">>
        /\ json_payload \in [pieces : Seq(Pieces), size : Nat]
    BY <1>2 DEF DocInv, Types, Frame
  <1>6. json_payload'.pieces = Append(pieces, bracket)
    BY <1>2, StrcatPieces
  <1> HIDE DEF bracket, pieces
  <1>7. /\ Len(Append(pieces, bracket)) = Len(pieces) + 1
        /\ \A i \in 1..Len(pieces) : Append(pieces, bracket)[i] = pieces[i]
        /\ Append(pieces, bracket)[Len(pieces) + 1] = bracket
    BY <1>4, <1>5, AppendProperties
  <1>8. Walked' = Walked  BY <1>2 DEF Walked
  <1>9. Types'
    <2>1. json_payload' \in [pieces : Seq(Pieces), size : Nat]
      BY <1>2, <1>4, <1>5, TextIsWords, SizesAreNumbers
    <2> QED  BY <1>2, <2>1 DEF DocInv, Types
  <1>10. Rest'  BY <1>2, <1>8 DEF DocInv, Rest
  <1>11. Frame'
    <2>1. Len(pieces) + 1 = Walked + 2  BY <1>3, <1>5, SMT
    <2>2. 1 \in 1..Len(pieces)  BY <1>3, <1>5, SMT
    <2>3. Append(pieces, bracket)[1] = <<"[">>  BY <1>5, <1>7, <2>2
    <2>4. Append(pieces, bracket)[Walked + 2] = <<"]">>  BY <1>7, <2>1 DEF bracket
    <2> QED  BY <1>2, <1>3, <1>6, <1>7, <1>8, <2>1, <2>3, <2>4 DEF Frame
  <1>12. Objects'
    <2> SUFFICES ASSUME NEW k \in 1..Walked
                 PROVE  /\ IsObject(Append(pieces, bracket)[k + 1], original_inicio[k],
                                    k = Len(original_inicio))
                        /\ IsNamed(Append(pieces, bracket)[k + 1], original_inicio[k])
      BY <1>2, <1>6, <1>8, Zenon DEF Objects
    <2>1. k + 1 \in 1..Len(pieces)  BY <1>3, <1>5, SMT
    <2>2. Append(pieces, bracket)[k + 1] = pieces[k + 1]  BY <1>7, <2>1
    <2> QED  BY <1>2, <2>2 DEF DocInv, Objects, pieces
  <1> QED  BY <1>1, <1>9, <1>10, <1>11, <1>12 DEF DocInv

(* The steps that leave the document as it is.                             *)
LEMMA KeptDoc ==
    ASSUME DocInv, Inv', Types',
           pc \notin {"open", "packet"}, pc' \notin {"open", "packet"},
           UNCHANGED <<original_inicio, inicio, json_payload>>
    PROVE  DocInv'
  <1>1. Walked' = Walked  BY DEF Walked
  <1>2. Rest'  BY <1>1 DEF DocInv, Rest
  <1>3. Frame'  BY <1>1 DEF DocInv, Frame
  <1>4. Objects'  BY <1>1 DEF DocInv, Objects
  <1> QED  BY <1>2, <1>3, <1>4 DEF DocInv

LEMMA CutIsNumber ==
    ASSUME NEW n \in Nat, NEW size \in Nat, size > 0
    PROVE  Cut(n, size) \in Nat
  BY CutBounds

LEMMA HeaderDoc == DocInv /\ Header => DocInv'
  <1> SUFFICES ASSUME DocInv, Header PROVE DocInv'
    OBVIOUS
  <1>1. Inv'  BY HeaderInv DEF DocInv
  <1>2. PICK n \in HeaderFields :
            header' = [size |-> Cut(HeaderText + n, 2048),
                       content_length |-> json_payload.size]
    BY DEF Header
  <1>3. HeaderText + n \in Nat
    BY HeaderAssumption, SMT DEF HeaderText
  <1>4. Cut(HeaderText + n, 2048) \in Nat
    BY <1>3, CutIsNumber, SMT
  <1>5. json_payload.size \in Nat  BY DEF DocInv, Types
  <1>6. header' \in [size : Nat, content_length : Nat]
    BY <1>2, <1>4, <1>5
  <1>7. Types'  BY <1>6 DEF DocInv, Types, Header
  <1> QED  BY <1>1, <1>7, KeptDoc DEF Header

LEMMA RequestDoc == DocInv /\ Request => DocInv'
  <1> SUFFICES ASSUME DocInv, Request PROVE DocInv'
    OBVIOUS
  <1>1. Inv'  BY RequestInv DEF DocInv
  <1>2. header.size \in Nat /\ json_payload.size \in Nat  BY DEF DocInv, Types
  <1>3. header.size + json_payload.size \in Nat  BY <1>2, SMT
  <1>4. MAX_JSON_SIZE \in Nat /\ MAX_JSON_SIZE > 0
    <2>1. MAX_JSON_SIZE \in Nat /\ MaxRecord \in Nat /\ MaxPackets \in Nat
      BY Room
    <2>2. 0 \in Nat /\ 0 <= MaxPackets  BY <2>1, SMT
    <2>3. Opening + 0 * MaxRecord + Closing + 2048 <= MAX_JSON_SIZE
      BY <2>2, Room
    <2> QED  BY <2>1, <2>3, SMT DEF Opening, Closing
  <1>5. Joined \in Nat  BY <1>3, <1>4, CutIsNumber DEF Joined
  <1>6. Types'  BY <1>5 DEF DocInv, Types, Request
  <1> QED  BY <1>1, <1>6, KeptDoc DEF Request

LEMMA StutterDoc == DocInv /\ UNCHANGED vars => DocInv'
  <1> SUFFICES ASSUME DocInv, UNCHANGED vars PROVE DocInv'
    OBVIOUS
  <1>1. Inv'  BY StutterInv DEF DocInv
  <1>2. Walked' = Walked  BY DEF Walked, vars
  <1>3. Types' /\ Rest'  BY <1>2 DEF DocInv, Types, Rest, vars
  <1>4. Frame' /\ Objects'  BY <1>2 DEF DocInv, Frame, Objects, vars
  <1> QED  BY <1>1, <1>3, <1>4 DEF DocInv

LEMMA DocInvariance == Spec => []DocInv
  <1>1. DocInv /\ [Next]_vars => DocInv'
    BY OpenDoc, PacketDoc, CloseDoc, HeaderDoc, RequestDoc, StutterDoc
       DEF Next, Stopped
  <1> QED  BY DocInit, <1>1, PTL DEF Spec

(* The text is the JSON document of the list, whatever packets it has      *)
(* (jsonparser.c:14-128).                                                  *)
THEOREM DocumentWritten == Spec => []PayloadIsDocument
  <1>1. DocInv => PayloadIsDocument
    <2> SUFFICES ASSUME DocInv, pc \notin {"open", "packet"}
                 PROVE  /\ Len(json_payload.pieces) = Len(original_inicio) + 2
                        /\ json_payload.pieces[1] = <<"[">>
                        /\ json_payload.pieces[Len(original_inicio) + 2] = <<"]">>
                        /\ \A k \in 1..Len(original_inicio) :
                               IsObject(json_payload.pieces[k + 1], original_inicio[k],
                                        k = Len(original_inicio))
      BY Zenon DEF PayloadIsDocument
    <2>1. Len(inicio) = 0 /\ Len(original_inicio) \in Nat
      BY WalkedBounds DEF DocInv, Inv, Frame
    <2>2. Walked = Len(original_inicio)  BY <2>1, SMT DEF Walked
    <2> QED  BY <2>2 DEF DocInv, Frame, Objects
  <1> QED  BY DocInvariance, <1>1, PTL

(* Both directions of a conversation get the same application, for all     *)
(* tables that name no more than one of its ports (jsonparser.c:76-110).   *)
THEOREM NamesAgree == Spec => []NamesAgreeBothWays
  <1>1. ASSUME NEW p \in Packets, NEW q \in Packets, Opposite(p, q), OnePortListed(p),
               p.protocolo_transporte \in {6, 17}
        PROVE  NameOf(TableOf(p), p) = NameOf(TableOf(q), q)
    <2>1. TableOf(q) = TableOf(p) /\ TableOf(p) \in Tables
      BY <1>1 DEF Opposite, TableOf, Tables
    <2>2. ~(Listed(TableOf(p), p.porta_origem) /\ Listed(TableOf(p), p.porta_destino))
      BY <1>1, <2>1 DEF OnePortListed
    <2> QED  BY <1>1, <2>1, <2>2 DEF NameOf, Opposite
  <1>2. DocInv => NamesAgreeBothWays
    <2> SUFFICES ASSUME DocInv,
                        NEW j \in 1..Walked, NEW k \in 1..Walked,
                        Opposite(original_inicio[j], original_inicio[k]),
                        OnePortListed(original_inicio[j]),
                        original_inicio[j].protocolo_transporte \in {6, 17}
                 PROVE  json_payload.pieces[j + 1][4] = json_payload.pieces[k + 1][4]
      BY Zenon DEF NamesAgreeBothWays, Walked
    <2> DEFINE p == original_inicio[j]
               q == original_inicio[k]
    <2>1. p \in Packets /\ q \in Packets
      <3>1. original_inicio \in Seq(Packets)  BY DEF DocInv, Inv, Lists
      <3>2. j \in 1..Len(original_inicio) /\ k \in 1..Len(original_inicio)
        BY WalkedBounds, SMT DEF DocInv, Inv
      <3> QED  BY <3>1, <3>2, ElementOfSeq
    <2>2. pc # "open"
      <3>1. Walked = 0 => 1..Walked = {}  BY SMT
      <3> QED  BY <3>1 DEF DocInv, Frame
    <2>3. IsNamed(json_payload.pieces[j + 1], p) /\ IsNamed(json_payload.pieces[k + 1], q)
      BY <2>2 DEF DocInv, Objects
    <2>4. NameOf(TableOf(p), p) = NameOf(TableOf(q), q)
      BY <1>1, <2>1
    <2>5. q.protocolo_transporte \in {6, 17}  BY DEF Opposite
    <2> QED  BY <2>3, <2>4, <2>5 DEF IsNamed
  <1> QED  BY DocInvariance, <1>2, PTL

(* The state keeps its types: every piece written is one of the document   *)
(* (jsonparser.c:14-164).                                                  *)
THEOREM TypeCorrectness == Spec => []TypeOK
  <1>1. DocInv => TypeOK
    BY DEF DocInv, Inv, Lists, Types, Pieces, TypeOK
  <1> QED  BY DocInvariance, <1>1, PTL
=============================================================================
