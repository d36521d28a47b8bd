-------------------------- MODULE ConfigFilesProofs -------------------------
(***************************************************************************)
(* The configuration file for arrays of every size, every set of lines     *)
(* that fit them, and any number of starts: no line answers the wrong      *)
(* question, and the file holds what was entered last.                     *)
(***************************************************************************)
EXTENDS ConfigFiles, SequenceTheorems, TLAPS

-----------------------------------------------------------------------------
(* Lines and what is done with them.                                       *)

(* The characters of the file.                                             *)
Marks == {NL, "S", "H", "R", "D", "_", "C", "T", "=", "U", "L", "P", "O"}
All == Characters \cup Marks

LEMMA LineInAll ==
    ASSUME NEW v \in Lines
    PROVE  v \in Seq(All) /\ Len(v) \in Nat
  <1>1. Characters \subseteq All  BY DEF All
  <1> QED  BY <1>1, SeqMonotonic, LenProperties DEF Lines

(* What was written behind a name is read back.                            *)
LEMMA ReadBack ==
    ASSUME NEW name \in Seq(All), NEW v \in Lines
    PROVE  SubSeq(Line(name, v), Len(name) + 1, Len(Line(name, v)) - 1) = v
  <1> DEFINE front == name \o v
             whole == Line(name, v)
             back == SubSeq(whole, Len(name) + 1, Len(whole) - 1)
  <1>1. v \in Seq(All) /\ Len(v) \in Nat /\ Len(name) \in Nat
    BY LineInAll, LenProperties
  <1>2. <<NL>> \in Seq(All) /\ Len(<<NL>>) = 1
    <2>1. NL \in All  BY DEF All, Marks
    <2>2. <<NL>> = <<NL>> /\ Len(<<NL>>) = 1  BY SMT
    <2>3. <<NL>> \in Seq(All)  BY <2>1, SMT
    <2> QED  BY <2>2, <2>3
  <1>3. /\ front \in Seq(All) /\ Len(front) = Len(name) + Len(v)
        /\ \A i \in 1..(Len(name) + Len(v)) :
               front[i] = IF i <= Len(name) THEN name[i] ELSE v[i - Len(name)]
    BY <1>1, ConcatProperties
  <1>4. /\ whole \in Seq(All) /\ Len(whole) = Len(front) + 1
        /\ \A i \in 1..(Len(front) + 1) :
               whole[i] = IF i <= Len(front) THEN front[i] ELSE <<NL>>[i - Len(front)]
    BY <1>2, <1>3, ConcatProperties DEF Line
  <1> HIDE DEF front, whole
  <1>5. \A i \in 1..Len(v) : whole[Len(name) + i] = v[i]
    BY <1>1, <1>3, <1>4, SMT
  <1>6. \A i \in (Len(name) + 1)..(Len(whole) - 1) : whole[i] \in All
    BY <1>1, <1>3, <1>4, ElementOfSeq, SMT
  <1>7. Len(name) + 1 \in Int /\ Len(whole) - 1 \in Int
    BY <1>1, <1>3, <1>4, SMT
  <1>8. /\ back \in Seq(All)
        /\ Len(back) = IF Len(name) + 1 <= Len(whole) - 1
                       THEN (Len(whole) - 1) - (Len(name) + 1) + 1 ELSE 0
        /\ \A i \in 1..((Len(whole) - 1) - (Len(name) + 1) + 1) :
               back[i] = whole[Len(name) + 1 + i - 1]
    BY <1>6, <1>7, SubSeqProperties
  <1> HIDE DEF back
  <1>9. Len(back) = Len(v)  BY <1>1, <1>3, <1>4, <1>8, SMT
  <1>10. \A i \in 1..Len(v) : back[i] = v[i]
    <2> SUFFICES ASSUME NEW i \in 1..Len(v)  PROVE back[i] = v[i]
      OBVIOUS
    <2>1. i \in 1..((Len(whole) - 1) - (Len(name) + 1) + 1)
      BY <1>1, <1>3, <1>4, SMT
    <2>2. Len(name) + 1 + i - 1 = Len(name) + i  BY <1>1, SMT
    <2>3. back[i] = whole[Len(name) + i]  BY <1>8, <2>1, <2>2
    <2> QED  BY <1>5, <2>3
  <1>11. back = v  BY <1>1, <1>8, <1>9, <1>10, SeqEqual
  <1> QED  BY <1>11 DEF back, whole

LEMMA NameLengths ==
    /\ KeyName \in Seq(All) /\ Len(KeyName) = 10
    /\ UrlName \in Seq(All) /\ Len(UrlName) = 4
    /\ PortName \in Seq(All) /\ Len(PortName) = 5
  <1>1. KeyName \in Seq(Marks) /\ Len(KeyName) = 10  BY SMT DEF KeyName, Marks
  <1>2. UrlName \in Seq(Marks) /\ Len(UrlName) = 4  BY SMT DEF UrlName, Marks
  <1>3. PortName \in Seq(Marks) /\ Len(PortName) = 5  BY SMT DEF PortName, Marks
  <1>4. Marks \subseteq All  BY DEF All
  <1> QED  BY <1>1, <1>2, <1>3, <1>4, SeqMonotonic

(* A file that is whole gives back the three values.                       *)
LEMMA WholeFileIsReadBack ==
    ASSUME NEW k \in Lines, NEW u \in Lines, NEW p \in Lines,
           security = Contents(k, u, p)
    PROVE  /\ Value(1, 10) = k /\ Value(2, 4) = u /\ Value(3, 5) = p
           /\ Values(1, 10) = {k} /\ Values(2, 4) = {u} /\ Values(3, 5) = {p}
  <1>1. /\ security[1] = Line(KeyName, k) /\ security[2] = Line(UrlName, u)
        /\ security[3] = Line(PortName, p) /\ security # <<>>
    BY SMT DEF Contents
  <1>2. /\ SubSeq(security[1], 10 + 1, Len(security[1]) - 1) = k
        /\ SubSeq(security[2], 4 + 1, Len(security[2]) - 1) = u
        /\ SubSeq(security[3], 5 + 1, Len(security[3]) - 1) = p
    BY <1>1, ReadBack, NameLengths
  <1> QED  BY <1>1, <1>2 DEF Value, Values

(* A line with its newline.                                                *)
LEMMA Appended ==
    ASSUME NEW s \in Lines
    PROVE  /\ Append(s, NL) \in Seq(All)
           /\ Append(s, NL) \in Seq(Characters \cup {NL})
           /\ Append(s, NL) # <<>>
           /\ Len(s) \in Nat /\ Len(Append(s, NL)) = Len(s) + 1
           /\ \A i \in 1..Len(s) : Append(s, NL)[i] = s[i] /\ s[i] \in Characters
           /\ Append(s, NL)[Len(s) + 1] = NL
  <1>1. s \in Seq(All) /\ Len(s) \in Nat /\ s \in Seq(Characters)
    BY LineInAll DEF Lines
  <1>2. NL \in All  BY DEF All, Marks
  <1>3. s \in Seq(Characters \cup {NL})  BY <1>1, SeqMonotonic
  <1>4. /\ Append(s, NL) \in Seq(All) /\ Append(s, NL) # <<>>
        /\ Len(Append(s, NL)) = Len(s) + 1
        /\ \A i \in 1..Len(s) : Append(s, NL)[i] = s[i]
        /\ Append(s, NL)[Len(s) + 1] = NL
    BY <1>1, <1>2, AppendProperties
  <1>5. Append(s, NL) \in Seq(Characters \cup {NL})
    BY <1>3, AppendProperties
  <1>6. \A i \in 1..Len(s) : s[i] \in Characters
    BY <1>1, ElementOfSeq
  <1> QED  BY <1>1, <1>4, <1>5, <1>6

LEMMA StripsNewline ==
    ASSUME NEW s \in Lines
    PROVE  Stripped(Append(s, NL)) = s
  <1> DEFINE t == Append(s, NL)
             r == SubSeq(t, 1, Len(t) - 1)
  <1>1. /\ t \in Seq(All) /\ t # <<>> /\ Len(s) \in Nat /\ Len(t) = Len(s) + 1
        /\ \A i \in 1..Len(s) : t[i] = s[i]
        /\ t[Len(s) + 1] = NL
    BY Appended
  <1>2. Stripped(t) = r  BY <1>1 DEF Stripped
  <1>3. s \in Seq(All)  BY LineInAll
  <1> HIDE DEF t
  <1>4. \A i \in 1..(Len(t) - 1) : t[i] \in All
    BY <1>1, ElementOfSeq, SMT
  <1>5. /\ r \in Seq(All)
        /\ Len(r) = IF 1 <= Len(t) - 1 THEN Len(t) - 1 - 1 + 1 ELSE 0
        /\ \A i \in 1..(Len(t) - 1 - 1 + 1) : r[i] = t[1 + i - 1]
    <2>1. 1 \in Int /\ Len(t) - 1 \in Int  BY <1>1, SMT
    <2> QED  BY <1>4, <2>1, SubSeqProperties
  <1> HIDE DEF r
  <1>6. Len(r) = Len(s)  BY <1>1, <1>5, SMT
  <1>7. \A i \in 1..Len(r) : r[i] = s[i]  BY <1>1, <1>5, <1>6, SMT
  <1>8. r = s  BY <1>3, <1>5, <1>6, <1>7, SeqEqual
  <1> QED  BY <1>2, <1>8 DEF t

(* fgets takes all of a line that is shorter than its array by three.      *)
LEMMA FgetsTakesLine ==
    ASSUME NEW s \in Lines, NEW size \in Nat, Len(s) <= size - 3,
           input = Append(s, NL)
    PROVE  /\ Fgets(size) = {s}
           /\ SubSeq(input, Taken(size) + 1, Len(input)) = <<>>
  <1>1. /\ input \in Seq(All) /\ input # <<>>
        /\ Len(s) \in Nat /\ Len(input) = Len(s) + 1
    BY Appended
  <1>2. Taken(size) = Len(input)  BY <1>1, SMT DEF Taken
  <1>3. SubSeq(input, 1, Len(input)) = input  BY <1>1, SubSeqFull
  <1>4. Stripped(input) = s  BY StripsNewline
  <1>5. Fgets(size) = {s}  BY <1>1, <1>2, <1>3, <1>4 DEF Fgets
  <1>6. SubSeq(input, Len(input) + 1, Len(input)) = <<>>
    <2>1. Len(input) + 1 \in Int /\ Len(input) \in Int /\ Len(input) < Len(input) + 1
      BY <1>1, SMT
    <2> QED  BY <2>1, SubSeqEmpty
  <1> QED  BY <1>2, <1>5, <1>6

LEMMA AtMostOne == \A n \in Nat : n <= 1 => n = 0 \/ n = 1
  BY SMT

(* fgetc and getchar take all of an answer of one character or none.       *)
LEMMA AnswerTakesLine ==
    ASSUME NEW s \in Lines, Len(s) <= 1, input = Append(s, NL)
    PROVE  SubSeq(input, AnswerLength + 1, Len(input)) = <<>>
  <1>1. /\ input # <<>> /\ Len(s) \in Nat /\ Len(input) = Len(s) + 1
        /\ \A i \in 1..Len(s) : input[i] = s[i] /\ s[i] \in Characters
        /\ input[Len(s) + 1] = NL
    BY Appended
  <1>2. AnswerLength = Len(input)
    <2>1. CASE Len(s) = 0
      <3>1. input[1] = NL /\ Len(input) = 1  BY <1>1, <2>1, SMT
      <3> QED  BY <3>1 DEF AnswerLength
    <2>2. CASE Len(s) = 1
      <3>1. input[1] \in Characters /\ Len(input) = 2  BY <1>1, <2>2, SMT
      <3>2. input[1] # NL  BY <3>1, CharactersAssumption
      <3> QED  BY <1>1, <3>1, <3>2 DEF AnswerLength
    <2>3. Len(s) = 0 \/ Len(s) = 1  BY <1>1, AtMostOne
    <2> QED  BY <2>1, <2>2, <2>3
  <1>3. Len(input) + 1 \in Int /\ Len(input) \in Int /\ Len(input) < Len(input) + 1
    BY <1>1, SMT
  <1>4. SubSeq(input, Len(input) + 1, Len(input)) = <<>>
    BY <1>3, SubSeqEmpty
  <1> QED  BY <1>2, <1>4

(* Nothing is taken of an input that is at its end.                        *)
LEMMA NothingLeft ==
    ASSUME NEW n \in Nat
    PROVE  SubSeq(<<>>, n + 1, Len(<<>>)) = <<>>
  <1>1. n + 1 \in Int /\ Len(<<>>) \in Int /\ Len(<<>>) < n + 1  BY SMT
  <1> QED  BY <1>1, SubSeqEmpty


-----------------------------------------------------------------------------
(* The invariant.                                                          *)

Places == Questions \cup {"start", "truncate", "write", "done", "running", "off"}

Types ==
    /\ pc \in Places
    /\ closed \in BOOLEAN /\ cond_break_loop \in BOOLEAN
    /\ key \in Lines /\ url \in Lines /\ port \in Lines
    /\ starts \in Nat
    /\ asked \in Questions \cup {"none"}
    /\ entered \in [Entries -> Lines \cup {<<NL>>}]

(* The file is whole, unless it is being written or was not written out.   *)
FileIsWhole ==
    \/ security = NoFile
    \/ security = <<>>
    \/ \E k, u, p \in Lines : security = Contents(k, u, p)

(* What is unread is one whole line, typed for the question being asked.   *)
OneLine == input = <<>> \/ \E s \in Lines : input = Append(s, NL)

LineIsAnswer ==
    input # <<>> /\ pc # "off" =>
        /\ pc \in Questions
        /\ asked = pc
        /\ \E s \in LinesFor(pc) :
               input = Append(s, NL) /\ (pc \in Entries => entered[pc] = s)

(* As long as the input is not closed, what was read in this dialogue is   *)
(* what was typed.                                                         *)
ReadIsTyped ==
    /\ pc \in Entries => cond_break_loop
    /\ ~closed /\ cond_break_loop =>
        /\ pc \in {"url", "port", "truncate", "write"} => key = entered["key"]
        /\ pc \in {"port", "truncate", "write"} => url = entered["url"]
        /\ pc \in {"truncate", "write"} => port = entered["port"]

(* The file has the configuration entered last, and so have the values     *)
(* read from it, also while they are being written again.                  *)
Rewriting == pc \in {"truncate", "write"} /\ ~cond_break_loop

ConfigIsKept ==
    config # Unknown =>
        /\ config \in [Entries -> Lines]
        /\ pc # "write" =>
               security = Contents(config["key"], config["url"], config["port"])
        /\ pc \in {"confirm", "running"} \/ Rewriting =>
               key = config["key"] /\ url = config["url"] /\ port = config["port"]

Inv ==
    /\ Types
    /\ FileIsWhole
    /\ OneLine
    /\ LineIsAnswer
    /\ ReadIsTyped
    /\ ConfigIsKept

-----------------------------------------------------------------------------
(* Facts used by several actions.                                          *)

LEMMA LinesOfQuestions ==
    /\ LinesFor("confirm") = Answers /\ LinesFor("key") = Keys
    /\ LinesFor("url") = Urls /\ LinesFor("port") = Ports
    /\ \A question \in Questions : LinesFor(question) \subseteq Lines
    /\ Garbage \subseteq Lines
  <1>1. /\ LinesFor("confirm") = Answers /\ LinesFor("key") = Keys
        /\ LinesFor("url") = Urls /\ LinesFor("port") = Ports
    BY SMT DEF LinesFor
  <1>2. /\ Answers \subseteq Lines /\ Keys \subseteq Lines
        /\ Urls \subseteq Lines /\ Ports \subseteq Lines /\ Garbage \subseteq Lines
    BY LinesAssumption DEF Lines
  <1> QED  BY <1>1, <1>2 DEF Questions, Entries

(* Reading the file: lines in any case, and the configuration when the     *)
(* file has it.                                                            *)
LEMMA FileRead ==
    ASSUME FileIsWhole, security # NoFile, ReadFile
    PROVE  /\ key' \in Lines /\ url' \in Lines /\ port' \in Lines
           /\ \A k, u, p \in Lines :
                  security = Contents(k, u, p) => key' = k /\ url' = u /\ port' = p
  <1>1. CASE security = <<>>
    <2>1. Values(1, 10) = Garbage /\ Values(2, 4) = Garbage /\ Values(3, 5) = Garbage
      BY <1>1 DEF Values
    <2>2. \A k, u, p \in Lines : security # Contents(k, u, p)
      BY <1>1, SMT DEF Contents
    <2> QED  BY <2>1, <2>2, LinesOfQuestions DEF ReadFile
  <1>2. CASE security # <<>>
    <2>1. PICK k \in Lines, u \in Lines, p \in Lines : security = Contents(k, u, p)
      BY <1>2 DEF FileIsWhole
    <2>2. Value(1, 10) = k /\ Value(2, 4) = u /\ Value(3, 5) = p
          /\ Values(1, 10) = {k} /\ Values(2, 4) = {u} /\ Values(3, 5) = {p}
      BY <2>1, WholeFileIsReadBack
    <2>3. key' = k /\ url' = u /\ port' = p
      BY <2>2 DEF ReadFile
    <2>4. \A a, b, c \in Lines :
              security = Contents(a, b, c) => a = k /\ b = u /\ c = p
      BY <2>2, WholeFileIsReadBack
    <2> QED  BY <2>1, <2>3, <2>4
  <1> QED  BY <1>1, <1>2

LEMMA ConfigRead ==
    ASSUME Inv, security # NoFile, pc # "write", config # Unknown, ReadFile
    PROVE  key' = config["key"] /\ url' = config["url"] /\ port' = config["port"]
  <1>1. /\ config \in [Entries -> Lines]
        /\ security = Contents(config["key"], config["url"], config["port"])
    BY DEF Inv, ConfigIsKept
  <1>2. config["key"] \in Lines /\ config["url"] \in Lines /\ config["port"] \in Lines
    BY <1>1 DEF Entries
  <1> QED  BY <1>1, <1>2, FileRead DEF Inv

(* fgets at a question: the line typed for it, or, of a closed input, any  *)
(* garbage; and nothing is left.                                           *)
LEMMA LineRead ==
    ASSUME LinesFit, Inv, pc \in Entries, Ready,
           NEW size, size = (IF pc = "key" THEN KeyBuffer
                             ELSE IF pc = "url" THEN UrlBuffer ELSE PortBuffer),
           NEW value, value \in Fgets(size), Consume(Taken(size))
    PROVE  /\ value \in Lines
           /\ ~closed => value = entered[pc]
           /\ input' = <<>>
  <1>1. CASE input = <<>>
    <2>1. Fgets(size) = Garbage  BY <1>1 DEF Fgets
    <2>2. closed  BY <1>1 DEF Ready
    <2>3. size \in Nat /\ size >= 3  BY BuffersAssumption
    <2>4. Taken(size) \in Nat
      <3>1. Len(input) = 0  BY <1>1
      <3> QED  BY <2>3, <3>1, SMT DEF Taken
    <2>5. input' = <<>>
      BY <1>1, <2>4, NothingLeft DEF Consume
    <2> QED  BY <2>1, <2>2, <2>5, LinesOfQuestions
  <1>2. CASE input # <<>>
    <2>1. pc # "off"  BY DEF Entries
    <2>2. PICK s \in LinesFor(pc) : input = Append(s, NL) /\ entered[pc] = s
      BY <1>2, <2>1 DEF Inv, LineIsAnswer
    <2>3. s \in Lines
      BY <2>2, LinesOfQuestions DEF Questions
    <2>4. size \in Nat /\ Len(s) <= size - 3
      <3>1. CASE pc = "key"
        BY <2>2, <3>1, LinesOfQuestions, BuffersAssumption DEF LinesFit
      <3>2. CASE pc = "url"
        BY <2>2, <3>2, LinesOfQuestions, BuffersAssumption DEF LinesFit
      <3>3. CASE pc = "port"
        BY <2>2, <3>3, LinesOfQuestions, BuffersAssumption DEF LinesFit
      <3> QED  BY <3>1, <3>2, <3>3 DEF Entries
    <2>5. Fgets(size) = {s} /\ SubSeq(input, Taken(size) + 1, Len(input)) = <<>>
      BY <2>2, <2>3, <2>4, FgetsTakesLine
    <2> QED  BY <2>2, <2>3, <2>5 DEF Consume
  <1> QED  BY <1>1, <1>2

(* The first question.                                                     *)
LEMMA AnswerRead ==
    ASSUME LinesFit, Inv, pc = "confirm", Ready, Consume(AnswerLength)
    PROVE  input' = <<>>
  <1>1. CASE input = <<>>
    <2>1. AnswerLength = 1  BY <1>1 DEF AnswerLength
    <2> QED  BY <1>1, <2>1, NothingLeft DEF Consume
  <1>2. CASE input # <<>>
    <2>1. PICK s \in Answers : input = Append(s, NL)
      BY <1>2, LinesOfQuestions DEF Inv, LineIsAnswer
    <2>2. s \in Lines /\ Len(s) <= 1
      BY <2>1, LinesOfQuestions DEF LinesFit, Questions
    <2> QED  BY <2>1, <2>2, AnswerTakesLine DEF Consume
  <1> QED  BY <1>1, <1>2

-----------------------------------------------------------------------------
(* Every action keeps the invariant.                                       *)

LEMMA GreetInv ==
    ASSUME Inv, Greet
    PROVE  Inv'
  <1>1. Types'
    <2>1. CASE security = NoFile
      <3>1. NothingTyped \in [Entries -> Lines \cup {<<NL>>}]  BY DEF NothingTyped
      <3> QED  BY <2>1, <3>1
             DEF Inv, Types, Greet, Ask, terminal, values, Places, Questions, Entries
    <2>2. CASE security # NoFile
      <3>1. key' \in Lines /\ url' \in Lines /\ port' \in Lines
        BY <2>2, FileRead DEF Inv, Greet
      <3> QED  BY <2>2, <3>1 DEF Inv, Types, Greet, terminal, Places, Questions
    <2> QED  BY <2>1, <2>2
  <1>2. FileIsWhole'
    BY DEF Inv, FileIsWhole, Greet
  <1>3. OneLine'
    BY DEF Inv, OneLine, Greet, terminal
  <1>4. LineIsAnswer'
    BY DEF Inv, LineIsAnswer, Greet, terminal, Questions, Entries
  <1>5. ReadIsTyped'
    BY DEF Inv, ReadIsTyped, Greet, Ask, Entries
  <1>6. ConfigIsKept'
    <2>1. CASE security = NoFile
      BY <2>1 DEF Inv, ConfigIsKept, Rewriting, Greet, Ask
    <2>2. CASE security # NoFile
      <3>1. config # Unknown =>
                key' = config["key"] /\ url' = config["url"] /\ port' = config["port"]
        BY <2>2, ConfigRead DEF Greet
      <3> QED  BY <2>2, <3>1 DEF Inv, ConfigIsKept, Greet
    <2> QED  BY <2>1, <2>2
  <1> QED  BY <1>1, <1>2, <1>3, <1>4, <1>5, <1>6 DEF Inv

LEMMA ConfirmInv ==
    ASSUME LinesFit, Inv, Confirm
    PROVE  Inv'
  <1>0. input' = <<>>  BY AnswerRead DEF Confirm
  <1>1. Types'
    <2>1. NothingTyped \in [Entries -> Lines \cup {<<NL>>}]  BY DEF NothingTyped
    <2> QED  BY <2>1
           DEF Inv, Types, Confirm, Ask, Consume, values, Places, Questions, Entries
  <1>2. FileIsWhole'
    BY DEF Inv, FileIsWhole, Confirm
  <1>3. OneLine'
    BY <1>0 DEF OneLine
  <1>4. LineIsAnswer'
    BY <1>0 DEF LineIsAnswer
  <1>5. ReadIsTyped'
    BY DEF Inv, ReadIsTyped, Confirm, Ask, Entries
  <1>6. ConfigIsKept'
    BY DEF Inv, ConfigIsKept, Confirm, values
  <1> QED  BY <1>1, <1>2, <1>3, <1>4, <1>5, <1>6 DEF Inv

LEMMA AskKeyInv ==
    ASSUME LinesFit, Inv, AskKey
    PROVE  Inv'
  <1>0. key' \in Lines /\ (~closed => key' = entered["key"]) /\ input' = <<>>
    <2>1. pc = "key" /\ Ready /\ key' \in Fgets(KeyBuffer) /\ Consume(Taken(KeyBuffer))
      BY DEF AskKey
    <2>2. KeyBuffer = (IF pc = "key" THEN KeyBuffer
                         ELSE IF pc = "url" THEN UrlBuffer ELSE PortBuffer)
      BY <2>1
    <2>3. pc \in Entries  BY <2>1 DEF Entries
    <2> QED  BY <2>1, <2>2, <2>3, LineRead
  <1>1. Types'
    BY <1>0 DEF Inv, Types, AskKey, Consume, Places, Questions, Entries
  <1>2. FileIsWhole'
    BY DEF Inv, FileIsWhole, AskKey
  <1>3. OneLine'
    BY <1>0 DEF OneLine
  <1>4. LineIsAnswer'
    BY <1>0 DEF LineIsAnswer
  <1>5. ReadIsTyped'
    BY <1>0 DEF Inv, ReadIsTyped, AskKey, Consume, Entries
  <1>6. ConfigIsKept'
    BY DEF Inv, ConfigIsKept, Rewriting, AskKey
  <1> QED  BY <1>1, <1>2, <1>3, <1>4, <1>5, <1>6 DEF Inv

LEMMA AskUrlInv ==
    ASSUME LinesFit, Inv, AskUrl
    PROVE  Inv'
  <1>0. url' \in Lines /\ (~closed => url' = entered["url"]) /\ input' = <<>>
    <2>1. pc = "url" /\ Ready /\ url' \in Fgets(UrlBuffer) /\ Consume(Taken(UrlBuffer))
      BY DEF AskUrl
    <2>2. UrlBuffer = (IF pc = "key" THEN KeyBuffer
                         ELSE IF pc = "url" THEN UrlBuffer ELSE PortBuffer)
      BY <2>1
    <2>3. pc \in Entries  BY <2>1 DEF Entries
    <2> QED  BY <2>1, <2>2, <2>3, LineRead
  <1>1. Types'
    BY <1>0 DEF Inv, Types, AskUrl, Consume, Places, Questions, Entries
  <1>2. FileIsWhole'
    BY DEF Inv, FileIsWhole, AskUrl
  <1>3. OneLine'
    BY <1>0 DEF OneLine
  <1>4. LineIsAnswer'
    BY <1>0 DEF LineIsAnswer
  <1>5. ReadIsTyped'
    BY <1>0 DEF Inv, ReadIsTyped, AskUrl, Consume, Entries
  <1>6. ConfigIsKept'
    BY DEF Inv, ConfigIsKept, Rewriting, AskUrl
  <1> QED  BY <1>1, <1>2, <1>3, <1>4, <1>5, <1>6 DEF Inv

LEMMA AskPortInv ==
    ASSUME LinesFit, Inv, AskPort
    PROVE  Inv'
  <1>0. port' \in Lines /\ (~closed => port' = entered["port"]) /\ input' = <<>>
    <2>1. pc = "port" /\ Ready /\ port' \in Fgets(PortBuffer) /\ Consume(Taken(PortBuffer))
      BY DEF AskPort
    <2>2. PortBuffer = (IF pc = "key" THEN KeyBuffer
                         ELSE IF pc = "url" THEN UrlBuffer ELSE PortBuffer)
      BY <2>1
    <2>3. pc \in Entries  BY <2>1 DEF Entries
    <2> QED  BY <2>1, <2>2, <2>3, LineRead
  <1>1. Types'
    <2>1. NothingTyped \in [Entries -> Lines \cup {<<NL>>}]  BY DEF NothingTyped
    <2> QED  BY <1>0, <2>1
           DEF Inv, Types, AskPort, Ask, Consume, Places, Questions, Entries
  <1>2. FileIsWhole'
    BY DEF Inv, FileIsWhole, AskPort
  <1>3. OneLine'
    BY <1>0 DEF OneLine
  <1>4. LineIsAnswer'
    BY <1>0 DEF LineIsAnswer
  <1>5. ReadIsTyped'
    BY <1>0 DEF Inv, ReadIsTyped, AskPort, Ask, Consume, Entries
  <1>6. ConfigIsKept'
    <2>1. pc = "port" /\ cond_break_loop
      BY DEF Inv, ReadIsTyped, AskPort, Entries
    <2> QED  BY <2>1 DEF Inv, ConfigIsKept, Rewriting, AskPort, Ask
  <1> QED  BY <1>1, <1>2, <1>3, <1>4, <1>5, <1>6 DEF Inv

LEMMA TruncateInv ==
    ASSUME Inv, Truncate
    PROVE  Inv'
  <1>1. Types'
    BY DEF Inv, Types, Truncate, terminal, values, Places
  <1>2. FileIsWhole'
    BY DEF Inv, FileIsWhole, Truncate
  <1>3. OneLine'
    BY DEF Inv, OneLine, Truncate, terminal
  <1>4. LineIsAnswer'
    BY DEF Inv, LineIsAnswer, Truncate, terminal, Questions, Entries
  <1>5. ReadIsTyped'
    BY DEF Inv, ReadIsTyped, Truncate, terminal, values, Entries
  <1>6. ConfigIsKept'
    BY DEF Inv, ConfigIsKept, Truncate, values, Rewriting
  <1> QED  BY <1>1, <1>2, <1>3, <1>4, <1>5, <1>6 DEF Inv

LEMMA WriteInv ==
    ASSUME Inv, Write
    PROVE  Inv'
  <1>1. Types'
    BY DEF Inv, Types, Write, terminal, values, Places
  <1>2. FileIsWhole'
    BY DEF Inv, Types, FileIsWhole, Write
  <1>3. OneLine'
    BY DEF Inv, OneLine, Write, terminal
  <1>4. LineIsAnswer'
    BY DEF Inv, LineIsAnswer, Write, terminal, Questions, Entries
  <1>5. ReadIsTyped'
    BY DEF Inv, ReadIsTyped, Write, Entries
  <1>6. ConfigIsKept'
    <2>1. CASE cond_break_loop /\ ~closed
      <3>1. /\ key = entered["key"] /\ url = entered["url"] /\ port = entered["port"]
            /\ key \in Lines /\ url \in Lines /\ port \in Lines
            /\ entered \in [Entries -> Lines \cup {<<NL>>}]
        BY <2>1 DEF Inv, Types, ReadIsTyped, Write
      <3>2. entered \in [Entries -> Lines]
        BY <3>1 DEF Entries
      <3> QED  BY <2>1, <3>1, <3>2 DEF ConfigIsKept, Rewriting, Write
    <2>2. CASE cond_break_loop /\ closed
      BY <2>2 DEF ConfigIsKept, Write
    <2>3. CASE ~cond_break_loop
      BY <2>3 DEF Inv, ConfigIsKept, Rewriting, Write
    <2> QED  BY <2>1, <2>2, <2>3
  <1> QED  BY <1>1, <1>2, <1>3, <1>4, <1>5, <1>6 DEF Inv

LEMMA ServeInv ==
    ASSUME Inv, Serve
    PROVE  Inv'
  <1>0. key' \in Lines /\ url' \in Lines /\ port' \in Lines
    BY FileRead DEF Inv, Serve
  <1>1. Types'
    BY <1>0 DEF Inv, Types, Serve, terminal, Places
  <1>2. FileIsWhole'
    BY DEF Inv, FileIsWhole, Serve
  <1>3. OneLine'
    BY DEF Inv, OneLine, Serve, terminal
  <1>4. LineIsAnswer'
    BY DEF Inv, LineIsAnswer, Serve, terminal, Questions, Entries
  <1>5. ReadIsTyped'
    BY DEF Inv, ReadIsTyped, Serve, Entries
  <1>6. ConfigIsKept'
    <2>1. config # Unknown =>
              key' = config["key"] /\ url' = config["url"] /\ port' = config["port"]
      BY ConfigRead DEF Serve
    <2> QED  BY <2>1 DEF Inv, ConfigIsKept, Serve
  <1> QED  BY <1>1, <1>2, <1>3, <1>4, <1>5, <1>6 DEF Inv

LEMMA TypeInv ==
    ASSUME Inv, Type
    PROVE  Inv'
  <1>0. PICK s \in LinesFor(pc) :
            /\ input' = Append(s, NL)
            /\ entered' = IF pc \in Entries THEN [entered EXCEPT ![pc] = s] ELSE entered
    BY DEF Type
  <1>a. s \in Lines  BY <1>0, LinesOfQuestions DEF Type
  <1>1. Types'
    <2>1. entered' \in [Entries -> Lines \cup {<<NL>>}]
      BY <1>0, <1>a DEF Inv, Types
    <2> QED  BY <2>1 DEF Inv, Types, Type, values
  <1>2. FileIsWhole'
    BY DEF Inv, FileIsWhole, Type
  <1>3. OneLine'
    BY <1>0, <1>a DEF OneLine
  <1>4. LineIsAnswer'
    BY <1>0 DEF Inv, Types, LineIsAnswer, Type
  <1>5. ReadIsTyped'
    <2>1. /\ pc' = pc /\ closed' = closed /\ cond_break_loop' = cond_break_loop
          /\ key' = key /\ url' = url /\ port' = port /\ pc \in Questions
      BY DEF Type, values
    <2>2. pc = "url" => entered'["key"] = entered["key"]
      BY <1>0 DEF Inv
    <2>3. pc = "port" => entered'["key"] = entered["key"] /\ entered'["url"] = entered["url"]
      BY <1>0 DEF Inv
    <2> QED  BY <2>1, <2>2, <2>3 DEF Inv, ReadIsTyped, Questions, Entries
  <1>6. ConfigIsKept'
    BY DEF Inv, ConfigIsKept, Type, values, Rewriting
  <1> QED  BY <1>1, <1>2, <1>3, <1>4, <1>5, <1>6 DEF Inv

LEMMA CloseInputInv ==
    ASSUME Inv, CloseInput
    PROVE  Inv'
  <1>1. Types'
    BY DEF Inv, Types, CloseInput, values
  <1>2. FileIsWhole'
    BY DEF Inv, FileIsWhole, CloseInput
  <1>3. OneLine'
    BY DEF Inv, OneLine, CloseInput
  <1>4. LineIsAnswer'
    BY DEF Inv, LineIsAnswer, CloseInput
  <1>5. ReadIsTyped'
    BY DEF Inv, ReadIsTyped, CloseInput
  <1>6. ConfigIsKept'
    BY DEF Inv, ConfigIsKept, CloseInput, values, Rewriting
  <1> QED  BY <1>1, <1>2, <1>3, <1>4, <1>5, <1>6 DEF Inv

LEMMA KillInv ==
    ASSUME Inv, Kill
    PROVE  Inv'
  <1>1. Types'
    BY DEF Inv, Types, Kill, terminal, values, Places
  <1>2. FileIsWhole'
    BY DEF Inv, FileIsWhole, Kill
  <1>3. OneLine'
    BY DEF Inv, OneLine, Kill, terminal
  <1>4. LineIsAnswer'
    BY DEF Inv, LineIsAnswer, Kill
  <1>5. ReadIsTyped'
    BY DEF Inv, ReadIsTyped, Kill, Entries
  <1>6. ConfigIsKept'
    BY DEF Inv, ConfigIsKept, Kill, Rewriting
  <1> QED  BY <1>1, <1>2, <1>3, <1>4, <1>5, <1>6 DEF Inv

LEMMA RestartInv ==
    ASSUME Inv, Restart
    PROVE  Inv'
  <1>1. Types'
    <2>1. <<>> \in Lines  BY EmptySeq DEF Lines
    <2>2. starts + 1 \in Nat  BY SMT DEF Inv, Types
    <2> QED  BY <2>1, <2>2 DEF Inv, Types, Restart, Places
  <1>2. FileIsWhole'
    BY DEF Inv, FileIsWhole, Restart
  <1>3. OneLine'
    BY DEF Inv, OneLine, Restart
  <1>4. LineIsAnswer'
    BY DEF Inv, LineIsAnswer, Restart
  <1>5. ReadIsTyped'
    BY DEF Inv, ReadIsTyped, Restart, Entries
  <1>6. ConfigIsKept'
    BY DEF Inv, ConfigIsKept, Restart, Rewriting
  <1> QED  BY <1>1, <1>2, <1>3, <1>4, <1>5, <1>6 DEF Inv

LEMMA UnchangedInv ==
    ASSUME Inv, UNCHANGED vars
    PROVE  Inv'
  <1>1. Types' /\ FileIsWhole'  BY DEF Inv, Types, FileIsWhole, vars, terminal, values
  <1>2. OneLine' /\ LineIsAnswer'  BY DEF Inv, OneLine, LineIsAnswer, vars, terminal
  <1>3. ReadIsTyped'  BY DEF Inv, ReadIsTyped, vars, terminal, values
  <1>4. ConfigIsKept'  BY DEF Inv, ConfigIsKept, Rewriting, vars, values
  <1> QED  BY <1>1, <1>2, <1>3, <1>4 DEF Inv

LEMMA InitInv == Init => Inv
  <1> SUFFICES ASSUME Init  PROVE Inv
    OBVIOUS
  <1>1. Types
    <2>1. <<>> \in Lines  BY EmptySeq DEF Lines
    <2>2. NothingTyped \in [Entries -> Lines \cup {<<NL>>}]  BY DEF NothingTyped
    <2> QED  BY <2>1, <2>2 DEF Init, Types, Places
  <1>2. FileIsWhole /\ OneLine  BY DEF Init, FileIsWhole, OneLine
  <1>3. LineIsAnswer /\ ReadIsTyped  BY DEF Init, LineIsAnswer, ReadIsTyped, Entries
  <1>4. ConfigIsKept  BY DEF Init, ConfigIsKept
  <1> QED  BY <1>1, <1>2, <1>3, <1>4 DEF Inv

-----------------------------------------------------------------------------
(* The invariant, for an operator whose lines fit (LinesFit).              *)
THEOREM Invariance ==
    ASSUME LinesFit
    PROVE  Spec => []Inv
  <1>1. Inv /\ [Next]_vars => Inv'
    <2> SUFFICES ASSUME Inv, [Next]_vars  PROVE Inv'
      OBVIOUS
    <2>1. CASE Greeter
      BY <2>1, GreetInv, ConfirmInv, AskKeyInv, AskUrlInv, AskPortInv, TruncateInv,
         WriteInv, ServeInv DEF Greeter
    <2>2. CASE Type \/ CloseInput
      BY <2>2, TypeInv, CloseInputInv
    <2>3. CASE Kill \/ Restart
      BY <2>3, KillInv, RestartInv
    <2>4. CASE Stopped \/ UNCHANGED vars
      BY <2>4, UnchangedInv DEF Stopped
    <2> QED  BY <2>1, <2>2, <2>3, <2>4 DEF Next
  <1> QED  BY InitInv, <1>1, PTL DEF Spec

(* No line of the operator answers another question than the one it was    *)
(* typed for (security.c:128-157), whatever the sizes of the arrays and    *)
(* the lines that fit them.                                                *)
THEOREM LinesAnswerTheirQuestion ==
    ASSUME LinesFit
    PROVE  Spec => []InputAligned
  <1>1. Inv => InputAligned  BY DEF Inv, LineIsAnswer, InputAligned
  <1> QED  BY <1>1, Invariance, PTL

(* The file and the running client have the configuration entered last,    *)
(* through any number of starts and kills (security.c:47-58, 65-114).      *)
THEOREM ConfigurationSurvives ==
    ASSUME LinesFit
    PROVE  Spec => []FileHoldsConfig
  <1>1. Inv => FileHoldsConfig  BY DEF Inv, ConfigIsKept, FileHoldsConfig
  <1> QED  BY <1>1, Invariance, PTL

(* The state keeps its types, and a file that is not empty is whole        *)
(* (security.c:116-174).                                                   *)
THEOREM TypeCorrectness ==
    ASSUME LinesFit
    PROVE  Spec => []TypeOK
  <1>1. Inv => TypeOK
    <2> SUFFICES ASSUME Inv  PROVE TypeOK
      OBVIOUS
    <2>1. IsPending(input)
      <3>1. CASE input = <<>>
        BY <3>1, EmptySeq DEF IsPending
      <3>2. CASE input # <<>>
        <4>1. PICK s \in Lines : input = Append(s, NL)
          BY <3>2 DEF Inv, OneLine
        <4>2. /\ input \in Seq(Characters \cup {NL})
              /\ Len(s) \in Nat /\ Len(input) = Len(s) + 1
              /\ \A i \in 1..Len(s) : input[i] \in Characters
              /\ input[Len(s) + 1] = NL
          BY <4>1, Appended
        <4>3. ASSUME NEW i \in 1..Len(input)
              PROVE  input[i] = NL <=> i = Len(input)
          <5>1. CASE i = Len(input)
            BY <4>2, <5>1
          <5>2. CASE i # Len(input)
            <6>1. i \in 1..Len(s)  BY <4>2, <5>2, SMT
            <6> QED  BY <4>2, <5>2, <6>1, CharactersAssumption
          <5> QED  BY <5>1, <5>2
        <4> QED  BY <4>2, <4>3 DEF IsPending
      <3> QED  BY <3>1, <3>2
    <2>2. security \in {NoFile, <<>>} \/ IsWhole(security)
      <3>1. ASSUME NEW k \in Lines, NEW u \in Lines, NEW p \in Lines,
                   security = Contents(k, u, p)
            PROVE  IsWhole(security)
        <4>1. Value(1, 10) = k /\ Value(2, 4) = u /\ Value(3, 5) = p
          BY <3>1, WholeFileIsReadBack
        <4>2. Len(security) = 3  BY <3>1, SMT DEF Contents
        <4> QED  BY <3>1, <4>1, <4>2 DEF IsWhole
      <3> QED  BY <3>1 DEF Inv, FileIsWhole
    <2> QED  BY <2>1, <2>2 DEF Inv, Types, TypeOK, Places
  <1> QED  BY <1>1, Invariance, PTL

=============================================================================
