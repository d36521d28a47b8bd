---------------------------- MODULE ConfigFiles -----------------------------
(***************************************************************************)
(* The configuration file .security (src/security.c): the dialogue of      *)
(* file_greeter with the operator, the file it leaves, and the payload     *)
(* thread, which reads it back at fixed positions.  The process may be     *)
(* killed at any point; the file outlives it.                              *)
(*                                                                         *)
(* A line is a sequence of characters.  The operator types a line when he  *)
(* is asked for one and nothing is unread, so that `input` is what is left *)
(* of one line, with its newline.                                          *)
(***************************************************************************)
EXTENDS Integers, Sequences

CONSTANTS
    Characters,  \* the characters of lines, without the newline
    KeyBuffer,   \* size of key_stack, 256
    UrlBuffer,   \* size of url_stack, 80
    PortBuffer,  \* size of port_stack, 10
    Answers, Keys, Urls, Ports,  \* lines the operator may type
    Garbage,     \* lines that memory never written to may read as
    MayClose,    \* whether standard input may be closed
    MaxStarts    \* bound: times the process is started

NL == "\n"

ASSUME BuffersAssumption ==
    /\ KeyBuffer \in Nat /\ KeyBuffer >= 3
    /\ UrlBuffer \in Nat /\ UrlBuffer >= 3
    /\ PortBuffer \in Nat /\ PortBuffer >= 3
ASSUME CharactersAssumption == NL \notin Characters
ASSUME LinesAssumption ==
    {Answers, Keys, Urls, Ports, Garbage} \subseteq SUBSET Seq(Characters)
ASSUME BoundsAssumption == MaxStarts \in Nat /\ MayClose \in BOOLEAN

VARIABLES
    pc,
    input,            \* characters typed and not yet read
    closed,           \* standard input is at its end
    key, url, port,   \* the values in memory
    cond_break_loop,  \* file_greeter: it is in its loop
    security,         \* the file: its lines, <<>> when empty, or NoFile
    starts,           \* how many times the process was started
    asked,            \* history: the question the unread line was typed for
    entered,          \* history: the lines typed in this dialogue
    config            \* history: the configuration entered last, or Unknown

terminal == <<input, closed, asked>>
values == <<key, url, port>>
vars == <<pc, terminal, values, cond_break_loop, security, starts, entered, config>>

NoFile == <<<<>>>>

Entries == {"key", "url", "port"}          \* what is entered line by line
Questions == Entries \cup {"confirm"}
NothingTyped == [question \in Entries |-> <<NL>>]
Unknown == <<>>

Init ==
    /\ pc = "start"
    /\ input = <<>> /\ closed = FALSE /\ asked = "none"
    /\ key = <<>> /\ url = <<>> /\ port = <<>>
    /\ cond_break_loop = FALSE
    /\ security = NoFile
    /\ starts = 1
    /\ entered = NothingTyped /\ config = Unknown

-----------------------------------------------------------------------------
(* The file.  A line is the name of the value, the value and a newline.    *)
KeyName == <<"S", "H", "R", "D", "_", "S", "C", "R", "T", "=">>
UrlName == <<"U", "R", "L", "=">>
PortName == <<"P", "O", "R", "T", "=">>

Line(name, value) == name \o value \o <<NL>>

Contents(k, u, p) == <<Line(KeyName, k), Line(UrlName, u), Line(PortName, p)>>

(* Mutant: the newline of the file counts as part of the name.             *)
ValuesLate(n, skip) ==
    IF security = <<>> THEN Garbage
    ELSE {SubSeq(security[n], skip + 2, Len(security[n]) - 1)}

(* get_file_full reads a line, get_file_key and the others skip as many    *)
(* characters as its name has and drop the last.  In an empty file they    *)
(* leave the one byte get_file_full gave them.                             *)
Values(n, skip) ==
    IF security = <<>> THEN Garbage
    ELSE {SubSeq(security[n], skip + 1, Len(security[n]) - 1)}

ReadFile == key' \in Values(1, 10) /\ url' \in Values(2, 4) /\ port' \in Values(3, 5)

-----------------------------------------------------------------------------
(* Standard input.                                                         *)
Ready == input # <<>> \/ closed

(* fgets is given one less than the size of the array, and reads one       *)
(* character less than it is given.                                        *)
Taken(size) == IF Len(input) <= size - 2 THEN Len(input) ELSE size - 2

(* Mutant: the newline is kept.                                            *)
StrippedOfNothing(s) == s

(* The newline at the end of what was read, when it was read.              *)
Stripped(s) ==
    IF s # <<>> /\ s[Len(s)] = NL THEN SubSeq(s, 1, Len(s) - 1) ELSE s

(* At the end of the input the array keeps what the stack held.            *)
Fgets(size) ==
    IF input = <<>> THEN Garbage ELSE {Stripped(SubSeq(input, 1, Taken(size)))}

Consume(n) == input' = SubSeq(input, n + 1, Len(input)) /\ UNCHANGED <<closed, asked>>

(* The conditions of create_security_file; the arrays exclude them.        *)
Refused(k, u, p) == Len(k) > KeyBuffer \/ Len(u) > UrlBuffer \/ Len(p) > PortBuffer

(* A dialogue begins.                                                      *)
Ask ==
    /\ pc' = "key"
    /\ cond_break_loop' = TRUE
    /\ entered' = NothingTyped

-----------------------------------------------------------------------------
(* file_greeter.                                                           *)

Greet ==
    /\ pc = "start"
    /\ \/ security = NoFile /\ Ask /\ UNCHANGED values
       \/ /\ security # NoFile
          /\ ReadFile
          /\ pc' = "confirm"
          /\ UNCHANGED <<cond_break_loop, entered>>
    /\ UNCHANGED <<terminal, security, starts, config>>

(* Mutant: the newline after the answer is left unread.                    *)
AnswerLengthOne == 1

(* fgetc, and getchar when that was not the newline.                       *)
AnswerLength == IF input # <<>> /\ input[1] # NL THEN 2 ELSE 1

(* Anything but n keeps the configuration, and writes it again; what       *)
(* create_security_file returns does not matter.                           *)
Confirm ==
    /\ pc = "confirm" /\ Ready
    /\ \/ input # <<>> /\ input[1] \in {"n", "N"} /\ Ask
       \/ /\ ~(input # <<>> /\ input[1] \in {"n", "N"})
          /\ cond_break_loop' = FALSE
          /\ pc' = IF Refused(key, url, port) THEN "done" ELSE "truncate"
          /\ UNCHANGED entered
    /\ Consume(AnswerLength)
    /\ UNCHANGED <<values, security, starts, config>>

AskKey ==
    /\ pc = "key" /\ Ready
    /\ key' \in Fgets(KeyBuffer)
    /\ Consume(Taken(KeyBuffer))
    /\ pc' = "url"
    /\ UNCHANGED <<url, port, cond_break_loop, security, starts, entered, config>>

AskUrl ==
    /\ pc = "url" /\ Ready
    /\ url' \in Fgets(UrlBuffer)
    /\ Consume(Taken(UrlBuffer))
    /\ pc' = "port"
    /\ UNCHANGED <<key, port, cond_break_loop, security, starts, entered, config>>

(* The last line, after which create_security_file is called.              *)
AskPort ==
    /\ pc = "port" /\ Ready
    /\ port' \in Fgets(PortBuffer)
    /\ Consume(Taken(PortBuffer))
    /\ \/ Refused(key, url, port') /\ Ask
       \/ /\ ~Refused(key, url, port')
          /\ pc' = "truncate"
          /\ UNCHANGED <<cond_break_loop, entered>>
    /\ UNCHANGED <<key, url, security, starts, config>>

(* fopen(.., "w") empties the file ...                                     *)
Truncate ==
    /\ pc = "truncate"
    /\ security' = <<>>
    /\ pc' = "write"
    /\ UNCHANGED <<terminal, values, cond_break_loop, starts, entered, config>>

(* Mutant: the loop is not left.                                           *)
WriteAndAskAgain ==
    /\ pc = "write"
    /\ security' = Contents(key, url, port)
    /\ pc' = IF cond_break_loop THEN "key" ELSE "done"
    /\ config' = IF cond_break_loop THEN (IF closed THEN Unknown ELSE entered) ELSE config
    /\ UNCHANGED <<terminal, values, cond_break_loop, starts, entered>>

(* ... and fclose writes what it is to hold.                               *)
Write ==
    /\ pc = "write"
    /\ security' = Contents(key, url, port)
    /\ pc' = "done"
    /\ config' = IF cond_break_loop THEN (IF closed THEN Unknown ELSE entered) ELSE config
    /\ UNCHANGED <<terminal, values, cond_break_loop, starts, entered>>

-----------------------------------------------------------------------------
(* routine_payload reads the file; start_server does not look at whether   *)
(* getaddrinfo found an address, and dies of it when it did not.           *)
Serve ==
    /\ pc = "done"
    /\ security # NoFile
    /\ ReadFile
    /\ pc' \in {"running", "off"}
    /\ UNCHANGED <<terminal, cond_break_loop, security, starts, entered, config>>

-----------------------------------------------------------------------------
(* The operator answers the question on the screen, or closes the input.   *)
LinesFor(question) ==
    [confirm |-> Answers, key |-> Keys, url |-> Urls, port |-> Ports][question]

Type ==
    /\ pc \in Questions /\ input = <<>> /\ ~closed
    /\ \E s \in LinesFor(pc) :
          /\ input' = Append(s, NL)
          /\ entered' = IF pc \in Entries THEN [entered EXCEPT ![pc] = s] ELSE entered
    /\ asked' = pc
    /\ UNCHANGED <<pc, closed, values, cond_break_loop, security, starts, config>>

CloseInput ==
    /\ MayClose
    /\ pc \in Questions /\ input = <<>> /\ ~closed
    /\ closed' = TRUE
    /\ UNCHANGED <<pc, input, asked, values, cond_break_loop, security, starts,
                   entered, config>>

(* The process is killed, which loses the file when it was being written;  *)
(* what was typed and not read goes to the shell.                          *)
Kill ==
    /\ pc # "off" /\ starts < MaxStarts
    /\ pc' = "off"
    /\ config' = IF pc = "write" THEN Unknown ELSE config
    /\ UNCHANGED <<terminal, values, cond_break_loop, security, starts, entered>>

Restart ==
    /\ pc = "off" /\ starts < MaxStarts
    /\ pc' = "start"
    /\ starts' = starts + 1
    /\ input' = <<>> /\ closed' = FALSE /\ asked' = "none"
    /\ key' = <<>> /\ url' = <<>> /\ port' = <<>>
    /\ cond_break_loop' = FALSE
    /\ UNCHANGED <<security, entered, config>>

(* The client runs, or nobody starts it again.                             *)
Stopped ==
    /\ pc = "running" \/ (pc = "off" /\ starts = MaxStarts)
    /\ UNCHANGED vars

Greeter ==
    \/ Greet \/ Confirm \/ AskKey \/ AskUrl \/ AskPort
    \/ Truncate \/ Write \/ Serve

Next ==
    \/ Greeter
    \/ Type \/ CloseInput
    \/ Kill \/ Restart
    \/ Stopped

Spec == Init /\ [][Next]_vars

(* The client runs, and the operator answers as long as he can.            *)
FairSpec == Spec /\ WF_vars(Greeter) /\ WF_vars(Type)

-----------------------------------------------------------------------------
(* A line without its newline, what is left of a line, a whole file.       *)
Lines == Seq(Characters)

IsPending(s) ==
    /\ s \in Seq(Characters \cup {NL})
    /\ \A i \in 1..Len(s) : s[i] = NL <=> i = Len(s)

Value(n, skip) == SubSeq(security[n], skip + 1, Len(security[n]) - 1)

IsWhole(file) ==
    /\ Len(file) = 3
    /\ Value(1, 10) \in Lines /\ Value(2, 4) \in Lines /\ Value(3, 5) \in Lines
    /\ file = Contents(Value(1, 10), Value(2, 4), Value(3, 5))

TypeOK ==
    /\ pc \in Questions \cup {"start", "truncate", "write", "done", "running", "off"}
    /\ IsPending(input)
    /\ closed \in BOOLEAN /\ cond_break_loop \in BOOLEAN
    /\ key \in Lines /\ url \in Lines /\ port \in Lines
    /\ security \in {NoFile, <<>>} \/ IsWhole(security)
    /\ starts \in Nat
    /\ asked \in Questions \cup {"none"}

(* What the greeter reads was typed for the question it asks: no line is   *)
(* left over for the next one (security.c:128-157), for an operator whose  *)
(* lines are shorter than the arrays by three characters.                  *)
InputAligned == input # <<>> /\ pc # "off" => asked = pc

(* Whenever the file is not being written it holds what the operator       *)
(* entered last, through confirmations that read and rewrite it, an input  *)
(* that is closed, kills and restarts; and a client that runs has read     *)
(* just that.  Only a kill between fopen and fclose (security.c:49-58)     *)
(* loses it, until it is entered again.                                    *)
FileHoldsConfig ==
    config # Unknown /\ pc # "write" =>
        /\ security = Contents(config["key"], config["url"], config["port"])
        /\ pc = "running" =>
               key = config["key"] /\ url = config["url"] /\ port = config["port"]

(* The dialogue comes to an end: no answer makes the greeter ask for ever. *)
GreeterEnds == pc = "start" ~> (pc \in {"done", "off"} \/ closed)

(* The operator keeps to lines that fgets takes with their newline, and    *)
(* answers the first question with at most one character.                  *)
LinesFit ==
    /\ \A s \in Keys : Len(s) <= KeyBuffer - 3
    /\ \A s \in Urls : Len(s) <= UrlBuffer - 3
    /\ \A s \in Ports : Len(s) <= PortBuffer - 3
    /\ \A s \in Answers : Len(s) <= 1
=============================================================================
