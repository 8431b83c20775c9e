------------------------------ MODULE Tokenizer ------------------------------
(***************************************************************************)
(* How client_read makes commands of bytes: the automaton of tokenizer.c,  *)
(* run by parser_feed one byte at a time, and the struct parser_event it   *)
(* fills.  The automaton outlives a recv(), so where a segment ends makes  *)
(* no difference, and a step is one byte.                                  *)
(*                                                                         *)
(* A command is three strings, the name and two arguments; `index' is the  *)
(* place of the next byte in the one being stored.  The empty sequence is  *)
(* a string that was never allocated.  A 0 is a byte like the others here, *)
(* and the end of the string for the handlers.                             *)
(***************************************************************************)
EXTENDS Naturals, Sequences

CONSTANTS
    CR, LF, SP,
    Others,         \* every other byte
    COMMAND_SIZE,   \* bytes of a name, 4, and of an argument, 40: one less than
    ARG_SIZE,       \* was allocated
    MaxLine         \* bound on the bytes of a line

TokenizerAssumption ==
    /\ CR # LF /\ CR # SP /\ LF # SP
    /\ Others \cap {CR, LF, SP} = {}
    /\ COMMAND_SIZE \in Nat \ {0} /\ ARG_SIZE \in Nat \ {0} /\ MaxLine \in Nat

ASSUME TokenizerOK == TokenizerAssumption

Bytes == {CR, LF, SP} \cup Others

VARIABLES
    state,          \* p->state
    commands,       \* commands[0..2] of the event
    index,
    complete,       \* the last byte completed a line
    called,         \* what comparator and its handler were called with at that byte
    line            \* history: the bytes since the last complete line, or that line

vars == <<state, commands, index, complete, called, line>>

States == {"COMMAND_STATE", "FIRST_ARG_STATE", "SECOND_ARG_STATE", "FINAL_STATE", "ERR0R_STATE"}
Slots == 0..2
Size(k) == IF k = 0 THEN COMMAND_SIZE ELSE ARG_SIZE

NoCommand == [k \in Slots |-> <<>>]

\* parser_init and the struct set to zero.
Init ==
    /\ state = "COMMAND_STATE"
    /\ commands = NoCommand /\ index = 0
    /\ complete = FALSE /\ called = NoCommand
    /\ line = <<>>

-----------------------------------------------------------------------------
(* One action for each kind of transition of create_parser. *)

\* The byte b is fed; a line that is complete is followed by a new one.
Feed(b) ==
    /\ line' = IF complete THEN <<b>> ELSE Append(line, b)
    /\ Len(line') <= MaxLine
    /\ called' = NoCommand

Goes(from, to) == state = from /\ state' = to /\ complete' = FALSE

\* A space after the name and after the first argument: restart_index.
restart_index ==
    /\ Feed(SP)
    /\ \/ Goes("COMMAND_STATE", "FIRST_ARG_STATE")
       \/ Goes("FIRST_ARG_STATE", "SECOND_ARG_STATE")
    /\ index' = 0 /\ UNCHANGED commands

\* A third space: what follows is not stored.
TooManyArguments ==
    /\ Feed(SP)
    /\ Goes("SECOND_ARG_STATE", "ERR0R_STATE")
    /\ UNCHANGED <<commands, index>>

\* A CR ends the text in every state.
EndOfText ==
    /\ Feed(CR)
    /\ \E from \in States : Goes(from, "FINAL_STATE")
    /\ UNCHANGED <<commands, index>>

\* A byte after CR that is neither LF nor CR, and the bytes after an error.
Stray ==
    /\ \E b \in Bytes \ {CR} :
        /\ Feed(b)
        /\ \/ b # LF /\ Goes("FINAL_STATE", "ERR0R_STATE")
           \/ Goes("ERR0R_STATE", "ERR0R_STATE")
    /\ UNCHANGED <<commands, index>>

\* Faults: one byte too many is stored; the last byte is kept free.
store_over(k, b) ==
    IF index <= Size(k)
    THEN /\ commands' = [commands EXCEPT ![k] =
                [i \in 1..index + 1 |-> IF i <= index THEN commands[k][i] ELSE b]]
         /\ index' = index + 1
    ELSE UNCHANGED <<commands, index>>

store_short(k, b) ==
    IF index + 1 < Size(k)
    THEN /\ commands' = [commands EXCEPT ![k] =
                [i \in 1..index + 1 |-> IF i <= index THEN commands[k][i] ELSE b]]
         /\ index' = index + 1
    ELSE UNCHANGED <<commands, index>>

\* store_command, store_first_arg, store_second_arg: the byte is put at `index' and a 0
\* behind it, and bytes beyond the size are dropped.
store(k, b) ==
    IF index < Size(k)
    THEN /\ commands' = [commands EXCEPT ![k] =
                [i \in 1..index + 1 |-> IF i <= index THEN commands[k][i] ELSE b]]
         /\ index' = index + 1
    ELSE UNCHANGED <<commands, index>>

Store ==
    \E b \in Others \cup {LF} :
        /\ Feed(b)
        /\ \/ Goes("COMMAND_STATE", "COMMAND_STATE") /\ store(0, b)
           \/ Goes("FIRST_ARG_STATE", "FIRST_ARG_STATE") /\ store(1, b)
           \/ Goes("SECOND_ARG_STATE", "SECOND_ARG_STATE") /\ store(2, b)

\* Fault: an LF ends the line wherever it comes.
completed_anywhere ==
    /\ line' = IF complete THEN <<LF>> ELSE Append(line, LF)
    /\ Len(line') <= MaxLine
    /\ state' = "COMMAND_STATE" /\ complete' = TRUE
    /\ called' = commands /\ commands' = NoCommand /\ index' = 0

\* An LF after CR: completed, then client_read calls comparator and the handler with the
\* three strings, and restart_tokenizer frees them.
completed ==
    /\ line' = IF complete THEN <<LF>> ELSE Append(line, LF)
    /\ Len(line') <= MaxLine
    /\ state = "FINAL_STATE" /\ state' = "COMMAND_STATE" /\ complete' = TRUE
    /\ called' = commands /\ commands' = NoCommand /\ index' = 0

\* A line that reached the bound.
Full == ~complete /\ Len(line) = MaxLine /\ UNCHANGED vars

Next ==
    \/ restart_index \/ TooManyArguments \/ EndOfText \/ Stray \/ Store \/ completed
    \/ Full

Spec == Init /\ [][Next]_vars

-----------------------------------------------------------------------------
(* What a line says, without the automaton. *)

\* The first place of byte d in s, or the place behind s.
Place(s, d) ==
    CHOOSE n \in 1..Len(s) + 1 :
        /\ n = Len(s) + 1 \/ s[n] = d
        /\ \A i \in 1..n - 1 : s[i] # d

Upto(s, d) == SubSeq(s, 1, Place(s, d) - 1)
Past(s, d) == SubSeq(s, Place(s, d) + 1, Len(s))

Cut(s, n) == IF Len(s) <= n THEN s ELSE SubSeq(s, 1, n)

\* The words of a text: what comes before its first space, between the first and the
\* second, and between the second and the third, each cut to its size.
Words(text) ==
    [k \in Slots |->
        Cut(CASE k = 0 -> Upto(text, SP)
              [] k = 1 -> Upto(Past(text, SP), SP)
              [] k = 2 -> Upto(Past(Past(text, SP), SP), SP),
            Size(k))]

\* The places where s holds the end of a line.
Ends(s) == {i \in 2..Len(s) : s[i - 1] = CR /\ s[i] = LF}

-----------------------------------------------------------------------------
(* Properties. *)

\* Every variable has its type: a string stays within the memory store_* allocated for it,
\* although one index serves the three of them.
TypeOK ==
    /\ state \in States
    /\ commands \in [Slots -> Seq(Bytes)] /\ called \in [Slots -> Seq(Bytes)]
    /\ \A k \in Slots : Len(commands[k]) <= Size(k) /\ Len(called[k]) <= Size(k)
    /\ index \in Nat
    /\ complete \in BOOLEAN
    /\ line \in Seq(Bytes)

\* A handler is called with the words of its own line: nothing is left of the lines before,
\* nor of bytes between CR and LF.
ReadsTheLine == complete => called = Words(Upto(line, CR))

\* Pipelined lines are told apart: a command is run at the LF of each CR LF and nowhere
\* else, whatever a lone CR or LF and an error in the line do to the automaton.
OneCommandPerLine == Ends(line) = IF complete THEN {Len(line)} ELSE {}
=============================================================================
