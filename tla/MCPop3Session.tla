--------------------------- MODULE MCPop3Session ---------------------------
(***************************************************************************)
(* Small instances of Pop3Session.  A file is named by its size, so the    *)
(* octets of different sets of files differ; readdir() lists files in      *)
(* ascending order.                                                        *)
(***************************************************************************)
EXTENDS Pop3Session, FiniteSetsExt, SequencesExt

CONSTANTS c1, c2, u1, u2

OneMail == {1}
TwoMails == {1, 2}
ThreeMails == {1, 2, 4}
FiveMails == {1, 2, 4, 8, 16}
LastIsLate == {Max(Mails)}
SecondUserOwnsLast == [m \in Mails |-> IF m = Max(Mails) THEN u2 ELSE u1]
FirstUserOwnsAll == [m \in Mails |-> u1]
FirstUserOwnsThree == [m \in Mails |-> IF m <= 4 THEN u1 ELSE u2]

Ascending == [S \in SUBSET Mails |-> SetToSortSeq(S, <)]
TotalSize == [S \in SUBSET Mails |-> SumSet(S)]

SecondIsShared == [c \in Conns |-> IF c = c1 THEN {u1, u2} ELSE {u2}]
Shared == [c \in Conns |-> {u1}]
SecondIsStranger == [c \in Conns |-> IF c = c1 THEN {u1, u2} ELSE {}]
=============================================================================
