--------------------------- MODULE MCMailTransfer ---------------------------
(***************************************************************************)
(* Small instances of MailTransfer.                                        *)
(***************************************************************************)
EXTENDS MailTransfer

Body == <<"TEXT">>

\* Up to MaxBody bytes of any kind, a text and the terminator: what a byte_stuffer that
\* looks at one byte at a time has to tell apart.
CONSTANT MaxBody
Bodies == BoundedSeq(Byte \ {"OK"}, MaxBody)
Ordinary == {b \o Body \o Terminator : b \in Bodies}

\* With bytes behind the terminator, without a terminator, and two that are longer than
\* the buffer: the second has its terminator across the end of the first chunk.
Whole == Body \o Terminator
Tail2 == Whole \o Body
Endless == Body \o <<"CR", "LF">>
Texts(n) == [i \in 1..n |-> "TEXT"]
Long == Texts(12) \o Terminator
Straddling == Texts(7) \o Terminator

Messages == Ordinary \cup {Tail2, Endless, Long, Straddling}

\* What the proofs about complete messages assume of them.
ASSUME MessagesEndPlainly == LastLineNotEmpty
=============================================================================
