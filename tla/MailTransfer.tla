---------------------------- MODULE MailTransfer ----------------------------
(***************************************************************************)
(* The transfer of a message: the states READING_MAIL and WRITING_MAIL of  *)
(* pop3nio.c (reading_init, filesystem_read, byte_stuffer, mail_write) on  *)
(* the two buffers of buffer.c, for one session.                           *)
(*                                                                         *)
(* The socket and the message file are both registered with the selector   *)
(* while a message is sent, and either key runs the handler of the state:  *)
(* every handler takes the key it was called with.                         *)
(***************************************************************************)
EXTENDS Integers, Sequences, FiniteSets, SequencesExt, FiniteSetsExt

CONSTANTS
    FileSet,      \* the message files a run looks at
    BUFFER_SIZE,  \* bytes of raw_buff_a and raw_buff_b
    MaxInput      \* bound on the segments the client has sent and nobody read

\* A byte, as far as the terminator is concerned; "OK" stands for the reply to RETR.
Byte == {"CR", "LF", "DOT", "TEXT", "OK"}
Terminator == <<"CR", "LF", "DOT", "CR", "LF">>

TransferAssumption ==
    /\ FileSet \subseteq Seq(Byte \ {"OK"})
    /\ BUFFER_SIZE \in Nat \ {0} /\ MaxInput \in Nat

ASSUME TransferOK == TransferAssumption

VARIABLES
    file,      \* what selected_mail_fd was opened on
    pos,       \* its offset
    stm,       \* state of the session
    interest,  \* of the items of both descriptors; "NONE": not registered
    rb, wb,    \* read_buffer and write_buffer
    done, byte_stuffing_st,  \* fields of struct mail_st
    input,     \* segments waiting in the socket
    peer,      \* "here", or "gone" after the client reset the connection
    sent       \* history: what send() took since RETR

vars == <<file, pos, stm, interest, rb, wb, done, byte_stuffing_st, input, peer, sent>>

Sending == stm \in {"READING_MAIL", "WRITING_MAIL"}

-----------------------------------------------------------------------------
(* buffer.c: what is between the pointers, and how far `read' is from `data'. *)

buffer_reset == [q |-> <<>>, read |-> 0]

Room(b) == BUFFER_SIZE - b.read - Len(b.q)

\* Fault: no limit.
buffer_write_unbounded(b, x) == [b EXCEPT !.q = @ \o x]

\* A loop of buffer_write: what does not fit is dropped.
buffer_write(b, x) ==
    [b EXCEPT !.q = @ \o SubSeq(x, 1, IF Len(x) < Room(b) THEN Len(x) ELSE Room(b))]

\* buffer_read_adv: only an empty buffer is compacted.
buffer_read_adv(b, k) ==
    IF k = Len(b.q) THEN buffer_reset
    ELSE [q |-> SubSeq(b.q, k + 1, Len(b.q)), read |-> b.read + k]

\* Fault: two bytes are taken back, as the comment at the call says.
rewrite_terminator_two(b) ==
    buffer_write([b EXCEPT !.q = SubSeq(@, 1, Len(@) - 2)], Terminator)

\* delete_n_from_buffer(wb, 5) and the five writes after it: `write' may pass below
\* `read' in between, and then the terminator covers bytes that were sent.
rewrite_terminator(b) ==
    [b EXCEPT !.q = IF Len(@) >= 5 THEN SubSeq(@, 1, Len(@) - 5) \o Terminator
                    ELSE SubSeq(Terminator, 6 - Len(@), 5)]

-----------------------------------------------------------------------------
(* byte_stuffer: the states 0 to 4 count the bytes of the terminator that were seen. *)

byte_stuffer(c, st) ==
    IF c # Terminator[st + 1] THEN 0 ELSE IF st = 4 THEN 4 ELSE st + 1

Found(c, st) == st = 4 /\ c = "LF"

\* After[i]: the state after the first i bytes of q.
After(q, st) ==
    LET after[i \in 0..Len(q)] == IF i = 0 THEN st ELSE byte_stuffer(q[i], after[i - 1])
    IN  after

\* Fault: the last byte is not looked at.
Scan_short(q, st) ==
    LET ends == {i \in 1..(Len(q) - 1) : Found(q[i], After(q, st)[i - 1])}
    IN  [looked |-> IF ends = {} THEN Len(q) ELSE Min(ends), ended |-> ends # {}]

\* How many bytes of q filesystem_read looks at, and whether the last one completes
\* the terminator.
Scan(q, st) ==
    LET ends == {i \in 1..Len(q) : Found(q[i], After(q, st)[i - 1])}
    IN  [looked |-> IF ends = {} THEN Len(q) ELSE Min(ends), ended |-> ends # {}]

-----------------------------------------------------------------------------
(* The session. *)

Init ==
    /\ file \in FileSet /\ pos = 0
    /\ stm = "TRANSACTION"
    /\ interest = [sock |-> "READ", mail |-> "NONE"]
    /\ rb = buffer_reset /\ wb = buffer_reset
    /\ done = FALSE /\ byte_stuffing_st = 0
    /\ input = 0 /\ peer = "here" /\ sent = <<>>

\* pop3_done: both descriptors are unregistered.
pop3_done ==
    /\ stm' = "CLOSED"
    /\ interest' = [sock |-> "NONE", mail |-> "NONE"]
    /\ UNCHANGED <<rb, wb, done, byte_stuffing_st>>

\* client_read: RETR is answered, the file opened, and reading_init runs.
client_read ==
    /\ stm = "TRANSACTION" /\ interest.sock = "READ" /\ input > 0
    /\ input' = 0
    /\ file' \in FileSet /\ pos' = 0
    /\ stm' = "READING_MAIL"
    /\ interest' = [sock |-> "WRITE", mail |-> "READ"]
    /\ wb' = buffer_write(wb, <<"OK">>)
    /\ done' = FALSE /\ byte_stuffing_st' = 0
    /\ sent' = <<>>
    /\ UNCHANGED <<rb, peer>>

\* client_write with an empty buffer, after a transfer that left OP_WRITE on the socket.
client_write ==
    /\ stm = "TRANSACTION" /\ interest.sock = "WRITE"
    /\ \/ /\ interest' = [interest EXCEPT !.sock = "READ"]
          /\ UNCHANGED <<stm, rb, wb, done, byte_stuffing_st>>
       \/ peer = "gone" /\ pop3_done
    /\ UNCHANGED <<file, pos, input, peer, sent>>

\* client_read of a connection that is gone.
RecvFails ==
    /\ stm = "TRANSACTION" /\ interest.sock = "READ" /\ peer = "gone"
    /\ pop3_done
    /\ UNCHANGED <<file, pos, input, peer, sent>>

\* The descriptor of key k can be read: a file always, a socket if there is input.
Readable(k) == interest[k] = "READ" /\ (k = "sock" => input > 0 \/ peer = "gone")

\* What read() gives to filesystem_read, for the rest of the file or of the buffer.
Chunk ==
    LET left == Len(file) - pos
    IN  SubSeq(file, pos + 1, pos + IF left < Room(rb) THEN left ELSE Room(rb))

\* Fault: the end of the file is not an error.
filesystem_read_at_eof(k) ==
    /\ Sending /\ Readable(k)
    /\ Chunk = <<>>
    /\ interest' = [interest EXCEPT ![k] = "WRITE"]
    /\ UNCHANGED <<stm, rb, wb, done, byte_stuffing_st, file, pos, input, peer, sent>>

\* read() returns 0, at the end of the file or because rb is full: the state is ERROR.
filesystem_read_fails(k) ==
    /\ Sending /\ Readable(k)
    /\ Chunk = <<>>
    /\ pop3_done
    /\ UNCHANGED <<file, pos, input, peer, sent>>

\* Bytes go from the file through rb to wb, up to the terminator.
filesystem_read(k) ==
    /\ Sending /\ Readable(k)
    /\ Chunk # <<>>
    /\ pos' = pos + Len(Chunk)
    /\ LET r == buffer_write(rb, Chunk)
           scan == Scan(r.q, byte_stuffing_st)
           w == buffer_write(wb, SubSeq(r.q, 1, scan.looked))
       IN  /\ rb' = buffer_read_adv(r, scan.looked)
           /\ wb' = IF scan.ended THEN rewrite_terminator(w) ELSE w
           /\ done' = (done \/ scan.ended)
           /\ byte_stuffing_st' = After(r.q, byte_stuffing_st)[scan.looked]
    /\ interest' = [interest EXCEPT ![k] = "WRITE"]
    /\ stm' = "WRITING_MAIL"
    /\ UNCHANGED <<file, input, peer, sent>>

\* Fault: the file stays registered.
End_registered(k, drained) ==
    /\ stm' = "TRANSACTION"
    /\ interest' = [interest EXCEPT ![k] = IF drained THEN "READ" ELSE @]
    /\ rb' = buffer_reset /\ wb' = buffer_reset
    /\ done' = FALSE
    /\ UNCHANGED byte_stuffing_st

\* mail_write with the terminator queued, whatever send() did and however much of wb
\* is left: the session is back in TRANSACTION.
End(k, drained) ==
    /\ stm' = "TRANSACTION"
    /\ interest' = [interest EXCEPT ![k] = IF drained THEN "READ" ELSE @, !.mail = "NONE"]
    /\ rb' = buffer_reset /\ wb' = buffer_reset
    /\ done' = FALSE
    /\ UNCHANGED byte_stuffing_st

\* mail_write: send() takes n bytes of wb.  From WRITING_MAIL a drained buffer jumps to
\* READING_MAIL, where reading_init starts the stuffer again and finds the file registered.
mail_write(k) ==
    /\ Sending /\ interest[k] = "WRITE" /\ peer = "here"
    /\ \E n \in 0..Len(wb.q) :
        /\ n = 0 => wb.q = <<>>
        /\ sent' = sent \o SubSeq(wb.q, 1, n)
        /\ LET drained == n = Len(wb.q)
           IN  \/ done /\ End(k, drained)
               \/ /\ ~done
                  /\ wb' = buffer_read_adv(wb, n)
                  /\ interest' = [interest EXCEPT ![k] = IF drained THEN "READ" ELSE @]
                  /\ stm' = IF drained THEN "READING_MAIL" ELSE stm
                  /\ byte_stuffing_st' = IF drained /\ stm = "WRITING_MAIL" THEN 0
                                         ELSE byte_stuffing_st
                  /\ UNCHANGED <<rb, done>>
    /\ UNCHANGED <<file, pos, input, peer>>

\* send() fails.  ECONNRESET is ERROR; a full socket, and EPIPE, leave everything as it is.
mail_write_fails(k) ==
    /\ Sending /\ interest[k] = "WRITE"
    /\ \/ done /\ End(k, FALSE)
       \/ ~done /\ peer = "gone" /\ pop3_done
    /\ UNCHANGED <<file, pos, input, peer, sent>>

\* The client sends a segment, or resets the connection.
ClientSends ==
    /\ stm # "CLOSED" /\ peer = "here" /\ input < MaxInput
    /\ input' = input + 1
    /\ UNCHANGED <<file, pos, stm, interest, rb, wb, done, byte_stuffing_st, peer, sent>>

ClientGoes ==
    /\ stm # "CLOSED" /\ peer = "here"
    /\ peer' = "gone"
    /\ UNCHANGED <<file, pos, stm, interest, rb, wb, done, byte_stuffing_st, input, sent>>

Closed == stm = "CLOSED" /\ UNCHANGED vars

Next ==
    \/ client_read \/ client_write \/ RecvFails \/ ClientSends \/ ClientGoes \/ Closed
    \/ \E k \in {"sock", "mail"} :
        \/ filesystem_read(k) \/ filesystem_read_fails(k)
        \/ mail_write(k) \/ mail_write_fails(k)

\* select() reports the file in every iteration, and a client that is there reads its
\* socket, so that sends fail only now and then.
Fairness ==
    /\ WF_vars(filesystem_read("mail") \/ filesystem_read_fails("mail"))
    /\ SF_vars(mail_write("mail"))

Spec == Init /\ [][Next]_vars
FairSpec == Spec /\ Fairness

-----------------------------------------------------------------------------
(* Properties. *)

\* The first terminator of a message, by definition.
EndOf(f) == {i \in 5..Len(f) : SubSeq(f, i - 4, i) = Terminator}
ReplyTo(f) == <<"OK">> \o IF EndOf(f) = {} THEN f ELSE SubSeq(f, 1, Min(EndOf(f)))

\* The last line of a message is not empty: the stuffer, which does not look again at a
\* byte that broke a match, misses a terminator behind a CR or an LF.
LastLineNotEmpty ==
    \A f \in FileSet : EndOf(f) # {} =>
        Min(EndOf(f)) = 5 \/ f[Min(EndOf(f)) - 5] \notin {"CR", "LF"}

\* The reply and the file fit in the buffers.
Fits == Len(file) < BUFFER_SIZE

Reply == INSTANCE MultilineReply WITH
    Replies <- {ReplyTo(f) : f \in FileSet},
    phase <- IF stm = "TRANSACTION" THEN "idle" ELSE IF stm = "CLOSED" THEN "closed" ELSE "sending",
    msg <- ReplyTo(file),
    out <- sent

\* Every variable has its type, and no buffer grows beyond its array.
TypeOK ==
    /\ file \in FileSet /\ pos \in 0..Len(file)
    /\ stm \in {"TRANSACTION", "READING_MAIL", "WRITING_MAIL", "CLOSED"}
    /\ interest \in [{"sock", "mail"} -> {"NONE", "READ", "WRITE"}]
    /\ \A b \in {rb, wb} : b.q \in Seq(Byte) /\ b.read \in Nat /\ Room(b) >= 0
    /\ done \in BOOLEAN /\ byte_stuffing_st \in 0..4
    /\ input \in 0..MaxInput /\ peer \in {"here", "gone"}
    /\ sent \in Seq(Byte)

\* The message file is watched exactly while its message is sent: a file that stayed
\* registered would run the command handlers on a descriptor that is no socket.
WatchedWhileSending == Sending <=> interest.mail # "NONE"

\* A message that fits in the buffer is sent byte for byte up to its terminator, whatever
\* the two keys, partial sends and input from the client do in between; the one
\* departure from the promise is a reply that is cut short by the last send.
SendsTheMessage ==
    [][Fits' => (Reply!Next \/ Reply!Cut \/ UNCHANGED Reply!vars)]_vars

\* The connection is closed in the middle of a message that has a terminator and fits
\* only if the client wrote during the transfer or left.
ClosedOnlyIfDisturbed ==
    [][Sending /\ stm' = "CLOSED" /\ Fits /\ EndOf(file) # {} => input > 0 \/ peer = "gone"]_vars

\* A transfer ends as long as the client is there.
TransferEnds == Sending ~> ~Sending \/ peer = "gone"
=============================================================================
