---------------------------- MODULE Pop3Session ----------------------------
(***************************************************************************)
(* The POP3 sessions of the server: pop3nio.c (accept, client_read,        *)
(* client_write, the UPDATE state, closing), the command handlers of       *)
(* comparator.c, load_mails of email.c and the state machine of stm.c.     *)
(*                                                                         *)
(* One thread runs the callbacks of every connection.  client_read takes   *)
(* whatever one recv() returned and runs every complete command in it      *)
(* before it returns, so it is a sequence of steps here (Recv, one action  *)
(* per command, Jump) during which no other connection moves; cur names    *)
(* the connection whose client_read is running and curr_state is the local *)
(* variable of that name.  The transfer of a message (READING_MAIL and     *)
(* WRITING_MAIL) is one state here, entered by RETR and left by MailDone   *)
(* or MailFails; module MailTransfer models its steps.                     *)
(***************************************************************************)
EXTENDS Naturals, Sequences, FiniteSets

CONSTANTS
    Conns,      \* descriptors of client sockets
    Users,      \* names a client may give to USER
    Accounts,   \* the users in the list `clients' when PASS is checked
    Homes,      \* users whose directory <maildir>/<user>/cur/ exists
    Mails,      \* the message files that may ever exist
    Owner,      \* Owner[m]: the user whose directory holds file m
    Late,       \* files delivered while the server runs
    Dir,        \* Dir[S]: the order in which readdir() returns the files S
    Octets,     \* Octets[S]: the sum of the sizes of the files S
    Login,      \* Login[c]: the users the client on connection c may name
    Slow,       \* connections whose send queue may fill up
    Readers,    \* connections whose client goes on reading what it is sent
    MaxArg,     \* bound on the message numbers clients send
    MaxBatch,   \* bound on the complete commands one recv() returns
    MaxLeaks,   \* bound on the sessions pop3_close leaves behind
    MAX_MAILS,  \* MAX_MAILS of email.c and pop3nio.c
    WbSize,     \* replies that fit in raw_buff_b
    NoConn, NoUser

ConstantsAssumption ==
    /\ Accounts \subseteq Users /\ Homes \subseteq Users /\ NoUser \notin Users
    /\ NoConn \notin Conns
    /\ IsFiniteSet(Conns) /\ IsFiniteSet(Mails)
    /\ Owner \in [Mails -> Users]
    /\ Late \subseteq Mails
    /\ Login \in [Conns -> SUBSET Users]
    /\ Slow \subseteq Conns /\ Readers \subseteq Conns
    /\ Octets \in [SUBSET Mails -> Nat]
    /\ MaxArg \in Nat /\ MaxBatch \in Nat \ {0} /\ MaxLeaks \in Nat
    /\ MAX_MAILS \in Nat \ {0} /\ WbSize \in Nat \ {0}

\* readdir() returns every file of the directory once, in an order that depends
\* only on what the directory holds.
DirAssumption ==
    /\ DOMAIN Dir = SUBSET Mails
    /\ \A S \in SUBSET Mails :
        /\ Dir[S] \in Seq(Mails)
        /\ {Dir[S][i] : i \in DOMAIN Dir[S]} = S
        /\ \A i, j \in DOMAIN Dir[S] : Dir[S][i] = Dir[S][j] => i = j

ASSUME ConstantsOK == ConstantsAssumption
ASSUME DirOK == DirAssumption

VARIABLES
    server,       \* "running", or why the process stopped serving
    cur,          \* connection inside client_read, or NoConn
    room,         \* commands the current recv() may still hold
    curr_state,   \* local variable of client_read
    s,            \* s[c]: struct pop3 of connection c
    box,          \* message files on disk
    connections,  \* the counter `connections'
    full          \* sockets whose send queue lacks the room select() asks for

vars == <<server, cur, room, curr_state, s, box, connections, full>>

States == {"CLOSED", "NULL", "AUTH", "TRANSACTION", "READING_MAIL", "UPDATE"}
ReadResults == {"AUTH", "TRANSACTION", "READING_MAIL", "UPDATE", "DONE", "ERROR"}
Stops  == {"table_overrun", "list_overrun", "no_maildir", "empty_maildir", "accept_failed"}

Reply == [kind : {"ok", "err", "stat", "rset"}, n : Nat, octets : Nat]
Ok  == [kind |-> "ok",  n |-> 0, octets |-> 0]
Err == [kind |-> "err", n |-> 0, octets |-> 0]

\* A session.  `flags' holds the positions i with dele_flags[i-1] set, `mails' the
\* files of the last load_mails in order, `orig' is original_total_octates; `pass' is
\* the user whose password credentials->pass is (NoUser for NULL): pass_handler stores
\* it when validate_user accepts it, and nothing clears it.  `marked' is history: the
\* files this session sent DELE for since the last RSET.
Session ==
    [stm : States, interest : {"READ", "WRITE"}, wb : Seq(Reply),
     user : Users \cup {NoUser}, pass : Users \cup {NoUser}, mails : Seq(Mails),
     flags : SUBSET (1..MAX_MAILS), orig : Nat, marked : SUBSET Mails]

Blank(st) ==
    [stm |-> st, interest |-> "WRITE", wb |-> <<>>, user |-> NoUser, pass |-> NoUser,
     mails |-> <<>>, flags |-> {}, orig |-> 0, marked |-> {}]

Live == {c \in Conns : s[c].stm # "CLOSED"}

-----------------------------------------------------------------------------
(* The buffers and the mail directory. *)

\* Faults, each next to the definition it replaces when the properties are tested:
\* the buffer taken for full with one place left.
write_to_buffer_short(q, r) == IF Len(q) + 1 < WbSize THEN Append(q, r) ELSE q

\* write_to_buffer: a reply that does not fit is dropped.
write_to_buffer(q, r) == IF Len(q) < WbSize THEN Append(q, r) ELSE q

\* Fault: the directory of the maildir is opened, not that of the user.
Files_of_all(u) == box

Files(u) == {m \in box : Owner[m] = u}

\* Fault: load_mails without its bound.
Loaded_unbounded(u) == Dir[Files(u)]

\* load_mails: the first MAX_MAILS files of the directory, in readdir() order.
Loaded(u) ==
    LET d == Dir[Files(u)]
    IN  IF Len(d) > MAX_MAILS THEN SubSeq(d, 1, MAX_MAILS) ELSE d

\* Fault: flagged files are counted.
Unflagged_ignored(x) == DOMAIN x.mails

\* The files of a listing that are not flagged: what mail_qty and total_octates count.
Unflagged(x) == {i \in DOMAIN x.mails : i \notin x.flags}
mail_qty(x) == Cardinality(Unflagged(x))
total_octates(x) == Octets[{x.mails[i] : i \in Unflagged(x)}]

\* A session after load_mails found its directory non-empty.
load_mails(x) ==
    LET y == [x EXCEPT !.mails = Loaded(x.user)]
    IN  [y EXCEPT !.orig = total_octates(y)]

CanLoad(x) == x.user \in Homes /\ Files(x.user) # {}

\* max_index is 0 until the first load, then the last position of `mails' (from 0).
max_index(x) == IF x.mails = <<>> THEN 0 ELSE Len(x.mails) - 1

\* The test the handlers of RETR and DELE make on a message number.
Selectable(x, i) == i >= 1 /\ i - 1 <= max_index(x) /\ i \notin x.flags

-----------------------------------------------------------------------------
(* Connections. *)

Idle == server = "running" /\ cur = NoConn

Init ==
    /\ server = "running"
    /\ cur = NoConn /\ room = 0 /\ curr_state = "AUTH"
    /\ s = [c \in Conns |-> Blank("CLOSED")]
    /\ box = Mails \ Late
    /\ connections = 0
    /\ full = {}

\* pop3_passive_accept and pop3_new: the first event of the session is a write.
pop3_passive_accept(c) ==
    /\ Idle /\ s[c].stm = "CLOSED"
    /\ s' = [s EXCEPT ![c] = Blank("NULL")]
    /\ connections' = connections + 1
    /\ UNCHANGED <<server, cur, room, curr_state, box, full>>

\* accept() failed: the fail path calls pop3_destroy(NULL).
AcceptFails ==
    /\ Idle
    /\ server' = "accept_failed"
    /\ UNCHANGED <<cur, room, curr_state, s, box, connections, full>>

\* Faults: the session is destroyed once for each of its descriptors; the descriptor
\* stays registered.
pop3_done_twice(c) ==
    /\ s' = [s EXCEPT ![c] = Blank("CLOSED")]
    /\ connections' = connections - 2
    /\ full' = full \ {c}

pop3_done_keeps_fd(c) == UNCHANGED <<s, connections, full>>

\* pop3_done, pop3_close and pop3_destroy on a session that is not in a transfer.
pop3_done(c) ==
    /\ s' = [s EXCEPT ![c] = Blank("CLOSED")]
    /\ connections' = connections - 1
    /\ full' = full \ {c}

\* handle_first: the first event runs auth_init, which queues the greeting.
Arrived(x) ==
    IF x.stm = "NULL"
    THEN [x EXCEPT !.stm = "AUTH", !.wb = write_to_buffer(@, Ok)] ELSE x

\* client_write, called when select() finds room in the send queue: send() takes the
\* first k replies (0 when there is nothing to send), all of them unless the queue is
\* full by then; UPDATE goes to DONE whether or not everything went out.
client_write(c) ==
    /\ Idle /\ s[c].stm \in {"NULL", "AUTH", "TRANSACTION", "UPDATE"}
    /\ s[c].interest = "WRITE" /\ c \notin full
    /\ LET x == Arrived(s[c])
       IN  \E k \in 0..Len(x.wb) :
            /\ k = 0 => x.wb = <<>>
            /\ IF x.stm = "UPDATE"
               THEN pop3_done(c)
               ELSE /\ s' = [s EXCEPT ![c] = [x EXCEPT
                                !.wb = SubSeq(@, k + 1, Len(@)),
                                !.interest = IF k = Len(x.wb) THEN "READ" ELSE @]]
                    /\ full' \in {full, full \cup ({c} \cap Slow)}
                    /\ k = 0 => full' = full
                    /\ k < Len(x.wb) => c \in full'
                    /\ UNCHANGED connections
    /\ UNCHANGED <<server, cur, room, curr_state, box>>

\* send() or recv() fails, or recv() returns 0: the state is ERROR and the session ends.
SocketFails(c) ==
    /\ Idle /\ s[c].stm \in {"NULL", "AUTH", "TRANSACTION", "UPDATE"}
    /\ pop3_done(c)
    /\ UNCHANGED <<server, cur, room, curr_state, box>>

-----------------------------------------------------------------------------
(* client_read. *)

\* recv() returned some bytes; curr_state starts as the state of the machine.
Recv(c) ==
    /\ Idle /\ s[c].stm \in {"AUTH", "TRANSACTION"} /\ s[c].interest = "READ"
    /\ cur' = c
    /\ room' = MaxBatch
    /\ curr_state' = s[c].stm
    /\ UNCHANGED <<server, s, box, connections, full>>

\* The parser completed a command and comparator looks it up in the table of `table'.
Dispatch(c, table) == server = "running" /\ cur = c /\ room > 0 /\ curr_state = table

\* Fault: client_read does not ask for OP_WRITE.
Return_keeps_interest(c, x, r, to) ==
    /\ s' = [s EXCEPT ![c] = [x EXCEPT !.wb = write_to_buffer(@, r)]]
    /\ curr_state' = to
    /\ room' = room - 1
    /\ UNCHANGED <<server, cur, box, connections, full>>

\* A handler left the session as x, queued r and returned `to'.
Return(c, x, r, to) ==
    /\ s' = [s EXCEPT ![c] = [x EXCEPT !.interest = "WRITE",
                                       !.wb = write_to_buffer(@, r)]]
    /\ curr_state' = to
    /\ room' = room - 1
    /\ UNCHANGED <<server, cur, box, connections, full>>

\* A handler never returns: the process dies or spins.
Stop(why) ==
    /\ server' = why
    /\ UNCHANGED <<cur, room, curr_state, s, box, connections, full>>

\* comparator indexes commands_per_state with a state that has no table.
comparator(c) ==
    /\ server = "running" /\ cur = c /\ room > 0
    /\ curr_state \notin {"AUTH", "TRANSACTION"}
    /\ Stop("table_overrun")

invalid_command_handler(c) ==
    /\ \/ Dispatch(c, "AUTH") \/ Dispatch(c, "TRANSACTION")
    /\ Return(c, s[c], Err, s[c].stm)

\* Fault: one CAPA handler for both tables.
capa_handler_shared(c) ==
    /\ \/ Dispatch(c, "AUTH") \/ Dispatch(c, "TRANSACTION")
    /\ Return(c, s[c], Ok, "AUTH")

capa_handler(c) ==
    \/ Dispatch(c, "AUTH") /\ Return(c, s[c], Ok, "AUTH")
    \/ Dispatch(c, "TRANSACTION") /\ Return(c, s[c], Ok, "TRANSACTION")

\* Fault: USER stands in the table of TRANSACTION too, as CAPA and QUIT do.
user_handler_anywhere(c) ==
    \/ /\ Dispatch(c, "AUTH")
       /\ \E u \in Login[c] \cup {s[c].user} :
            Return(c, [s[c] EXCEPT !.user = u], Ok, "AUTH")
    \/ /\ Dispatch(c, "TRANSACTION")
       /\ \E u \in Login[c] : Return(c, [s[c] EXCEPT !.user = u], Ok, s[c].stm)

\* USER without an argument keeps the previous name and is answered +OK as well.
user_handler(c) ==
    /\ Dispatch(c, "AUTH")
    /\ \E u \in Login[c] \cup {s[c].user} :
        Return(c, [s[c] EXCEPT !.user = u], Ok, "AUTH")

\* PASS: without a user the handler returns what write_to_buffer returned, 0 (AUTH)
\* or 2 (READING_MAIL) when the reply did not fit.
pass_handler(c) ==
    /\ Dispatch(c, "AUTH")
    /\ \/ /\ s[c].user = NoUser
          /\ Return(c, s[c], Err,
                    IF Len(s[c].wb) < WbSize THEN "AUTH" ELSE "READING_MAIL")
       \/ /\ s[c].user \in Accounts
          /\ Return(c, [s[c] EXCEPT !.pass = s[c].user], Ok, "TRANSACTION")
       \/ Return(c, s[c], Err, "AUTH")

auth_quit_handler(c) == Dispatch(c, "AUTH") /\ Return(c, s[c], Ok, "DONE")

noop(c) == Dispatch(c, "TRANSACTION") /\ Return(c, s[c], Ok, s[c].stm)

trans_quit_handler(c) == Dispatch(c, "TRANSACTION") /\ Return(c, s[c], Ok, "UPDATE")

\* STAT, LIST, RETR and DELE start with load_mails: opendir() of a directory that is
\* not there, or an empty listing whose max_index wraps around.
LoadFails(c) ==
    /\ Dispatch(c, "TRANSACTION")
    /\ ~CanLoad(s[c])
    /\ Stop(IF s[c].user \in Homes THEN "empty_maildir" ELSE "no_maildir")

Stat(x) == [kind |-> "stat", n |-> mail_qty(x), octets |-> total_octates(x)]

\* STAT, and LIST without an argument: both answer mail_qty and total_octates.
stat_handler(c) ==
    /\ Dispatch(c, "TRANSACTION") /\ CanLoad(s[c])
    /\ LET x == load_mails(s[c]) IN Return(c, x, Stat(x), "TRANSACTION")

\* LIST n tests the range after it used the number: an unflagged number out of range
\* reads mails[n-1], a flagged one is answered twice.
list_handler(c) ==
    /\ Dispatch(c, "TRANSACTION") /\ CanLoad(s[c])
    /\ LET x == load_mails(s[c])
       IN  \E i \in 0..MaxArg :
            \/ i = 0 /\ Return(c, x, Err, "TRANSACTION")
            \/ Selectable(x, i) /\ Return(c, x, Ok, "TRANSACTION")
            \/ /\ i \in x.flags /\ i - 1 <= max_index(x)
               /\ Return(c, x, Err, "TRANSACTION")
            \/ /\ i \in x.flags /\ i - 1 > max_index(x)
               /\ Return(c, [x EXCEPT !.wb = write_to_buffer(@, Err)], Err, "TRANSACTION")
            \/ /\ i >= 1 /\ i - 1 > max_index(x) /\ i \notin x.flags
               /\ Stop("list_overrun")

\* RETR n: the message is sent by the mail states; open() may fail.
retr_handler(c) ==
    /\ Dispatch(c, "TRANSACTION") /\ CanLoad(s[c])
    /\ LET x == load_mails(s[c])
       IN  \/ Return(c, x, Err, x.stm)
           \/ \E i \in 0..MaxArg :
                \/ ~Selectable(x, i) /\ Return(c, x, Err, "TRANSACTION")
                \/ /\ Selectable(x, i)
                   /\ \E to \in {"READING_MAIL", "ERROR"} : Return(c, x, Ok, to)

dele_handler(c) ==
    /\ Dispatch(c, "TRANSACTION") /\ CanLoad(s[c])
    /\ LET x == load_mails(s[c])
       IN  \/ Return(c, x, Err, x.stm)
           \/ \E i \in 0..MaxArg :
                \/ ~Selectable(x, i) /\ Return(c, x, Err, "TRANSACTION")
                \/ /\ Selectable(x, i)
                   /\ Return(c, [x EXCEPT !.flags = @ \cup {i},
                                          !.marked = @ \cup {x.mails[i]}],
                             Ok, x.stm)

\* RSET does not load the directory: it clears the flags up to max_index and answers
\* max_index + 1 messages of original_total_octates.
rset_handler(c) ==
    /\ Dispatch(c, "TRANSACTION")
    /\ LET x == s[c]
       IN  Return(c, [x EXCEPT !.flags = {i \in @ : i - 1 > max_index(x)}, !.marked = {}],
                  [kind |-> "rset", n |-> max_index(x) + 1, octets |-> x.orig], x.stm)

Command(c) ==
    \/ comparator(c) \/ invalid_command_handler(c) \/ capa_handler(c)
    \/ user_handler(c) \/ pass_handler(c) \/ auth_quit_handler(c)
    \/ noop(c) \/ trans_quit_handler(c) \/ LoadFails(c) \/ stat_handler(c)
    \/ list_handler(c) \/ retr_handler(c) \/ dele_handler(c) \/ rset_handler(c)

\* Faults: flags counted from 0 and files from 1; a loop that stops before max_index.
delete_mails_shifted(x) == {x.mails[i] : i \in {j \in DOMAIN x.mails : j + 1 \in x.flags}}

delete_mails_short(x) == {x.mails[i] : i \in x.flags \cap 1..max_index(x)}

\* delete_mails, on arrival to UPDATE: the files at the flagged positions.
delete_mails(x) == {x.mails[i] : i \in x.flags \cap DOMAIN x.mails}

\* rb is drained: client_read returns curr_state and jump() takes the machine there.
Jump(c) ==
    /\ server = "running" /\ cur = c
    /\ cur' = NoConn /\ room' = 0 /\ curr_state' = "AUTH"
    /\ \/ /\ curr_state \in {"AUTH", "TRANSACTION", "READING_MAIL"}
          /\ s' = [s EXCEPT ![c].stm = curr_state]
          /\ UNCHANGED <<box, connections, full>>
       \/ /\ curr_state = "UPDATE"
          /\ s' = [s EXCEPT ![c].stm = "UPDATE"]
          /\ box' = box \ delete_mails(s[c])
          /\ UNCHANGED <<connections, full>>
       \/ /\ curr_state \in {"DONE", "ERROR"}
          /\ pop3_done(c)
          /\ UNCHANGED box
    /\ UNCHANGED server

-----------------------------------------------------------------------------
(* The mail states, and the environment. *)

\* mail_write with the terminator queued: both buffers are reset and the machine is
\* back in TRANSACTION; the interest of the socket, and the room left in its send
\* queue, are whatever the transfer left.
MailDone(c) ==
    /\ Idle /\ s[c].stm = "READING_MAIL"
    /\ \E i \in {"READ", "WRITE"} :
        s' = [s EXCEPT ![c] = [@ EXCEPT !.stm = "TRANSACTION", !.wb = <<>>,
                                        !.interest = i]]
    /\ full' \in {full \cup ({c} \cap Slow), full \ {c}}
    /\ UNCHANGED <<server, cur, room, curr_state, box, connections>>

\* The transfer ends in ERROR.  pop3_close destroys the session, except when the
\* terminator was already queued: then the struct stays and is still counted.
MailFails(c) ==
    /\ Idle /\ s[c].stm = "READING_MAIL"
    /\ \/ pop3_done(c)
       \/ /\ connections < Cardinality(Live) + MaxLeaks
          /\ s' = [s EXCEPT ![c] = Blank("CLOSED")]
          /\ full' = full \ {c}
          /\ UNCHANGED connections
    /\ UNCHANGED <<server, cur, room, curr_state, box>>

\* Another program puts a message in the directory of its owner.
Deliver ==
    /\ server = "running"
    /\ \E m \in Late \ box : box' = box \cup {m}
    /\ UNCHANGED <<server, cur, room, curr_state, s, connections, full>>

\* The client on connection c reads what was sent to it: the send queue has room again.
ClientReads(c) ==
    /\ server = "running" /\ c \in full
    /\ full' = full \ {c}
    /\ UNCHANGED <<server, cur, room, curr_state, s, box, connections>>

\* A process that died or spins serves nobody.
Halted == server # "running" /\ UNCHANGED vars

Next ==
    \/ \E c \in Conns :
        \/ pop3_passive_accept(c) \/ client_write(c) \/ SocketFails(c)
        \/ Recv(c) \/ Command(c) \/ Jump(c) \/ MailDone(c) \/ MailFails(c)
        \/ ClientReads(c)
    \/ AcceptFails \/ Deliver \/ Halted

\* The server's part: select() reports every socket that has room for its replies in
\* every iteration and handle_iteration visits every reported descriptor (strong
\* fairness: between two of its events the callbacks of other sessions run);
\* client_read is a loop over a finite buffer, so a read that began ends.
ServerFairness ==
    \A c \in Conns : SF_vars(client_write(c)) /\ WF_vars(Jump(c))

\* The clients' part, which the server cannot enforce: those of Readers read.
ClientFairness == \A c \in Readers : WF_vars(ClientReads(c))

Fairness == ServerFairness /\ ClientFairness

Spec == Init /\ [][Next]_vars
FairSpec == Spec /\ Fairness

-----------------------------------------------------------------------------
(* Properties. *)

Selected(c) == s[c].stm \in {"TRANSACTION", "READING_MAIL", "UPDATE"}

\* Every variable has its type.
TypeOK ==
    /\ server \in {"running"} \cup Stops
    /\ cur \in Conns \cup {NoConn}
    /\ room \in 0..MaxBatch
    /\ curr_state \in ReadResults
    /\ s \in [Conns -> Session]
    /\ box \subseteq Mails
    /\ connections \in Nat
    /\ full \subseteq Conns

\* No lost wake-up: while replies wait in the write buffer the descriptor is watched
\* for writing, so a session is never left asleep with an answer in it, and recv()
\* only runs when everything was sent (client_read sets OP_WRITE for every command,
\* client_write sets OP_READ when the buffer is drained).
FlowControl ==
    \A c \in Conns :
        /\ s[c].stm \in {"AUTH", "TRANSACTION"} /\ s[c].interest = "READ" => s[c].wb = <<>>
        /\ s[c].stm \in {"NULL", "UPDATE"} => s[c].interest = "WRITE"

\* While client_read runs the commands of a read, the write buffer holds exactly one
\* reply for each command already run: a pipelining client can match them.
OneReplyPerCommand ==
    \A c \in Conns : server = "running" /\ cur = c => Len(s[c].wb) = MaxBatch - room

\* A session works on a mail directory while its machine is past AUTH, and while the
\* batch of commands being read has taken curr_state there: comparator selects the
\* handlers by curr_state, not by the machine.
Working(c) ==
    \/ Selected(c)
    \/ cur = c /\ curr_state \in {"TRANSACTION", "READING_MAIL", "UPDATE"}

\* A session works on a mail directory only while the user it is bound to is the one
\* whose password validate_user accepted, whatever commands came in one read: PASS in
\* a batch that falls back to AUTH leaves credentials->pass set, and a USER after it
\* must not take the directory of somebody else.
MailOnlyAfterLogin ==
    \A c \in Conns : Working(c) => s[c].user \in Accounts /\ s[c].pass = s[c].user

\* Once PASS was answered "+OK Logged in" the session stays logged in.
LoginSticks ==
    \A c \in Conns : s[c].pass # NoUser /\ cur # c => Selected(c)

\* What a session of user u knows of its directory is about files of u.
OwnFilesOnly ==
    \A c \in Conns : \A i \in DOMAIN s[c].mails : Owner[s[c].mails[i]] = s[c].user

\* The directory of u belongs to one session at a time, as RFC 1939 asks of a maildrop
\* (the server takes no lock): one connection may name u, and nothing is delivered.
Alone(u) ==
    /\ \A m \in Late : Owner[m] # u
    /\ \A c, d \in Conns : u \in Login[c] \cap Login[d] => c = d

\* The answer to STAT counts the files of the user, of those a listing can hold, that
\* were not sent DELE for, and their octets, in a directory nobody else uses.
StatAnswersMaildrop ==
    \A c \in Conns : \A i \in DOMAIN s[c].wb :
        s[c].stm = "TRANSACTION" /\ s[c].wb[i].kind = "stat" /\ Alone(s[c].user) =>
            LET kept == {Loaded(s[c].user)[j] : j \in DOMAIN Loaded(s[c].user)} \ s[c].marked
            IN  s[c].wb[i].n = Cardinality(kept) /\ s[c].wb[i].octets = Octets[kept]

Quits(c) == s[c].stm = "TRANSACTION" /\ s'[c].stm = "UPDATE"

RemovedByItsQuit(m) == \E c \in Conns : Quits(c) /\ m \in s[c].marked

\* A file of a directory nobody else uses disappears only when the session that named
\* it in DELE, and did not RSET since, quits: the flags are positions, and the
\* positions of the last load_mails still mean the same files.
RemovesOnlyMarked == \A m \in box \ box' : Alone(Owner[m]) => RemovedByItsQuit(m)
OnlyMarkedRemoved == [][RemovesOnlyMarked]_vars

\* The same of every directory, shared or not.
SharedOnlyMarkedRemoved == [][\A m \in box \ box' : RemovedByItsQuit(m)]_vars

\* QUIT removes every file the session named in DELE and did not RESET, in a directory
\* nobody else uses.
QuitRemovesMarked ==
    [][\A c \in Conns : Quits(c) /\ Alone(s[c].user) => s[c].marked \cap box' = {}]_vars

\* Closing the connection, an I/O error, a transfer that fails or QUIT before the
\* login never remove a file; QUIT of a logged-in session removes files of its user only.
RemovesOnlyOwn == \A m \in box \ box' : \E c \in Conns : Quits(c) /\ Owner[m] = s[c].user
RemovedByOwnQuit == [][RemovesOnlyOwn]_vars

\* `connections' never drops below the sessions that are alive: no path decrements it
\* twice for one accept.
CountsLiveSessions == Cardinality(Live) <= connections

\* No sequence of commands makes load_mails loop for ever.
NoEndlessLoop == server # "empty_maildir"

\* QUIT ends the session of a client that goes on reading: after UPDATE the connection
\* is closed, unless the process stops.
QuitCloses ==
    \A c \in Readers : s[c].stm = "UPDATE" ~> s[c].stm = "CLOSED" \/ server # "running"

\* Every reply to a client that goes on reading leaves, whatever the others do: a write
\* buffer that is not empty is drained, or the session goes on to its transfer or its
\* end, or the process stops.
RepliesDrain ==
    \A c \in Readers :
        s[c].stm \in {"AUTH", "TRANSACTION"} /\ s[c].wb # <<>> ~>
            \/ s[c].wb = <<>> \/ s[c].stm \in {"READING_MAIL", "UPDATE", "CLOSED"}
            \/ server # "running"
=============================================================================
