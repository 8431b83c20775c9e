------------------------------- MODULE Monitor -------------------------------
(***************************************************************************)
(* The monitor: the request parser of monitor.c, the connections, actions  *)
(* and administrators of monitornio.c, the list of POP3 users of           *)
(* pop3nio.c, and the program under client/ at the other end.              *)
(*                                                                         *)
(* A recv() returns one byte here: a longer one is the same calls of       *)
(* monitor_parser_feed in a row, and nothing runs between them.  The call  *)
(* that feeds the last byte also runs monitor_action and queues the reply. *)
(* TCP delivers what one send() took in one piece or, when a send() took a *)
(* part, in several.                                                       *)
(*                                                                         *)
(* Names, tokens, passwords and paths are sequences of bytes because the   *)
(* parser is about where each byte goes: union data is one array, with the *)
(* user at its start and the token or password MAX_NAME further.  A byte   *)
(* that is written beyond the struct is kept, at the place it went to.     *)
(***************************************************************************)
EXTENDS Integers, Sequences, FiniteSets

CONSTANTS
    Conns,        \* places for the connections of clients
    BYTE,         \* a byte has the values 0..BYTE-1 (256)
    Letters,      \* bytes IS_ALNUM accepts
    Digits,       \* bytes IS_NUM accepts
    Slash,        \* the byte '/'
    TOKEN_SIZE, MAX_NAME, MAX_PATH, MAX_PASS_LEN, MAX_ADMIN, max_pool,
    Padding,      \* bytes of struct monitor after union data (3 in the build)
    Asks,         \* Asks[c]: the requests the client on c may make
    Hasty,        \* places whose client may be interrupted
    MaxRuns,      \* bound on the runs of the client
    Root,         \* the default administrator, [user, token]
    Foo           \* the default user, [user, pass]

Bytes == 0..BYTE - 1
String == Seq(Bytes \ {0})

\* enum monitor_req_type, the targets of a GET, enum monitor_config_type.
get == 0
config == 1
DataTargets == 0..2
config_maildir == 0
config_buf_size == 1
add_admin == 2
remove_admin == 3
add_pop3 == 4
remove_pop3 == 5
ConfigTargets == 0..5

\* enum response_code_status.
success == 0
unsuported_ver == 1
no_such_method == 2
no_such_target == 3
invalid_data == 4
invalid_auth == 5
Statuses == 0..6

Request ==
    [ver : Bytes, token : String, type : Bytes, target : Bytes,
     name : Seq(Bytes), secret : String]

Adds(r) == r.type = config /\ r.target \in {add_admin, add_pop3}
Removes(r) == r.type = config /\ r.target \in {remove_admin, remove_pop3}

\* The field data of a request; for an account, the name, a separator and the secret.
Data(r) == IF Adds(r) THEN r.name \o <<0>> \o r.secret ELSE r.name

\* parse_args: the lengths the client program lets through.  A GET has one byte of data, or
\* none after an option the program does not know.  It lets a name of USERNAME_SIZE bytes
\* through, for which the server's MAX_NAME array has no room for the 0.  It never sends a
\* buffer size or an unknown target: those requests stand for another program, which keeps
\* to the length of a path as well.
parse_args(r) ==
    /\ Len(r.token) = TOKEN_SIZE
    /\ r.type = get => r.name \in {<<>>, <<0>>}
    /\ Adds(r) \/ Removes(r) => Len(r.name) <= MAX_NAME
    /\ Adds(r) => r.name # <<>>
    /\ r.type = config /\ r.target = add_admin => Len(r.secret) = TOKEN_SIZE
    /\ r.type = config /\ r.target = add_pop3 => Len(r.secret) <= MAX_PASS_LEN
    /\ Len(r.name) <= MAX_PATH

Requests == {r \in UNION {Asks[c] : c \in Conns} : parse_args(r)}

\* The longest path fills the union, and its length is one byte; an account lies inside.
ConstantsAssumption ==
    /\ BYTE \in Nat /\ BYTE > 6 /\ MAX_PATH = BYTE - 1
    /\ TOKEN_SIZE \in Nat \ {0} /\ MAX_NAME \in Nat \ {0} /\ MAX_PASS_LEN \in Nat
    /\ MAX_ADMIN \in Nat \ {0} /\ max_pool \in Nat /\ MaxRuns \in Nat /\ Padding \in Nat \ {0}
    /\ 2 * MAX_NAME + 1 + TOKEN_SIZE <= MAX_PATH /\ 2 * MAX_NAME + 1 + MAX_PASS_LEN <= MAX_PATH
    /\ Letters \subseteq Bytes \ {0} /\ Digits \subseteq Letters
    /\ Slash \in Bytes \ (Letters \cup {0})
    /\ \A c \in Conns : \A r \in Asks[c] : r \in Request
    /\ Root \in [user : String, token : String] /\ Foo \in [user : String, pass : String]

ASSUME ConstantsOK == ConstantsAssumption

VARIABLES
    server,         \* "running", or "freed_list" when it used a node it had freed
    conn,           \* conn[c]: struct admin_connection
    cli,            \* cli[c]: the client program and the bytes under way
    admins,         \* all_admin_data[0 .. current_admins - 1]
    clients,        \* the list of POP3 users
    dangling,       \* `clients' still points to the node that was removed
    maildir,        \* path_to_maildir
    combinedlen,    \* combinedlen[0]; combinedlen[1] is used by the call that writes it
    username_len,
    pool,           \* structs in the pool, and pool_size, the code's count of them
    pool_size,
    disturbed,      \* history: connections whose username_len another one changed
    runs            \* runs of the client so far

book == <<admins, clients, dangling, maildir>>
statics == <<combinedlen, username_len>>
pools == <<pool, pool_size>>
vars == <<server, conn, cli, book, statics, pools, disturbed, runs>>

-----------------------------------------------------------------------------
(* The struct of a connection, and strings in its data. *)

Reading == {"version", "token", "method", "target", "dlen", "data"}
Replying == {"finish", "error"}
DataIndex == 0..MAX_PATH - 1
StructIndex == 0..MAX_PATH + Padding - 1

\* union data and the padding after it, which holds nothing but zeros.
Memory == {m \in [StructIndex -> Bytes] : \A k \in StructIndex \ DataIndex : m[k] = 0}

AdminConnection ==
    [st : Reading \cup Replying \cup {"closed"},
     token : Seq(Bytes), type : Bytes, target : Bytes, data : Memory,
     read : Nat, len : Nat, finish_user : BOOLEAN, status : Statuses, wb : Seq(Bytes)]

Zeroed ==
    [st |-> "version", token |-> <<>>, type |-> 0, target |-> 0,
     data |-> [k \in StructIndex |-> 0], read |-> 0, len |-> 0, finish_user |-> FALSE,
     status |-> 6, wb |-> <<>>]

\* The struct is set to zero, one of the pool as well.
new_admin_connection == Zeroed

\* The string at index k: the bytes before the next 0, at the latest the one of the padding.
CString(data, k) ==
    LET end == CHOOSE e \in k..MAX_PATH : data[e] = 0 /\ \A j \in k..e - 1 : data[j] # 0
    IN  [j \in 1..end - k |-> data[k + j - 1]]

name(x) == CString(x.data, 0)
secret(x) == CString(x.data, MAX_NAME)

-----------------------------------------------------------------------------
(* The client program. *)

NoRequest ==
    [ver |-> 1, token |-> <<>>, type |-> get, target |-> 0, name |-> <<0>>, secret |-> <<>>]

\* `buf' is the first byte of the client's buffer, `pieces' how many recv() filled it
\* (2 stands for more).
Client ==
    [st : {"idle", "queued", "connected", "told", "aborted", "gone"}, req : Request,
     out : Seq(Bytes), inn : Seq(Bytes), buf : Bytes, pieces : 0..2]

Idle == [st |-> "idle", req |-> NoRequest, out |-> <<>>, inn |-> <<>>, buf |-> 0, pieces |-> 0]

\* Fault: the bytes of dlen in the order of the host.
serialize_request_swapped(r) ==
    <<r.ver>> \o r.token \o <<r.type, r.target, Len(Data(r)) % BYTE, Len(Data(r)) \div BYTE>>
    \o Data(r)

serialize_request(r) ==
    <<r.ver>> \o r.token \o <<r.type, r.target, Len(Data(r)) \div BYTE, Len(Data(r)) % BYTE>>
    \o Data(r)

\* connect() and send() of the whole request; the connection waits to be accepted.
Send(c) ==
    /\ cli[c].st \in {"idle", "told", "aborted", "gone"} /\ conn[c].st = "closed"
    /\ runs < MaxRuns /\ server = "running"
    /\ \E r \in Asks[c] :
        /\ parse_args(r)
        /\ cli' = [cli EXCEPT ![c] = [Idle EXCEPT !.st = "queued", !.req = r,
                                                  !.out = serialize_request(r)]]
    /\ runs' = runs + 1
    /\ UNCHANGED <<server, conn, book, statics, pools, disturbed>>

\* Fault: the bytes are kept where an earlier recv() put others.
Receive_once(c) ==
    /\ cli[c].st = "connected" /\ cli[c].inn # <<>>
    /\ cli' = [cli EXCEPT ![c].buf = cli[c].inn[Len(cli[c].inn)], ![c].inn = <<>>,
                          ![c].pieces = IF @ = 0 THEN 1 ELSE 2]
    /\ UNCHANGED <<server, conn, book, statics, pools, disturbed, runs>>

\* recv() writes what has arrived at the start of buf, whatever was there.
Receive(c) ==
    /\ cli[c].st = "connected" /\ cli[c].inn # <<>>
    /\ cli' = [cli EXCEPT ![c].buf = Head(cli[c].inn), ![c].inn = <<>>,
                          ![c].pieces = IF @ = 0 THEN 1 ELSE 2]
    /\ UNCHANGED <<server, conn, book, statics, pools, disturbed, runs>>

\* recv() returned 0: process_response reads buf[0].  When no reply came (pieces = 0) it was
\* never written, and `buf' stands for any value.
process_response(c) ==
    /\ cli[c].st = "connected" /\ cli[c].inn = <<>> /\ conn[c].st = "closed"
    /\ cli' = [cli EXCEPT ![c] = [Idle EXCEPT !.st = "told", !.buf = cli[c].buf,
                                              !.pieces = cli[c].pieces]]
    /\ UNCHANGED <<server, conn, book, statics, pools, disturbed, runs>>

\* The server closed with bytes unread, which resets the connection: recv() fails and the
\* client aborts, with the reply or without it.
Reset(c) ==
    /\ cli[c].st = "connected" /\ conn[c].st = "closed" /\ cli[c].out # <<>>
    /\ cli' = [cli EXCEPT ![c] = [Idle EXCEPT !.st = "aborted"]]
    /\ UNCHANGED <<server, conn, book, statics, pools, disturbed, runs>>

\* The client is interrupted.
Interrupt(c) ==
    /\ c \in Hasty /\ cli[c].st = "connected"
    /\ cli' = [cli EXCEPT ![c].st = "gone", ![c].inn = <<>>, ![c].buf = 0, ![c].pieces = 0]
    /\ UNCHANGED <<server, conn, book, statics, pools, disturbed, runs>>

-----------------------------------------------------------------------------
(* Connections. *)

Taken == IF pool = 0 THEN 0 ELSE pool - 1


\* admin_connection_destroy with `left' structs in the pool.  pool_size is never lowered, so
\* in the end every struct is freed instead of kept.
admin_connection_destroy(left) ==
    IF pool_size < max_pool THEN pool' = left + 1 /\ pool_size' = pool_size + 1
    ELSE pool' = left /\ UNCHANGED pool_size

\* monitor_passive_accept, new_admin_connection and monitor_init.
monitor_passive_accept(c) ==
    /\ server = "running" /\ cli[c].st = "queued"
    /\ conn' = [conn EXCEPT ![c] = new_admin_connection]
    /\ cli' = [cli EXCEPT ![c].st = "connected"]
    /\ pool' = Taken
    /\ UNCHANGED <<server, book, statics, pool_size, disturbed, runs>>

\* The socket could not be registered: it is closed and the struct goes back.
AcceptFails(c) ==
    /\ server = "running" /\ cli[c].st = "queued"
    /\ cli' = [cli EXCEPT ![c].st = "connected"]
    /\ admin_connection_destroy(Taken)
    /\ UNCHANGED <<server, conn, book, statics, disturbed, runs>>

\* monitor_end and monitor_close: the descriptor is unregistered and closed.
monitor_end(c) ==
    /\ conn' = [conn EXCEPT ![c] = [Zeroed EXCEPT !.st = "closed", !.status = conn[c].status]]
    /\ disturbed' = disturbed \ {c}
    /\ admin_connection_destroy(pool)

\* recv() fails or returns 0.
ReadFails(c) ==
    /\ server = "running" /\ conn[c].st \in Reading /\ cli[c].st = "gone"
    /\ monitor_end(c)
    /\ UNCHANGED <<server, cli, book, statics, runs>>

\* Fault: the connection stays open when the whole reply was sent.
monitor_write_stays(c) ==
    /\ server = "running" /\ conn[c].st \in Replying /\ cli[c].st # "gone"
    /\ \E k \in 1..Len(conn[c].wb) :
            /\ cli' = [cli EXCEPT ![c].inn = @ \o SubSeq(conn[c].wb, 1, k)]
            /\ conn' = [conn EXCEPT ![c].wb = SubSeq(@, k + 1, Len(@))]
    /\ UNCHANGED <<server, book, statics, pools, disturbed, runs>>

\* monitor_write: send() takes some of the reply; when nothing is left the connection ends.
monitor_write(c) ==
    /\ server = "running" /\ conn[c].st \in Replying
    /\ \/ /\ cli[c].st = "gone"
          /\ monitor_end(c) /\ UNCHANGED cli
       \/ \E k \in 1..Len(conn[c].wb) :
            /\ cli' = [cli EXCEPT ![c].inn =
                        IF cli[c].st = "gone" THEN @ ELSE @ \o SubSeq(conn[c].wb, 1, k)]
            /\ IF k = Len(conn[c].wb)
               THEN monitor_end(c)
               ELSE /\ conn' = [conn EXCEPT ![c].wb = SubSeq(@, k + 1, Len(@))]
                    /\ UNCHANGED <<pools, disturbed>>
    /\ UNCHANGED <<server, book, statics, runs>>

-----------------------------------------------------------------------------
(* What a request does. *)

\* The reply: the status, and a 0 and a 1 for dlen and data (a 0 or a number), enough
\* bytes for it to arrive in three pieces.
Reply(status) == <<status, 0, 1>>

\* The last byte was fed.  What the recv() brought after it stays in the buffer, unused.
Answer(c, x, st, status) ==
    /\ conn' = [conn EXCEPT ![c] = [x EXCEPT !.st = st, !.status = status,
                                             !.wb = Reply(status)]]
    /\ \E out \in {Tail(cli[c].out), <<>>} : cli' = [cli EXCEPT ![c].out = out]
    /\ UNCHANGED <<server, pools, runs>>

Success(c, x) == Answer(c, x, "finish", success)
Refusal(c, x) == Answer(c, x, "finish", invalid_data)

\* monitor_error_handler.
Error(c, x, status) ==
    /\ Answer(c, x, "error", status)
    /\ UNCHANGED <<book, statics, disturbed>>

\* The process used memory it had freed; what comes after is not modelled.
FreedList ==
    /\ server' = "freed_list"
    /\ UNCHANGED <<conn, cli, book, pools, runs>>

\* Fault: tokens beyond current_admins are accepted.
check_monitor_admin_any(token) == token # <<>>

check_monitor_admin(token) == \E k \in DOMAIN admins : admins[k].token = token

\* What strncpy of MAX_NAME bytes leaves for strcmp to read: a name without room for its 0
\* goes on with the token.
AdminName(user, token) ==
    IF Len(user) < MAX_NAME THEN user ELSE SubSeq(user, 1, MAX_NAME) \o token

HasAdmin(user) == \E k \in DOMAIN admins : admins[k].user = user

\* Fault: a name that is there is not looked for.
add_new_admin_twice(c, x) ==
    IF Len(admins) < MAX_ADMIN /\ Len(secret(x)) = TOKEN_SIZE
    THEN /\ admins' = Append(admins, [user |-> AdminName(name(x), secret(x)),
                                      token |-> secret(x)])
         /\ Success(c, x)
    ELSE UNCHANGED admins /\ Refusal(c, x)


add_new_admin(c, x) ==
    IF Len(admins) < MAX_ADMIN /\ Len(secret(x)) = TOKEN_SIZE /\ ~HasAdmin(name(x))
    THEN /\ admins' = Append(admins, [user |-> AdminName(name(x), secret(x)),
                                      token |-> secret(x)])
         /\ Success(c, x)
    ELSE UNCHANGED admins /\ Refusal(c, x)

\* remove_admin: current_admins goes down by one, so it is the last one that goes.
RemoveAdmin(c, x) ==
    IF HasAdmin(name(x))
    THEN admins' = SubSeq(admins, 1, Len(admins) - 1) /\ Success(c, x)
    ELSE UNCHANGED admins /\ Refusal(c, x)

HasUser(user) == \E k \in DOMAIN clients : clients[k].user = user

\* Fault: the new node goes in front of the list, whatever is in it.
register_user_twice(c, x) ==
    /\ clients' = <<[user |-> name(x), pass |-> secret(x)]>> \o clients
    /\ Success(c, x)

\* register_user: a new node at the end, unless the name is there.
register_user(c, x) ==
    IF HasUser(name(x))
    THEN UNCHANGED clients /\ Refusal(c, x)
    ELSE /\ clients' = Append(clients, [user |-> name(x), pass |-> secret(x)])
         /\ Success(c, x)

\* unregister_user: the node is freed and its predecessor linked to the next; the new first
\* node is assigned to the parameter, so `clients' keeps pointing to a freed one.  A name is
\* in the list once.
unregister_user(c, x) ==
    IF HasUser(name(x))
    THEN /\ \E k \in DOMAIN clients :
                /\ clients[k].user = name(x)
                /\ clients' = SubSeq(clients, 1, k - 1) \o SubSeq(clients, k + 1, Len(clients))
                /\ dangling' = (k = 1)
         /\ Success(c, x)
    ELSE UNCHANGED <<clients, dangling>> /\ Refusal(c, x)

\* monitor_action.
monitor_action(c, x) ==
    \/ /\ ~check_monitor_admin(x.token)
       /\ Answer(c, x, "finish", invalid_auth) /\ UNCHANGED book
    \/ /\ check_monitor_admin(x.token)
       /\ \/ x.type = get /\ Success(c, x) /\ UNCHANGED book
          \/ /\ x.type = config /\ x.target = config_maildir
             /\ maildir' = name(x) /\ Success(c, x)
             /\ UNCHANGED <<admins, clients, dangling>>
          \/ /\ x.type = config /\ x.target = config_buf_size
             /\ Success(c, x) /\ UNCHANGED book
          \/ /\ x.type = config /\ x.target = add_admin /\ add_new_admin(c, x)
             /\ UNCHANGED <<clients, dangling, maildir>>
          \/ /\ x.type = config /\ x.target = remove_admin /\ RemoveAdmin(c, x)
             /\ UNCHANGED <<clients, dangling, maildir>>
          \/ /\ x.type = config /\ x.target \in {add_pop3, remove_pop3} /\ dangling
             /\ FreedList
          \/ /\ x.type = config /\ x.target = add_pop3 /\ ~dangling
             /\ register_user(c, x) /\ UNCHANGED <<admins, dangling, maildir>>
          \/ /\ x.type = config /\ x.target = remove_pop3 /\ ~dangling
             /\ unregister_user(c, x) /\ UNCHANGED <<admins, maildir>>

-----------------------------------------------------------------------------
(* The parser: one action for each state, fed with the next byte. *)

Feed(c, st) == server = "running" /\ conn[c].st = st /\ cli[c].out # <<>>
Next_byte(c) == Head(cli[c].out)

\* The parser goes on.
Parsed(c, x) ==
    /\ conn' = [conn EXCEPT ![c] = x]
    /\ cli' = [cli EXCEPT ![c].out = Tail(@)]
    /\ UNCHANGED <<server, book, pools, runs>>

parse_version(c) ==
    /\ Feed(c, "version")
    /\ IF Next_byte(c) = 1
       THEN Parsed(c, [conn[c] EXCEPT !.st = "token"]) /\ UNCHANGED <<statics, disturbed>>
       ELSE Error(c, conn[c], unsuported_ver)

parse_token(c) ==
    /\ Feed(c, "token")
    /\ Parsed(c, [conn[c] EXCEPT !.token = Append(@, Next_byte(c)),
                                 !.st = IF Len(conn[c].token) + 1 = TOKEN_SIZE
                                        THEN "method" ELSE "token"])
    /\ UNCHANGED <<statics, disturbed>>

parse_type(c) ==
    /\ Feed(c, "method")
    /\ LET x == [conn[c] EXCEPT !.type = Next_byte(c), !.st = "target"]
       IN  IF Next_byte(c) \in {get, config}
           THEN Parsed(c, x) /\ UNCHANGED <<statics, disturbed>>
           ELSE Error(c, x, no_such_method)

\* parser_target: a GET ends here, its dlen and data are never read.
parser_target(c) ==
    /\ Feed(c, "target")
    /\ LET x == [conn[c] EXCEPT !.target = Next_byte(c)]
       IN  \/ /\ x.type = get /\ Next_byte(c) \in DataTargets
              /\ monitor_action(c, x) /\ UNCHANGED <<statics, disturbed>>
           \/ /\ x.type = config /\ Next_byte(c) \in ConfigTargets
              /\ Parsed(c, [x EXCEPT !.st = "dlen", !.read = 0, !.len = 2])
              /\ UNCHANGED <<statics, disturbed>>
           \/ /\ Next_byte(c) \notin (IF x.type = get THEN DataTargets ELSE ConfigTargets)
              /\ Error(c, conn[c], no_such_target)

\* parse_dlen: combinedlen is one for all connections.
parse_dlen(c) ==
    /\ Feed(c, "dlen")
    /\ \/ /\ conn[c].read = 0
          /\ combinedlen' = Next_byte(c)
          /\ Parsed(c, [conn[c] EXCEPT !.read = 1])
       \/ /\ conn[c].read = 1
          /\ Parsed(c, [conn[c] EXCEPT !.st = "data", !.read = 0,
                                       !.len = BYTE * combinedlen + Next_byte(c)])
          /\ UNCHANGED combinedlen
    /\ UNCHANGED <<username_len, disturbed>>

\* The byte at index k is written, wherever that is.
Put(data, k, b) == [j \in DOMAIN data \cup {k} |-> IF j = k THEN b ELSE data[j]]

\* Fault: the 0 goes one place further.
Complete_further(c, x, at) ==
    monitor_action(c, [x EXCEPT !.data = Put(@, at + 1, 0), !.finish_user = FALSE])

\* p->read reached p->len: the string is ended and the request is complete.
Complete(c, x, at) ==
    monitor_action(c, [x EXCEPT !.data = Put(@, at, 0), !.finish_user = FALSE])

\* The bytes parse_data accepts for a name, a path or a size.
Accepts(target, b) ==
    CASE target = config_maildir  -> b \in Letters \cup {Slash}
      [] target = config_buf_size -> b \in Digits
      [] OTHER                    -> b \in Letters

\* parse_data of the targets with one string.
parse_data_text(c) ==
    /\ Feed(c, "data") /\ conn[c].target \notin {add_admin, add_pop3}
    /\ LET x == conn[c]
           b == Next_byte(c)
           y == [x EXCEPT !.data = Put(@, x.read, b), !.read = @ + 1]
       IN  \/ Accepts(x.target, b) /\ y.read < x.len /\ Parsed(c, y)
           \/ Accepts(x.target, b) /\ y.read >= x.len /\ Complete(c, y, y.read)
           \/ ~Accepts(x.target, b) /\ Error(c, x, invalid_data)
    /\ UNCHANGED <<statics, disturbed>>

\* parse_data of add_admin and add_pop3, the first 0: the name is over, and its length goes
\* to the static that the other connections use as well.
parse_data_separator(c) ==
    /\ Feed(c, "data") /\ conn[c].target \in {add_admin, add_pop3}
    /\ Next_byte(c) = 0 /\ conn[c].read > 0 /\ ~conn[c].finish_user
    /\ username_len' = conn[c].read + 1
    /\ disturbed' = disturbed \cup
            {d \in Conns \ {c} : conn[d].finish_user /\ username_len' # username_len}
    /\ UNCHANGED combinedlen
    /\ LET x == conn[c]
           y == [x EXCEPT !.data = Put(@, x.read, 0), !.read = @ + 1, !.finish_user = TRUE]
       IN  IF y.read >= x.len THEN Complete(c, y, MAX_NAME + y.read) ELSE Parsed(c, y)

\* The other bytes of an account: the token or password is placed relative to username_len.
parse_data_account(c) ==
    /\ Feed(c, "data") /\ conn[c].target \in {add_admin, add_pop3}
    /\ LET x == conn[c]
           b == Next_byte(c)
           at == IF x.finish_user THEN MAX_NAME + x.read - username_len ELSE x.read
           y == [x EXCEPT !.data = Put(@, at, b), !.read = @ + 1]
       IN  \/ b \in Letters /\ y.read < x.len /\ Parsed(c, y)
           \/ b \in Letters /\ y.read >= x.len /\ Complete(c, y, MAX_NAME + y.read)
           \/ /\ b \notin Letters /\ (b # 0 \/ x.read = 0 \/ x.finish_user)
              /\ Error(c, x, invalid_data)
    /\ UNCHANGED <<statics, disturbed>>

monitor_parser_feed(c) ==
    \/ parse_version(c) \/ parse_token(c) \/ parse_type(c) \/ parser_target(c)
    \/ parse_dlen(c) \/ parse_data_text(c) \/ parse_data_separator(c) \/ parse_data_account(c)

\* PASS of a POP3 session: validate_user walks the list.
validate_user ==
    /\ server = "running" /\ dangling
    /\ server' = "freed_list"
    /\ UNCHANGED <<conn, cli, book, statics, pools, disturbed, runs>>

-----------------------------------------------------------------------------

\* main registers the default user and administrator before the loop.
Init ==
    /\ server = "running"
    /\ conn = [c \in Conns |-> [Zeroed EXCEPT !.st = "closed"]]
    /\ cli = [c \in Conns |-> Idle]
    /\ admins = <<Root>> /\ clients = <<Foo>> /\ dangling = FALSE
    /\ maildir = <<>>
    /\ combinedlen = 0 /\ username_len = 0
    /\ pool = 0 /\ pool_size = 0
    /\ disturbed = {} /\ runs = 0

\* All runs of the client are over, or the process died.
Done ==
    /\ \/ server # "running"
       \/ runs = MaxRuns /\ \A c \in Conns : conn[c].st \in Reading => cli[c].out = <<>>
    /\ UNCHANGED vars

ClientStep(c) == Receive(c) \/ process_response(c) \/ Reset(c)

ServerStep(c) ==
    \/ monitor_passive_accept(c) \/ AcceptFails(c) \/ monitor_parser_feed(c)
    \/ ReadFails(c) \/ monitor_write(c)

Next ==
    \/ \E c \in Conns : Send(c) \/ ClientStep(c) \/ ServerStep(c) \/ Interrupt(c)
    \/ validate_user \/ Done

\* select() reports a readable or writable socket in every iteration, and a client that
\* waits for its reply goes on.
Fairness == \A c \in Conns : WF_vars(ServerStep(c)) /\ WF_vars(ClientStep(c))

Spec == Init /\ [][Next]_vars
FairSpec == Spec /\ Fairness

-----------------------------------------------------------------------------
(* Properties. *)

Account == [user : String, token : String]

\* Every variable has its type: no byte of a request is written beyond union data, but for
\* the 0 after the longest path, which falls into the padding of the struct; the
\* administrators fit in all_admin_data, and the pool holds no more structs than it counts
\* and no more than max_pool.
TypeOK ==
    /\ server \in {"running", "freed_list"}
    /\ conn \in [Conns -> AdminConnection]
    /\ cli \in [Conns -> Client]
    /\ admins \in Seq(Account) /\ Len(admins) <= MAX_ADMIN
    /\ clients \in Seq([user : String, pass : String])
    /\ dangling \in BOOLEAN
    /\ maildir \in String
    /\ combinedlen \in Bytes /\ username_len \in Nat
    /\ pool_size \in 0..max_pool /\ pool \in 0..pool_size
    /\ disturbed \subseteq Conns
    /\ runs \in 0..MaxRuns

\* What the bytes of a request mean, by the RFC of the protocol, and what the server read.
Means(r) ==
    [token |-> r.token, type |-> r.type, target |-> r.target,
     name |-> IF r.type = get THEN <<>> ELSE r.name,
     secret |-> IF Adds(r) THEN r.secret ELSE <<>>]
Understood(x) ==
    [token |-> x.token, type |-> x.type, target |-> x.target, name |-> name(x),
     secret |-> IF Adds(x) THEN secret(x) ELSE <<>>]

AllIn(str, S) == \A k \in DOMAIN str : str[k] \in S

WellFormed(r) ==
    /\ r.ver = 1
    /\ \/ r.type = get /\ r.target \in DataTargets
       \/ /\ r.type = config /\ r.target \in ConfigTargets
          /\ \A k \in DOMAIN r.name : Accepts(r.target, r.name[k])
          /\ Adds(r) => AllIn(r.secret, Letters)

\* The name leaves room for its 0.
ShortName(r) == Adds(r) => Len(r.name) < MAX_NAME

\* A request is carried out if and only if it is well formed, and then with the names and
\* secrets its own bytes say, however the bytes of several connections are mixed: what
\* they share (combinedlen) or share in turn (the struct, taken from the pool) leaves no
\* trace.  It holds unless another connection ended a name of another length meanwhile.
ActsAsAsked ==
    \A c \in Conns : conn[c].st \in Replying =>
        /\ conn[c].st = "finish" <=> WellFormed(cli[c].req)
        /\ conn[c].st = "finish" /\ c \notin disturbed /\ ShortName(cli[c].req) =>
                Understood(conn[c]) = Means(cli[c].req)

\* Nothing changes the accounts or the maildir but a request with the token of one who is
\* an administrator at that moment.
OnlyAdminsChange ==
    [][<<admins, clients, maildir>>' # <<admins, clients, maildir>> =>
        \E c \in Conns :
            /\ conn[c].st \in Reading /\ conn'[c].st = "finish"
            /\ \E k \in DOMAIN admins : admins[k].token = cli[c].req.token]_vars

\* No two administrators have one name, so that removing a name is removing one of them.
OneTokenPerAdmin ==
    \A j, k \in DOMAIN admins : admins[j].user = admins[k].user => j = k

\* A client that got its reply in one piece is told the status the server decided on.
ToldTheTruth ==
    \A c \in Conns : cli[c].st = "told" /\ cli[c].pieces = 1 => cli[c].buf = conn[c].status

\* A client that asked for something, or sent a configuration with data, is not left waiting.
Answered ==
    \A c \in Conns :
        cli[c].st = "connected" /\ (cli[c].req.type = get \/ cli[c].req.name # <<>>) ~>
            cli[c].st \in {"told", "aborted", "gone"} \/ server # "running"

\* The list of users is not used after its first node was freed.
NoFreedList == server # "freed_list"

-----------------------------------------------------------------------------
(* The books of accounts. *)

NoOrder == [op |-> "none", name |-> <<>>, secret |-> <<>>]
Lost == [op |-> "lost", name |-> <<>>, secret |-> <<>>]

Order(r) ==
    [op |-> IF Adds(r) THEN "add" ELSE "remove", name |-> r.name,
     secret |-> IF Adds(r) THEN r.secret ELSE <<>>]

Concerns(r, targets) == r.type = config /\ r.target \in targets

OrderOf(c, targets) ==
    IF conn[c].st = "closed" \/ ~Concerns(cli[c].req, targets) THEN NoOrder
    ELSE IF c \in disturbed \/ ~ShortName(cli[c].req) THEN Lost
    ELSE Order(cli[c].req)

AnswerTo(c, targets) ==
    IF conn[c].st # "finish" \/ ~Concerns(cli[c].req, targets) THEN "none"
    ELSE IF conn[c].status = success THEN "done"
    ELSE IF conn[c].status = invalid_data THEN "refused" ELSE "none"

OrdersFor(targets) == {Order(r) : r \in {q \in Requests : Concerns(q, targets)}}

UserBook == [u \in {clients[k].user : k \in DOMAIN clients} |->
                (CHOOSE n \in {clients[k] : k \in DOMAIN clients} : n.user = u).pass]
AdminBook == [u \in {admins[k].user : k \in DOMAIN admins} |->
                (CHOOSE n \in {admins[k] : k \in DOMAIN admins} : n.user = u).token]

UserTargets == {add_pop3, remove_pop3}
AdminTargets == {add_admin, remove_admin}

Users == INSTANCE AccountBook WITH
    Clerks <- Conns, Orders <- OrdersFor(UserTargets), Limit <- 0, Keep <- {},
    book <- UserBook,
    order <- [c \in Conns |-> OrderOf(c, UserTargets)],
    answer <- [c \in Conns |-> AnswerTo(c, UserTargets)]

Administrators == INSTANCE AccountBook WITH
    Clerks <- Conns, Orders <- OrdersFor(AdminTargets), Limit <- MAX_ADMIN, Keep <- {},
    book <- AdminBook,
    order <- [c \in Conns |-> OrderOf(c, AdminTargets)],
    answer <- [c \in Conns |-> AnswerTo(c, AdminTargets)]

\* The list of POP3 users is a book of accounts: a user comes with register_user and goes
\* with unregister_user, at the order of one request, and its client is told which.
UsersImplementBook == Users!Spec

\* The administrators are one, too: add_admin enters the name and the token of the request
\* that asked for it, while there is a place and the name is new, and remove_admin strikes
\* the name it is given.
AdminsImplementBook == Administrators!Spec
=============================================================================
