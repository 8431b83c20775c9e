# A verification of the POP3 server

TLA+ models of the POP3 server under `src/`, TLC configurations that check them on small
instances, and TLAPS proofs of what holds for every instance. All definitions are
translated from the C code; where a name of the code could be kept, it was.

The server is one process and one thread: `selector_select` waits for descriptors and calls
back into the handlers of the sessions and of the administrators. There are no locks and no data
races; what is hard is the order of the callbacks of many connections, what one `recv()` or
`send()` happens to contain, the state kept between callbacks, and what all connections share:
the mail directory, the table of descriptors, the list of users, two static variables.

## The system

| component | source | state | operations | who it talks to |
|---|---|---|---|---|
| POP3 session | `server/pop3nio.c`, `comparator.c`, `stm.c` | `struct pop3`: machine state, two buffers, user and password, mails, deletion flags, totals; the counter `connections` | accept, `client_read` (a batch of commands), `client_write`, UPDATE, close | selector (interests), mail directory, users list |
| Mail directory | `server/email.c` | the listing `mails`, `max_index`, `mail_qty`, `total_octates` of the session; files on disk | `load_mails` at STAT, LIST, RETR, DELE; `delete_mails` at QUIT | sessions of the same user share the files, other programs deliver to them |
| Message transfer | `server/pop3nio.c`, `buffer.c` | `struct mail_st`, both buffers, the file's offset | `reading_init`, `filesystem_read`, `byte_stuffer`, `mail_write` | two descriptors, socket and file, run the same handlers |
| Selector | `server/selector.c` | table of items, `max_fd`, master and slave sets | register, unregister, set_interest, one iteration | every handler |
| Users list | `server/pop3nio.c` | linked list `clients` | `register_user`, `unregister_user`, `validate_user` | PASS reads it, the monitor changes it |
| Monitor | `server/monitor.c`, `monitornio.c` | a parser and buffers for each connection, two static lengths, administrators, a pool | request parser, `monitor_action`, answer, close | users list, counters, maildir name, its client |
| Monitor client | `client.c`, `client/` | one request, its buffers | check the arguments, connect, send, receive until the close, report the status | monitor |
| Tokenizer | `server/tokenizer.c`, `parser.c` | state of the automaton, three strings and one index | one byte at a time | `client_read` |
| Start and stop | `server.c`, `args.c` | `done` | set-up, loop, SIGTERM, tear-down | selector |
| Unused code, formatting | `hello.c`, `mail_tokenizer.c`, `netutils.c` | | | |

What makes each of them correct:

* session: a login is not lost; nothing reaches a mail directory before it; each command has
  one answer and each answer is sent; QUIT removes the messages that were marked with DELE and
  no others, and nothing else removes any; the counter follows the live sessions.
* transfer: the client gets the bytes of the message in order, up to its terminator, and the
  transfer ends.
* selector: `select()` is given the interests of the registered items, never a closed
  descriptor; no callback runs for a session that was destroyed, or on another one's readiness;
  the items stay within the table; a SIGTERM ends the loop and everything is unregistered.
* monitor, its client and the users list: a request does what its own bytes say, whatever the
  requests of others are doing; only administrators change anything; the users and the
  administrators are those entered and not struck since; the client is told what was done.
* tokenizer: a command is run for each line, with the words of that line, within its memory.

## Modules

| module | what it is |
|---|---|
| `Pop3Session` | sessions, commands, mail directory |
| `MCPop3Session` | its small instances: users, owners, directory order, sizes |
| `Pop3Session_proofs`, `Pop3Commands_proofs` | its theorems: types, flow, login, removal; what one command does |
| `MailTransfer` | one transfer on two buffers and two keys |
| `MultilineReply` | the abstract specification: what RETR promises |
| `MCMailTransfer` | message files for the runs |
| `MailTransfer_proofs` | the theorems about a transfer |
| `Selector` | the table of descriptors, the loop, and the callbacks as far as they act on descriptors |
| `Selector_proofs` | its theorems |
| `Monitor` | the monitor protocol with its client, the administrators and the users list |
| `AccountBook` | the abstract specification: what the monitor promises about a book of accounts |
| `MCMonitor` | the requests and the small alphabet of its run |
| `Monitor_proofs`, `MonitorParse_proofs`, `MonitorBook_proofs` | its proofs: what a step keeps, as lemmas; the types, the parser and the replies; the two books |
| `Tokenizer` | bytes to commands |
| `MCTokenizer` | its small alphabet |
| `Tokenizer_proofs` | its theorems |

`Pop3Session` has the transfer as the single state READING_MAIL, left by `MailDone` or
`MailFails`; `MailTransfer` is what goes on inside that state. `Selector` is the service that
`Pop3Session` and `MailTransfer` assume when they let any registered descriptor with a
matching interest run next. Nothing is shared between the transfers of two sessions but the
selector, so one transfer is modelled alone. `Tokenizer` is what happens between the bytes of a
`recv()` and the complete commands with which `Recv` of `Pop3Session` starts. `Monitor` composes
the server's side of a monitor connection with the client program and with the users list, which
`Pop3Session` has as the constant `Accounts`.

### Pop3Session

`s[c]` is `struct pop3` of connection `c`, `box` the files on disk, `connections` the counter.
`client_read` runs every command of one `recv()` before the machine moves: `Recv` starts it,
each command is one action (`user_handler` ... `rset_handler`) that changes the local
`curr_state`, and `Jump` is the call of `jump()` with its arrival action (`delete_mails` in
UPDATE, `pop3_done` in DONE and ERROR). `cur` names the connection being served: nothing else
runs meanwhile, as in the code. `client_write` is one `send()` of some of the queued
replies. `full` holds the sockets whose send queue lacks the room `select()` asks for: such a
socket is not reported writable until its client reads (`ClientReads`), and no handler of it runs
for as long as replies wait. A handler that reads outside of an array, dies or never returns ends the run in a
named value of `server` (`table_overrun`, `list_overrun`, `no_maildir`, `empty_maildir`,
`accept_failed`); what comes after undefined behaviour is not modelled.

Abstractions: a reply is a record of its kind and numbers; the buffer holds `WbSize` replies
and drops what does not fit, as `write_to_buffer` does; a message is a file name, its size is
`Octets`; `Dir` gives the order of `readdir()`, any that depends on the set of files only. A
batch is a sequence of complete commands; `Tokenizer` is about how they come about. `marked` is a history
variable with the files a session named in DELE; `pass` holds the user whose password was
accepted, for the string `credentials->pass`.

### MailTransfer

A byte is CR, LF, a dot or text, and a file is any sequence of them. Buffers have their two
offsets: only an empty one is compacted, so space before the read pointer is lost, and
`buffer_write` drops what does not fit. `rewrite_terminator` is `delete_n_from_buffer(wb, 5)`
and the five writes after it, also when fewer than five bytes are left. Every handler takes
the key that was ready, `"sock"` or `"mail"`: `selector_set_interest_key` acts on that key,
`send()` always on the socket. `send()` takes any part of the buffer or fails. The client may
send segments (at most `MaxInput` wait unread) and may reset the connection.

`MultilineReply` is the promise: `Begin`, `Send` (a longer prefix of the reply), `Finish` (all
of it was sent), `Close`. Its `Cut` is what the code does besides. The refinement maps `phase`
to the machine's state, `msg` to the reply up to the first terminator of the file, defined
without `byte_stuffer`, and `out` to what `send()` took.

### Selector

`sel` is `struct fdselector`; one step is one `FD_ISSET` test of `handle_iteration` with the
callback it runs, so that callbacks change the table between the tests of one iteration. The
kernel gives the lowest free descriptor, so numbers are reused at once. A callback is its
effect on descriptors: register, unregister, change an interest, open, close; those of the
monitor are there with those of POP3. The message file is never closed, in the model as in the
code. `selector_select` is a `pselect()` that reports something, `Timeout` one that reports
nothing, `Interrupted` one that a SIGTERM ends; `sigterm_handler` is the signal at any other
moment, the one between the test of `done` and `pselect()` included. When `main` sees `done`,
`selector_destroy` unregisters one item of the table after the other.

The table grows in `ensure_capacity`, but only for `fd > fd_size`: for `fd = fd_size` the code
uses the item one past the end of the array, and `selector_register` lets what is read there be
anything. `table_end` is the run in which this happens. In `selector_table` descriptor 5, which is
`fd_size`, is one the server inherited, so that the table has to grow at 6 and the other
properties are checked on a table that grew within its rules. `accept()` fails without a
descriptor, and also with one, when the client has left (`AcceptFails`).

### Monitor

`conn[c]` is `struct admin_connection`, `cli[c]` the client program at the other end with the
bytes under way in both directions. A `recv()` of the server returns one byte: a longer one runs
the same calls of `monitor_parser_feed` in a row, and nothing comes between them. Each state of
the parser is an action (`parse_version` ... `parse_data_account`); the last byte also runs
`monitor_action` and queues the reply. `union data` is an array of bytes with the name at its
start and the token or password MAX_NAME further, because what goes wrong in the parser is where
a byte is put. A write beyond that array is kept at the index it goes to: `Padding` is the number
of bytes the compiler leaves there before anything else begins (3: the union starts at offset 26
of `struct monitor`, its 255 bytes end at 281, and the struct has 284), and `TypeOK` says that
these hold nothing but zeros. `combinedlen` and `username_len` are one for all connections, as in the code;
`disturbed` is a history variable with the connections whose `username_len` was changed by
another one before their own data was complete.

The client sends only what `parse_args` lets through, sees the reply in pieces, may be
interrupted, and aborts when the server's close is a reset. `AcceptFails` is a socket that could
not be registered. `clients` is the list of users; after its first node was freed `dangling` is
set, and the next reader of the list ends the run in `server = "freed_list"`.

`AccountBook` is the promise: orders of clerks, each of which enters or strikes one name, at
once, or is refused for a reason, and the clerk is told which. It is implemented twice: by the
list of users (`UsersImplementBook`) and by the array of administrators
(`AdminsImplementBook`). An order the server cannot read as it was meant (`Lost`) may
enter or strike some other name, a single one: these are the requests in `disturbed` and those
with a name of MAX_NAME letters. An order to remove an administrator is one like the others, and
`remove_admin` does not carry it out: the run `last_admin` is the counterexample.

### Tokenizer

A step is one byte, as the automaton outlives a `recv()` and where a segment ends makes no
difference to it. The actions are the kinds of transitions of `create_parser`; `completed` also
stands for the call of `comparator` and `restart_tokenizer` in `client_read`. `line` is a history
variable, and `Words` says what a line means without the automaton: what comes before its first
space, between the first and the second and between the second and the third, each cut to the
size of its string.

## Runs

| run | instance | what it shows |
|---|---|---|
| `session_maildrops` | 2 connections, one command per read; 2 users: one whose directory is larger than MAX_MAILS = 2 and whom one client alone names, one whom both name and who gets a late file | `TypeOK`, `LoginSticks`, `StatAnswersMaildrop`, `OwnFilesOnly`, `OnlyMarkedRemoved`, `QuitRemovesMarked`, `RemovedByOwnQuit` |
| `session_batches` | 2 connections, up to 3 commands per read, room for 3 replies, send queues that fill up; one client reads, the other need not, and names a user who is unknown; fairness | `CountsLiveSessions`, `FlowControl`, `OneReplyPerCommand`, `MailOnlyAfterLogin`, `QuitCloses`, `RepliesDrain` |
| `mail_transfer` | messages with every beginning of up to 2 bytes, with bytes behind the terminator, without one, longer than the buffer, and with the terminator across two chunks | `TypeOK`, `WatchedWhileSending`, `SendsTheMessage`, `ClosedOnlyIfDisturbed`, `TransferEnds` |
| `selector_table` | 7 descriptors, a listening socket of POP3 and one of the monitor, a table of 5 items that grows | `TypeOK`, `WatchesInterests`, `NoBadDescriptor`, `NoDanglingSession`, `SocketEventsFresh`, `AllClosed`, `Stops` |
| `monitor` | 2 connections, 2 runs of the client, 22 different requests (users, paths and sizes on one connection, administrators and refusals on the other), 2 administrators, a pool of 1 | `TypeOK`, `ActsAsAsked`, `OneTokenPerAdmin`, `ToldTheTruth`, `OnlyAdminsChange`, `UsersImplementBook`, `Answered` |
| `tokenizer` | every sequence of lines of up to 8 bytes over CR, LF, space and two others | `TypeOK`, `OneCommandPerLine`, `ReadsTheLine` |
| `pipelined_login`, `empty_maildir`, `shared_flags`, `table_end`, `freed_list`, `last_admin` | | one disagreement each, below |

The bounds. Two connections are the fewest that interleave, and sessions interact only through
the directory of one user and the stop of the process, both reached with two. A directory with
one file more than MAX_MAILS meets the limit; message numbers go one beyond it. Three commands
in a read let the first change the state, the second act on it and the third find the result;
the buffer has as many places as a read has commands (the real one has 4 MB); what a full
one does is described below. `MaxLeaks` bounds the sessions that `pop3_close`
leaves behind, `MaxArg` the message numbers, `MaxInput` the unread segments. In
`mail_transfer` the buffer is longer than the ordinary messages and shorter than the two long
ones; a transfer with one segment waiting meets both orders of the two keys. In
`selector_table` the free descriptors 3, 4 and 6 let a socket close, and its number return as a
socket and as a file, within one iteration.
`session_maildrops` runs one command per read, because with more of them `LoginSticks` fails
(below), and with four the user may change after the listing was loaded. `Slow` are the connections
whose send queue may fill up, `Readers` those whose client goes on reading: in `session_batches`
both queues may, one client reads, and the other one may stop for ever.

In `monitor` a byte has ten values, so that the longest path (nine bytes) has a length that is
one digit, fills the array and puts its 0 into the padding, and one that is longer is refused by the
client; the names are of
one, two and three (MAX_NAME) letters, so that every difference of two `username_len` occurs. Two
runs are two requests at once or one after the other, which is what the statics and the accounts
need to meet. A reply has three bytes and arrives in one, two or three pieces. In `tokenizer` a
name has room for two bytes and an argument for one: each is reached, filled and cut within eight
bytes, and an error is followed by the end of its line.

Fairness. `Pop3Session` assumes of the server (`ServerFairness`) strong fairness of `client_write`
of each connection and weak fairness of `Jump`: the loop of `main` calls `selector_select` for
ever, `select()` reports every socket that is writable, `handle_iteration` visits every reported
descriptor, and `client_read` is a loop over finitely many bytes. It is strong because between two
events of a connection another one may be in `client_read`. A socket in `full` is not writable, and
`client_write` is not enabled for it, so this alone sends nothing to a client that does not read.
Of the clients (`ClientFairness`) it is assumed that those in `Readers` go on reading; the two
liveness properties are about them, and the others may hold nobody up. `MailTransfer`
assumes that the message file, which is always ready, is served, and that a client that is
there goes on reading its socket, so that sends do not fail for ever: `EAGAIN` is retried in
every iteration. `Selector` assumes that `main` runs on: a callback returns (the endless loop of
`empty_maildir` is the one that does not), and a `pselect()` that reports nothing returns after
the 10 seconds it is given; that some descriptor becomes ready is not assumed. `Monitor` assumes
for each connection that the server serves it while it can be served, as in `Pop3Session`, and that
the client program goes on reading; nothing makes a client come or be interrupted.

Deadlock is checked in every run. A process that stopped, and a connection that was closed,
stutter explicitly.

Each property is also run against a fault, an operator next to the definition it replaces
(`delete_mails_shifted`, `pop3_done_twice`, `rewrite_terminator_two`, ...), to see it fail.

## Where code and documents disagree

Each of these runs ends with a counterexample; the documents quoted are in `PROJECT.json`.

* `pipelined_login` - `invalid_command_handler`, NOOP, RSET, DELE and RETR return
  `stm.current->state`, which moves only after the whole read. `USER`, `PASS` and one of the
  former commands in one segment: the session was told it is logged in and is in AUTH.
* `empty_maildir` - after the last message of a directory was deleted, `max_index = i - 1` is
  UINT_MAX and the loop that follows never ends: the server stops serving.
* `shared_flags` - `dele_flags` are positions of a listing that is loaded again by every
  command. Two sessions of one user: the QUIT of one moves the positions, the QUIT of the
  other removes a message it never named.
* `table_end` - `selector_register` grows the table for `fd > fd_size` only: descriptor number
  `fd_size` is registered in the item behind the last one. With MAX_SOCKS 500 that is descriptor 513.
  The message file of RETR is never closed, so a server that has sent some five hundred messages
  arrives there.
* `last_admin` - `remove_admin` looks for the name and then lowers `current_admins`, which drops the
  last administrator of the array, whoever was named; the client prints that the one named is gone.
* `freed_list` - `unregister_user` assigns the new first node to its parameter: after the first
  user was removed `clients` points to freed memory, which the next PASS reads.

The models show more, and have no run of their own. In the POP3 sessions:

* RETR or QUIT followed by a command in the same read: `comparator` indexes its tables with
  READING_MAIL, UPDATE or DONE (`comparator` of `Pop3Session`, `server = "table_overrun"`).
* `list_handler` uses the message number before it tests it (`list_overrun`), and answers
  twice for a flagged number beyond a listing that shrank under it.
* RSET after a reload answers a sum without the messages it unmarks
  (`original_total_octates`), and before the first load one message of 0 octets.
* QUIT before the login: the reply is queued in the step that closes the connection.
* PASS without a user when the write buffer is full returns 2, READING_MAIL, with
  `selected_mail_fd` 0; this is the behaviour with `WbSize` below `MaxBatch`, which the
  assumption of `LoginBeforeMail` rules out.
* A client that writes while it is sent a message runs `filesystem_read` out of turn: at the
  end of the file the session ends in ERROR, and `pop3_close` does not destroy it when `done`
  is set, so `connections` stays one too high (`MailFails`).
* A message longer than the buffers may lose bytes, when a chunk is read before the previous
  one was sent, and the terminator is not found when it lies across two chunks.
* `send()` that fails with EPIPE is ignored: if the client left with OP_WRITE set on both
  keys the transfer never ends. `TransferEnds` is about clients that are there.
* With the terminator queued, `mail_write` returns to TRANSACTION after one `send()`, however
  little it took, and resets the buffer: a message that `send()` takes in two parts is cut, and the
  session goes on. `SendsTheMessage` names this departure (`Reply!Cut`); the plain promise,
  `Reply!Spec`, has this counterexample.
* `byte_stuffer` does not try the byte that breaks a match as a first one, so it does not see the
  terminator of a message whose last line is empty (CR LF CR LF . CR LF), and the session ends
  in ERROR after a message that was complete. With such a file among those of the run
  `ClosedOnlyIfDisturbed` fails; `LastLineNotEmpty` is the condition of the theorems that rules
  it out.
* A failing `accept()` calls `pop3_destroy(NULL)` (`AcceptFails`).
* The tokenizer runs a command of more than four letters as its first four, drops a fourth
  word and the bytes between CR and LF, and cuts arguments to 40 bytes; nothing is refused.

In the monitor and its client:

* When the data of one connection comes in pieces, and another connection ends a name of another
  length in between, the token or password of the first is put too far to the left or right: it is
  cut, empty or shifted. `add_admin` then finds a wrong length and refuses; `add_pop3` registers
  the user with another password and answers success. Sharing `combinedlen` does no harm as long as
  the data has fewer than 256 bytes, since the first byte of `dlen` is then 0 for everyone.
* The default administrator can be removed, which the client's message for refusals rules out
  (`client/clientresponse.c:80`).
* A name of MAX_NAME letters, which the client accepts, has no room for its 0 in the server: it
  goes on into the token or password, and later requests for the name do not find it.
* A reply that arrives in pieces: each `recv()` of the client writes at the start of `buf`, so the
  status it reports is the first byte of the last piece (`ToldTheTruth` is about one piece).
* When the server closes with bytes unread (the `dlen` and data of a GET, what follows an error),
  the close is a reset and the client may abort without having read the reply; when it ends without
  a reply, the client reports a byte of `buf` that was never written.
* The 0 behind a path of 255 bytes, which the client lets through, is written at
  `change_maildir[255]`, one byte past `union data`. It goes into the padding of `struct monitor`
  and does no harm in this build; with a member behind the union it would.
* A configuration with a `dlen` of 0 (`-d ''`) leaves server and client waiting for each other
  (`Answered` is about requests with data).
* `pool_size` is never lowered, so after five closes no struct enters the pool any more; it is
  harmless. `change_buf_size` answers success and does nothing.
* The protocol allows 65535 bytes of data and `union data` has 255. `Monitor` is about the
  lengths `parse_args` lets through, from the client program (a GET with `dlen` 0 after an unknown
  option included) or another one that keeps to them: its parser stores what comes before the token
  is checked, and what a longer request overwrites has no model.

## Proofs

`Pop3Session_proofs` proves, for all values of the constants that satisfy
`ConstantsAssumption` and `DirAssumption`:

| theorem | statement | also assumes |
|---|---|---|
| `TypeCorrect` | `Spec => []TypeOK` | |
| `ConnectionsBoundLive` | `Spec => []CountsLiveSessions` | |
| `NoLostWakeup` | `Spec => []FlowControl` | |
| `LoginBeforeMail` | `Spec => []MailOnlyAfterLogin` | `WbSize >= MaxBatch` |
| `MarkedRemoval` | `Spec => OnlyMarkedRemoved` | `MaxBatch = 1` |
| `QuitIsComplete` | `Spec => QuitRemovesMarked` | `MaxBatch = 1` |

The last two properties, and `StatAnswersMaildrop`, are about the directory of a user `u` with
`Alone(u)`: one connection alone may name `u`, and no message is delivered to `u` meanwhile. Other
connections may share theirs. Of a directory that two sessions share, `SharedOnlyMarkedRemoved` says
the same, and `shared_flags` is its counterexample.

The invariants, in the order they are used:

* `Base`: the types, `CountsLiveSessions`, and that a read in progress is one of a live
  session in AUTH or TRANSACTION. Flags stay within MAX_MAILS because DELE compares with
  the `max_index` of a listing that `load_mails` cut (`LoadedType`). Every command is one
  kind of step for it (`CommandIsStep`).
* `FlowInv`: `FlowControl`, and that the interest is OP_WRITE in the middle of
  a read, where `curr_state` already is another state than the machine.
* `LoginInv`: `MailOnlyAfterLogin` is about the state of the machine and about the `curr_state` of
  the batch being read, which selects the handlers and runs ahead of the machine. A batch that
  falls back to AUTH keeps `pass`, so the user may change under it, but then the handlers are those
  of AUTH. The invariant adds that there is a place in the buffer for each command still to come,
  on which the result of PASS without a user depends.
* `MarkInv`: in TRANSACTION the listing, if there is one, is what `load_mails` would give now;
  `marked` is the set of files at the flagged positions, and the flags are positions of the
  listing. It speaks of sessions whose user is `Alone`, and is kept because only a session's own QUIT
  changes the files of its user. Both results on removal follow from it.

`Pop3Commands_proofs` adds, under the same assumptions on the constants:

| theorem | statement | also assumes |
|---|---|---|
| `LoginLasts` | `Spec => []LoginSticks` | `MaxBatch = 1` |
| `OwnFiles` | `Spec => []OwnFilesOnly` | `MaxBatch = 1` |
| `OwnRemoval` | `Spec => RemovedByOwnQuit` | `MaxBatch = 1` |
| `StatIsRight` | `Spec => []StatAnswersMaildrop` | `MaxBatch = 1` |
| `AnsweredOnce` | `Spec => []OneReplyPerCommand` | `WbSize >= MaxBatch`, `OneHomeEach` |

`MaxBatch = 1` is a client that waits for each answer. The bound is exact for `LoginLasts`:
`pipelined_login` breaks it with two commands in a read. For these three the sessions may share
directories and files may arrive. `OneHomeEach` says that a connection reaches one mail
directory at most and no other connection reaches that one: LIST answers twice for a flagged
number when the listing shrank under it. Deliveries are allowed there, and batches of any size.

`StepKinds` says once for all of them what a step can be: quiet for every session, or, of one
session, a reset (accept, close), a write, the start of a read, a command that ran, the jump at
the end of a read, the end of a transfer. On it rest

* `ReadInv`: with one command per read `curr_state` is the state of the machine until that
  command has run; `PassInv`: an accepted PASS is followed by TRANSACTION in the machine, or in
  the `curr_state` of a read that has no command left.
* `OwnInv`: a session that is not logged in has no listing, and a listing names files of the
  user of its session.
* `StatInv` with `MarkInv` and `FlowInv`: a count that waits in the buffer belongs to a session
  in TRANSACTION whose read is over. That the unflagged positions are as many as the unmarked
  files is a bijection, as a listing names no file twice (`UnflaggedAreKept`).
* `ReachInv`: the flags stay within the listing the directory would give now; files that arrive
  only make it longer.

`MailTransfer_proofs` proves, for files of any length and buffers of any size:

| theorem | statement | also assumes |
|---|---|---|
| `TransferTypes` | `Spec => []TypeOK` | |
| `FileIsWatched` | `Spec => []WatchedWhileSending` | |
| `MessageIsSent` | `Spec => SendsTheMessage` | `LastLineNotEmpty` |
| `ClosedOnlyThen` | `Spec => ClosedOnlyIfDisturbed` | `LastLineNotEmpty` |

`MessageIsSent` is the refinement of `MultilineReply`, step by step, with the reply that the last
send cuts as the one departure. `MCMailTransfer` states `LastLineNotEmpty` of the files of the run
as an assumption, so the run shows that there are such files. The argument has two parts.

* The stuffer. `After` is a recursive function; `StufferRuns` and `AfterRuns` show by a least
  counterexample that it is the run of the automaton. `StufferIsSound`: its state counts bytes of
  the terminator that were just seen, so what it reports is a terminator. `ScanFinds`: behind a
  line that is not empty its state is 0 (`CountsAnew`), so it stops at the first one.
* The buffers. `PromiseInv` has two phases. Until `filesystem_read` has run (`Before`) the
  reply to RETR is in the write buffer or sent, and nothing else; from then on (`Behind`) what was
  sent followed by what is queued is the whole reply, and `done` is set if the message has
  a terminator. `ReadWhole` is the step between them: a message that fits is read at once,
  nothing is dropped, and the five bytes taken back and written again are the ones that were there.

`Selector_proofs` proves, for all values of the constants that satisfy `SelectorAssumption`
and `Roomy`:

| theorem | statement |
|---|---|
| `TypeCorrect` | `Spec => []TypeOK` |
| `SelectSeesInterests` | `Spec => []WatchesInterests` |
| `NoClosedDescriptor` | `Spec => []NoBadDescriptor` |
| `ItemsHaveOwners` | `Spec => []NoDanglingSession` |
| `EventsAreOwn` | `Spec => []SocketEventsFresh` |
| `StopClosesAll` | `Spec => []AllClosed` |

`Roomy` says that the table of `selector_new(MAX_SOCKS)` has an item for every descriptor the
kernel gives out. With `MAX_SOCKS` 500 it has 513 items, so the theorems are about a server whose
descriptors have numbers below 513, until it leaks the first one beyond; `ItemsInTable` holds
there by that condition and is no theorem, and `table_end` shows what comes next. `SelectorAssumption`
says that the listening sockets have lower numbers than any connection, as `main` opens them
first, and that descriptor 0 is not free.

One invariant, `Inv`, gives all six: `IInv` while the loop runs and `EndInv` from then on.
`TableInv` is about the table alone: an unused item is
blank, a used one is not above `max_fd`, the master sets are the interests; each of
`selector_register`, `selector_unregister_fd` and `selector_set_interest` keeps it. `Owners`
ties items, open descriptors and sessions together; `NoDanglingSession` needs its other half,
that `selected_mail_fd` names the session's own file or an item that is unused again, or
`pop3_done` could unregister what belongs to another session. `LoopInv` is what
`SocketEventsFresh` needs: while a listening socket is still to come in the iteration, nothing
that `select()` reported has been closed, so an accepted socket cannot have a reported number.
Every callback is one of a few kinds for them (an interest, accept, RETR, end of a message, end
of a session, accept and end of an administrator). `EndInv` says that what is still registered lies
at or above the index of `selector_destroy`; `Owners` is given up there, because a socket may go
before the message file of its session, which has no `handle_close`.

`Tokenizer_proofs` proves, for all values of the constants that satisfy `TokenizerAssumption`, so
for sizes 4 and 40 and lines of any length:

| theorem | statement |
|---|---|
| `TypeCorrect` | `Spec => []TypeOK` |
| `CommandIsItsLine` | `Spec => []ReadsTheLine` |
| `LinesAreToldApart` | `Spec => []OneCommandPerLine` |

Its `IInv` says that the strings are the words of the text read so far, how many spaces that text
has in each state, and that `index` is the length of the string being stored. The lemmas before it say what `Place`, `Upto`,
`Past` and `Cut` do when a byte is appended, so that the only induction is that of the behaviour.

The proofs about the monitor are for all values that satisfy `ConstantsAssumption` of `Monitor`, so for any
requests the client program lets through, any number of connections and the real sizes:

| module | theorem | statement |
|---|---|---|
| `MonitorParse_proofs` | `TypeCorrect` | `Spec => []TypeOK` |
| | `OneTokenPerAdminHolds` | `Spec => []OneTokenPerAdmin` |
| | `ToldTheTruthHolds` | `Spec => []ToldTheTruth` |
| | `ActsAsAskedHolds` | `Spec => []ActsAsAsked` |
| | `OnlyAdminsChangeHolds` | `Spec => OnlyAdminsChange` |
| `MonitorBook_proofs` | `UsersImplementBookHolds` | `Spec => UsersImplementBook` |
| | `AdminsImplementBookHolds` | `Spec /\ [][RemovesLast]_vars => AdminsImplementBook` |

* `TypeCorrect` has in it that no byte of a request goes beyond `union data` but the 0 behind the
  longest path, and that the pool holds no more than it counts. A stray byte would be seen, so
  where the parser writes has to follow from what it has read: `InBounds` bounds each index, in
  `Monitor_proofs` every step that starts there keeps the types (`TypeStep`), and `ParseInv` gives
  `InBounds` (`RoomForData`) from the lengths that `parse_args` lets through and a `username_len` of
  at most MAX_NAME + 1 (`PutFits`, `SecretFits`). The two are proved together.
* `OneTokenPerAdmin` is inductive with `AdminsMove`: a step enters a name that no administrator has,
  drops the last one, or leaves them.
* `Telling`: until the client has read anything, the reply that waits in `wb` or is under way
  begins with the status the server decided on; one piece later `buf` holds that status.
* `ParseInv`: in each state of the parser, what was stored and what is still to come are the
  request of this connection (`Progress`); in the data, the bytes are where `username_len` says
  unless the connection is in `disturbed` (`Own`); from the answer on, the status is the outcome of
  the request (`Outcome`). It needs that `combinedlen` is always 0, the high byte of every
  length, which is why sharing it does no harm. `ActsAsAsked` follows from it, and so does
  `OnlyAdminsChange`, with the step that answers a request as its witness.
* The books. A step is one of a few moves of the clerks (one comes, leaves, is told, others are
  garbled), and of the book: an account is entered at its end, one position is struck, or nothing.
  For the users it also takes that no name is in the list twice (`UniqueUsers`); the list the
  book is compared with is the one the server means, and who reads it after its first node was
  freed ends the run. For the administrators the last one is dropped. `RemovesLast` says of a step
  that it carries out a `remove_admin` only with the name of the last one: under it the book is
  kept, so that `last_admin` is the only way in which it is broken.

Only model-checked: the liveness properties (`QuitCloses`, `RepliesDrain`, `TransferEnds`, `Stops`,
`Answered`), because the prover has no rules for fairness. The runs that end with a
counterexample are not proved either; a counterexample needs no proof. All invariants and action
properties of the other runs are theorems, and of the administrators' book what is left of it.

## Plan

Done: `Pop3Session`, `Selector`, `Tokenizer`, `MailTransfer` with `MultilineReply`, `Monitor` with
`AccountBook`, and a theorem for every invariant and action property that a passing run checks. What
is left:

1. Weaker conditions: `AnsweredOnce` for connections that share a directory when no command but
   LIST is in question; `LoginSticks` for batches without the commands that return the state of
   the machine; `Selector` with a table that grows, for descriptors other than `fd_size`.
2. Messages longer than the buffers: how much of them is lost at most.
3. The users list and the maildir as variables of `Pop3Session`, changed by requests.

## Not modelled

* `args.c` and the set-up of `main` in `server.c`: sequential, once, before anything else runs.
  What they leave is `Init` of `Selector`, the default user and administrator `Init` of `Monitor`.
* `netutils.c` is formatting, and so is what the client prints.
* Code that nothing calls: `hello.c`, `mail_tokenizer.c`, `read_mail`, `selector_notify_block` and
  the jobs it would make.
* The counters a GET answers: `connections` is in `Pop3Session`; the other two are sums nothing
  else reads.
* Accounts and maildir are constants of `Pop3Session`. A user who is removed while logged in stays
  logged in; a maildir that changes between DELE and the next command moves the deletion flags to
  the files of another directory, as another session's QUIT does in `shared_flags`.
