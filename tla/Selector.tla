------------------------------ MODULE Selector ------------------------------
(***************************************************************************)
(* The multiplexer of selector.c and the callbacks of pop3nio.c and        *)
(* monitornio.c as far as they act on descriptors: the table of items, the *)
(* fd_sets select() is given, one step of handle_iteration after the       *)
(* other, and the kernel's numbering of descriptors (the lowest free one). *)
(* main ends the loop after a SIGTERM and unregisters what is left.        *)
(*                                                                         *)
(* A session is named by the number of its socket.  What a callback reads  *)
(* or writes is left out: its outcomes are the calls it may make on the    *)
(* selector.  Nothing calls selector_notify_block, so there are no jobs.   *)
(***************************************************************************)
EXTENDS Naturals, FiniteSets

CONSTANTS
    ITEMS_MAX_SIZE,  \* FD_SETSIZE
    MAX_SOCKS,       \* the elements selector_new is asked for
    MaxFd,           \* the largest number the kernel gives to a descriptor
    Passive,         \* listening sockets
    Monitors,        \* those of the monitor
    Other            \* descriptors open and never registered (0, 1 and 2)

Fds == 0..MaxFd

\* The listening sockets are opened before any connection is accepted, and 0 is not free.
SelectorAssumption ==
    /\ ITEMS_MAX_SIZE \in Nat /\ MAX_SOCKS \in Nat /\ MaxFd \in Nat
    /\ MaxFd < ITEMS_MAX_SIZE
    /\ Monitors \subseteq Passive
    /\ Passive \subseteq Fds /\ Other \subseteq Fds /\ Passive \cap Other = {}
    /\ 0 \in Other
    /\ \A p \in Passive, f \in Fds \ (Passive \cup Other) : p < f

ASSUME SelectorOK == SelectorAssumption

VARIABLES
    sel,              \* struct fdselector: fds, fd_size, max_fd, master_r, master_w
    slave_r, slave_w, \* what the last select() reported
    pc,               \* in pselect(), at a test of handle_iteration, or at the end of main
    i, n,             \* loop variables of handle_iteration and of selector_destroy
    done,             \* set by sigterm_handler
    open,             \* open descriptors
    selected,         \* selected[c]: selected_mail_fd of session c, 0 before the first RETR
    transfer,         \* sessions in READING_MAIL or WRITING_MAIL
    seen              \* history: items registered since select() was called

vars == <<sel, slave_r, slave_w, pc, i, n, done, open, selected, transfer, seen>>

Ops == {"READ", "WRITE"}
Item ==
    [handler : {"unused", "passive", "pop3", "mail", "monitor"}, interest : SUBSET Ops,
     data : Fds]
Unused == [handler |-> "unused", interest |-> {}, data |-> 0]

Used(t, f) == t.fds[f].handler # "unused"
Sessions == {c \in Fds : sel.fds[c].handler = "pop3"}
Admins == {c \in Fds : sel.fds[c].handler = "monitor"}

-----------------------------------------------------------------------------
(* The table. *)

\* The power of two above n, capped, and one more.
next_capacity(m) ==
    LET p == CHOOSE p \in {2 ^ k : k \in 0..m} : m < p /\ (m = 0 \/ p <= 2 * m)
    IN  (IF p > ITEMS_MAX_SIZE THEN ITEMS_MAX_SIZE ELSE p) + 1


\* ensure_capacity: the new items are unused.
ensure_capacity(t, m) ==
    IF m < t.fd_size THEN t
    ELSE [t EXCEPT !.fd_size = next_capacity(m),
                   !.fds = [f \in Fds |-> IF f < t.fd_size THEN t.fds[f] ELSE Unused]]

\* Fault: the last item is left out.
items_max_fd_short(t) ==
    LET used == {f \in Fds : f < t.max_fd /\ Used(t, f)}
    IN  IF used = {} THEN 0 ELSE CHOOSE f \in used : \A g \in used : g <= f

\* The largest number in use, 0 when there is none.
items_max_fd(t) ==
    LET used == {f \in Fds : f <= t.max_fd /\ Used(t, f)}
    IN  IF used = {} THEN 0 ELSE CHOOSE f \in used : \A g \in used : g <= f

items_update_fdset_for_fd(t, f) ==
    [t EXCEPT !.master_r = IF "READ" \in t.fds[f].interest THEN @ \cup {f} ELSE @ \ {f},
              !.master_w = IF "WRITE" \in t.fds[f].interest THEN @ \cup {f} ELSE @ \ {f}]

\* The item of f is written, and the largest number and the sets follow.
Fill(t, f, h, ops, d) ==
    items_update_fdset_for_fd(
        [t EXCEPT !.fds[f] = [handler |-> h, interest |-> ops, data |-> d],
                  !.max_fd = IF f > @ THEN f ELSE @], f)

\* The tables selector_register may leave.  The table grows when f > fd_size, so f =
\* fd_size is an item past its end: what is there may look used or not.
selector_register(t, f, h, ops, d) ==
    LET g == IF f > t.fd_size THEN ensure_capacity(t, f) ELSE t
    IN  IF Used(g, f) THEN {g}
        ELSE {Fill(g, f, h, ops, d)} \cup (IF f = g.fd_size THEN {g} ELSE {})

selector_unregister_fd(t, f) ==
    IF ~Used(t, f) THEN t
    ELSE LET g == items_update_fdset_for_fd([t EXCEPT !.fds[f].interest = {}], f)
             h == [g EXCEPT !.fds[f] = Unused]
         IN  [h EXCEPT !.max_fd = items_max_fd(h)]

selector_set_interest(t, f, ops) ==
    IF ~Used(t, f) THEN t
    ELSE items_update_fdset_for_fd([t EXCEPT !.fds[f].interest = ops], f)

-----------------------------------------------------------------------------
(* The loop. *)

selector_new ==
    ensure_capacity([fds |-> [f \in Fds |-> Unused], fd_size |-> 0, max_fd |-> 0,
                     master_r |-> {}, master_w |-> {}], MAX_SOCKS)

\* The listening sockets are registered before the loop; no other table is reached.
Init ==
    /\ sel = LET t == selector_new
             IN  [t EXCEPT !.fds = [f \in Fds |->
                                IF f \in Passive
                                THEN [handler |-> "passive", interest |-> {"READ"}, data |-> 0]
                                ELSE Unused],
                           !.max_fd = IF Passive = {} THEN 0
                                      ELSE CHOOSE f \in Passive : \A g \in Passive : g <= f,
                           !.master_r = Passive]
    /\ slave_r = {} /\ slave_w = {}
    /\ pc = "select" /\ i = 0 /\ n = 0 /\ done = FALSE
    /\ open = Passive \cup Other
    /\ selected = [f \in Fds |-> 0]
    /\ transfer = {} /\ seen = {}

\* pselect() has reported R and W; handle_iteration starts.
Reported(R, W) ==
    /\ pc = "select"
    /\ slave_r' = R /\ slave_w' = W
    /\ pc' = "read" /\ i' = 0 /\ n' = sel.max_fd
    /\ seen' = {f \in Fds : Used(sel, f)}
    /\ UNCHANGED <<sel, done, open, selected, transfer>>

\* Some of the descriptors up to max_fd that the master sets name are ready.
selector_select ==
    \E R \in SUBSET {f \in sel.master_r : f <= sel.max_fd},
       W \in SUBSET {f \in sel.master_w : f <= sel.max_fd} :
        R \cup W # {} /\ Reported(R, W)

\* Fault: pselect() is given no timeout.
Timeout_none == FALSE

\* None is, for the time in master_t.
Timeout == Reported({}, {})

\* sigterm_handler runs in the handlers, or after main tested done and before pselect().
sigterm_handler ==
    /\ ~done /\ pc \in {"select", "read", "write"}
    /\ done' = TRUE
    /\ UNCHANGED <<sel, slave_r, slave_w, pc, i, n, open, selected, transfer, seen>>

\* It runs in pselect(), which ends with EINTR.
Interrupted ==
    /\ pc = "select" /\ pc' = "destroy"
    /\ done' = TRUE
    /\ i' = 0
    /\ UNCHANGED <<sel, slave_r, slave_w, n, open, selected, transfer, seen>>

\* Fault: only the interest is tested.
Ready_unreported(op) ==
    /\ op = "READ" => pc = "read"
    /\ op = "WRITE" => pc = "write"
    /\ op \in sel.fds[i].interest

\* The tests of handle_iteration for the item of this turn.
Ready(op) ==
    /\ op = "READ" => pc = "read" /\ i \in slave_r
    /\ op = "WRITE" => pc = "write" /\ i \in slave_w
    /\ op \in sel.fds[i].interest

\* Fault: the loop goes one item beyond the largest number.
Advance_beyond ==
    \/ pc = "read" /\ pc' = "write" /\ UNCHANGED <<i, n, slave_r, slave_w>>
    \/ pc = "write" /\ i <= n /\ pc' = "read" /\ i' = i + 1 /\ UNCHANGED <<n, slave_r, slave_w>>
    \/ pc = "write" /\ i > n /\ pc' = "select" /\ i' = 0 /\ n' = 0 /\ slave_r' = {} /\ slave_w' = {}

\* The next test, or the end of the iteration and the test of main.
Advance ==
    \/ /\ pc = "read"
       /\ pc' = "write"
       /\ UNCHANGED <<i, n, slave_r, slave_w>>
    \/ /\ pc = "write" /\ i < n
       /\ pc' = "read" /\ i' = i + 1
       /\ UNCHANGED <<n, slave_r, slave_w>>
    \/ /\ pc = "write" /\ i = n
       /\ pc' = (IF done THEN "destroy" ELSE "select") /\ i' = 0 /\ n' = 0
       /\ slave_r' = {} /\ slave_w' = {}

Skip ==
    /\ \/ pc = "read" /\ ~Ready("READ")
       \/ pc = "write" /\ ~Ready("WRITE")
    /\ Advance
    /\ UNCHANGED <<sel, done, open, selected, transfer, seen>>

\* A callback ran and left the table as one of T.
Called(T) ==
    /\ \E t \in T : sel' = t
    /\ seen' = {f \in seen : Used(sel', f)}
    /\ Advance
    /\ UNCHANGED done

-----------------------------------------------------------------------------
(* The callbacks. *)

Free == Fds \ open
Lowest == CHOOSE f \in Free : \A g \in Free : f <= g

\* pop3_passive_accept: the new socket is closed again if it could not be registered.
pop3_passive_accept ==
    /\ Ready("READ") /\ sel.fds[i].handler = "passive" /\ i \notin Monitors
    /\ Free # {}
    /\ Called(selector_register(sel, Lowest, "pop3", {"WRITE"}, Lowest))
    /\ open' = IF sel'.fds[Lowest].handler = "pop3" THEN open \cup {Lowest} ELSE open
    /\ selected' = [selected EXCEPT ![Lowest] = 0]
    /\ UNCHANGED transfer

\* accept() fails without a free descriptor, and when the client has left before, and the
\* process dies in pop3_destroy(NULL).
AcceptFails ==
    /\ Ready("READ") /\ sel.fds[i].handler = "passive" /\ i \notin Monitors
    /\ pc' = "dead"
    /\ UNCHANGED <<sel, slave_r, slave_w, i, n, done, open, selected, transfer, seen>>

\* The callback is that of session c: its socket or its message file.
Key(c, op) ==
    /\ Ready(op) /\ sel.fds[i].handler \in {"pop3", "mail"}
    /\ sel.fds[i].data = c

\* Fault: the message file stays registered.
pop3_done_keeps_mail(c) ==
    /\ Called({selector_unregister_fd(sel, c)})
    /\ open' = open \ {c}
    /\ selected' = [selected EXCEPT ![c] = 0]
    /\ transfer' = transfer \ {c}

\* pop3_done: the last message file and the socket are unregistered, the socket closed.
pop3_done(c) ==
    /\ LET t == IF selected[c] # 0 THEN selector_unregister_fd(sel, selected[c]) ELSE sel
       IN  Called({selector_unregister_fd(t, c)})
    /\ open' = open \ {c}
    /\ selected' = [selected EXCEPT ![c] = 0]
    /\ transfer' = transfer \ {c}

\* client_read: an unfinished command, a reply, or the end of the session.
client_read(c) ==
    /\ Key(c, "READ") /\ c \notin transfer
    /\ \/ /\ Called({sel, selector_set_interest(sel, c, {"WRITE"})})
          /\ UNCHANGED <<open, selected, transfer>>
       \/ pop3_done(c)

\* client_read of RETR: open() of the file, and reading_init registers it.
client_read_retr(c) ==
    /\ Key(c, "READ") /\ c \notin transfer
    /\ Free # {}
    /\ Called(selector_register(selector_set_interest(sel, c, {"WRITE"}),
                                Lowest, "mail", {"READ"}, c))
    /\ open' = open \cup {Lowest}
    /\ selected' = [selected EXCEPT ![c] = Lowest]
    /\ transfer' = transfer \cup {c}

client_write(c) ==
    /\ Key(c, "WRITE") /\ c \notin transfer
    /\ \/ /\ Called({sel, selector_set_interest(sel, c, {"READ"})})
          /\ UNCHANGED <<open, selected, transfer>>
       \/ pop3_done(c)

\* filesystem_read runs for either descriptor of the session.
filesystem_read(c) ==
    /\ Key(c, "READ") /\ c \in transfer
    /\ \/ /\ Called({selector_set_interest(sel, i, {"WRITE"})})
          /\ UNCHANGED <<open, selected, transfer>>
       \/ pop3_done(c)

\* mail_write, too: some bytes remain; or none does, and reading_init registers the file
\* again when the machine comes from WRITING_MAIL.
mail_write(c) ==
    /\ Key(c, "WRITE") /\ c \in transfer
    /\ \/ /\ LET t == selector_set_interest(sel, i, {"READ"})
             IN  Called({sel, t} \cup selector_register(t, selected[c], "mail", {"READ"}, c))
          /\ UNCHANGED <<open, selected, transfer>>
       \/ pop3_done(c)

\* mail_write with the terminator queued: the file is unregistered, and stays open.
mail_write_done(c) ==
    /\ Key(c, "WRITE") /\ c \in transfer
    /\ \E ops \in {{"READ"}, sel.fds[i].interest} :
        Called({selector_unregister_fd(selector_set_interest(sel, i, ops),
                                       selected[c])})
    /\ transfer' = transfer \ {c}
    /\ UNCHANGED <<open, selected>>

\* monitor_passive_accept: as above, but when accept() fails nothing happens.
monitor_passive_accept ==
    /\ Ready("READ") /\ sel.fds[i].handler = "passive" /\ i \in Monitors
    /\ \/ /\ Free # {}
          /\ Called(selector_register(sel, Lowest, "monitor", {"READ"}, Lowest))
          /\ open' = IF sel'.fds[Lowest].handler = "monitor" THEN open \cup {Lowest} ELSE open
       \/ Called({sel}) /\ UNCHANGED open
    /\ UNCHANGED <<selected, transfer>>

\* Fault: the socket is closed and stays registered.
monitor_end_registered(c) ==
    /\ Called({sel})
    /\ open' = open \ {c}
    /\ UNCHANGED <<selected, transfer>>

\* monitor_end: the socket is unregistered, which frees the connection, and closed.
monitor_end(c) ==
    /\ Called({selector_unregister_fd(sel, c)})
    /\ open' = open \ {c}
    /\ UNCHANGED <<selected, transfer>>

\* monitor_read: a part of a request, the whole of it, or nothing to read.
monitor_read(c) ==
    /\ Ready("READ") /\ i = c
    /\ \/ /\ Called({sel, selector_set_interest(sel, c, {"WRITE"})})
          /\ UNCHANGED <<open, selected, transfer>>
       \/ monitor_end(c)

\* monitor_write: a part of the answer, or the end of it.
monitor_write(c) ==
    /\ Ready("WRITE") /\ i = c
    /\ \/ /\ Called({sel})
          /\ UNCHANGED <<open, selected, transfer>>
       \/ monitor_end(c)

Callback ==
    \/ pop3_passive_accept \/ AcceptFails \/ monitor_passive_accept
    \/ \E c \in Sessions :
        \/ client_read(c) \/ client_read_retr(c) \/ client_write(c)
        \/ filesystem_read(c) \/ mail_write(c) \/ mail_write_done(c)
    \/ \E c \in Admins : monitor_read(c) \/ monitor_write(c)

-----------------------------------------------------------------------------
(* The end of main. *)

\* Fault: the loop goes up to max_fd, which falls as the items go.
selector_destroy_short ==
    /\ pc = "destroy"
    /\ IF i < sel.max_fd
       THEN sel' = selector_unregister_fd(sel, i) /\ i' = i + 1 /\ UNCHANGED <<pc, open>>
       ELSE pc' = "stopped" /\ open' = open \ Passive /\ UNCHANGED <<sel, i>>
    /\ UNCHANGED <<slave_r, slave_w, n, done, selected, transfer, seen>>

\* selector_destroy unregisters the items one after the other, which frees the sessions
\* and connections; then main closes the listening sockets.
selector_destroy ==
    /\ pc = "destroy"
    /\ IF i < sel.fd_size /\ i \in Fds
       THEN sel' = selector_unregister_fd(sel, i) /\ i' = i + 1 /\ UNCHANGED <<pc, open>>
       ELSE pc' = "stopped" /\ open' = open \ Passive /\ UNCHANGED <<sel, i>>
    /\ UNCHANGED <<slave_r, slave_w, n, done, selected, transfer, seen>>

\* The process has ended.
Ended == pc \in {"dead", "stopped"} /\ UNCHANGED vars

Loop == Timeout \/ Skip \/ Callback \/ selector_destroy

Next == selector_select \/ Loop \/ sigterm_handler \/ Interrupted \/ Ended

\* main runs on: a callback returns, and pselect() at the latest after its timeout.
Fairness == WF_vars(Loop)

Spec == Init /\ [][Next]_vars
FairSpec == Spec /\ Fairness

-----------------------------------------------------------------------------
(* Properties. *)

\* Every variable has its type.
TypeOK ==
    /\ sel \in [fds : [Fds -> Item], fd_size : Nat, max_fd : Fds,
                master_r : SUBSET Fds, master_w : SUBSET Fds]
    /\ slave_r \subseteq Fds /\ slave_w \subseteq Fds
    /\ pc \in {"select", "read", "write", "dead", "destroy", "stopped"}
    /\ n \in Fds /\ i \in 0..(IF pc \in {"destroy", "stopped"} THEN MaxFd + 1 ELSE n)
    /\ done \in BOOLEAN
    /\ open \subseteq Fds
    /\ selected \in [Fds -> Fds]
    /\ transfer \subseteq Fds /\ seen \subseteq Fds

\* select() is given exactly the interests of the items: none is missed because max_fd or
\* a master set lags behind, none is left from an item that was unregistered.
WatchesInterests ==
    \A f \in Fds :
        /\ "READ" \in sel.fds[f].interest <=> f \in sel.master_r /\ f <= sel.max_fd
        /\ "WRITE" \in sel.fds[f].interest <=> f \in sel.master_w /\ f <= sel.max_fd

\* A registered descriptor is open: select() never fails with EBADF, which would end the
\* server (a descriptor is closed only after it was unregistered).
NoBadDescriptor == \A f \in Fds : Used(sel, f) => f \in open

\* While the loop runs no callback can reach a session that was destroyed: an item points to
\* a session that is registered, and a message file to the session that is sending it.
NoDanglingSession ==
    pc # "destroy" => \A f \in Fds :
        /\ sel.fds[f].handler \in {"pop3", "monitor"} => sel.fds[f].data = f
        /\ sel.fds[f].handler = "mail" =>
            /\ sel.fds[f].data \in Sessions \cap transfer
            /\ selected[sel.fds[f].data] = f

\* A callback of a socket runs only for a readiness select() reported of that very
\* socket, never for one that was closed in the same iteration and had its number: a
\* recv() of a socket that has nothing to read would end the session.
SocketEventsFresh ==
    (Ready("READ") \/ Ready("WRITE")) /\ sel.fds[i].handler \in {"pop3", "monitor", "passive"}
        => i \in seen

\* selector_register makes sure of the room for the item it writes: the item of every
\* registered descriptor is inside the table.
ItemsInTable == \A f \in Fds : Used(sel, f) => f < sel.fd_size

\* A server that ended in good order has unregistered every descriptor, which frees what its
\* item points to, although max_fd falls while selector_destroy goes through the table.
AllClosed == pc = "stopped" => \A f \in Fds : ~Used(sel, f)

\* A SIGTERM ends the server, even one that comes between the test of done and pselect(),
\* which does not interrupt it.
Stops == done ~> pc \in {"stopped", "dead"}
=============================================================================
