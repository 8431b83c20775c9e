------------------------ MODULE Pop3Commands_proofs ------------------------
(***************************************************************************)
(* More proofs about Pop3Session: the login lasts, the directory a session *)
(* works on is its own, STAT counts that directory, and every command of a *)
(* read is answered once.  The invariants share one description of the     *)
(* steps of the system, StepKinds.                                         *)
(***************************************************************************)
EXTENDS Pop3Session_proofs

-----------------------------------------------------------------------------
(* The kinds of steps. *)

Aside(c) == \A d \in Conns \ {c} : s'[d] = s[d]

SameBook(c) ==
    /\ s'[c].user = s[c].user /\ s'[c].pass = s[c].pass /\ s'[c].mails = s[c].mails
    /\ s'[c].flags = s[c].flags /\ s'[c].marked = s[c].marked

\* Nothing happens to a session: a file arrives, or the process stops.
Quiet ==
    /\ UNCHANGED <<s, cur, room, curr_state>>
    /\ server' = server \/ server' # "running"
    /\ \E M \in SUBSET Late : box' = box \cup M

\* The session of c begins or ends.
Resets(c) ==
    /\ \E st \in {"CLOSED", "NULL"} : s'[c] = Blank(st)
    /\ Aside(c) /\ cur \in {NoConn, c} /\ cur' = NoConn /\ box' = box

\* Every reply of q is one of p, or a plain +OK.
LeftOver(p, q) ==
    \A i \in 1..Len(q) : q[i] = Ok \/ \E j \in 1..Len(p) : q[i] = p[j]

\* client_write.
Writes(c) ==
    /\ \/ s[c].stm = "NULL" /\ s'[c].stm = "AUTH"
       \/ s[c].stm \in {"AUTH", "TRANSACTION"} /\ s'[c].stm = s[c].stm
    /\ LeftOver(s[c].wb, s'[c].wb)
    /\ SameBook(c) /\ Aside(c) /\ cur = NoConn /\ cur' = NoConn /\ box' = box

\* A handler returned to client_read.
Runs(c) ==
    /\ server = "running" /\ cur = c /\ room > 0
    /\ \E x \in Session, r \in Reply, to \in ReadResults :
        /\ Return(c, x, r, to)
        /\ r.kind # "stat" \/ StatReply(c, x, r, to)
        /\ \/ curr_state = "AUTH" /\ AuthStep(c, x, to)
           \/ curr_state = "TRANSACTION" /\ TransStep(c, x, to)

\* client_read returned a state in which the session lives on.
Goes(c) ==
    /\ cur = c /\ cur' = NoConn /\ s[c].stm \in {"AUTH", "TRANSACTION"}
    /\ curr_state \in {"AUTH", "TRANSACTION", "READING_MAIL", "UPDATE"}
    /\ s'[c].stm = curr_state /\ s'[c].wb = s[c].wb
    /\ SameBook(c) /\ Aside(c)
    /\ \/ curr_state # "UPDATE" /\ box' = box
       \/ curr_state = "UPDATE" /\ box' = box \ delete_mails(s[c])

\* The transfer of a message ended well.
Transferred(c) ==
    /\ s[c].stm = "READING_MAIL" /\ s'[c].stm = "TRANSACTION" /\ s'[c].wb = <<>>
    /\ SameBook(c) /\ Aside(c) /\ cur = NoConn /\ cur' = NoConn /\ box' = box

\* What a step may do to the session of c.
StepOf(c) ==
    Resets(c) \/ Writes(c) \/ Recv(c) \/ Runs(c) \/ Goes(c) \/ Transferred(c)

\* What is left of a buffer after send() took the first replies was in it.
LEMMA SentLeavesRest ==
    ASSUME NEW p \in Seq(Reply), NEW k \in 0..Len(p)
    PROVE  LeftOver(p, SubSeq(p, k + 1, Len(p)))
<1> DEFINE q == SubSeq(p, k + 1, Len(p))
<1>1. Len(p) \in Nat /\ k \in Nat /\ k <= Len(p)
  OBVIOUS
<1>2. Len(q) = Len(p) - k
  BY <1>1
<1>3. ASSUME NEW i \in 1..Len(q)
      PROVE  k + i \in 1..Len(p) /\ q[i] = p[k + i]
  BY <1>1, <1>2
<1> QED BY <1>3 DEF LeftOver

\* The session after client_write sent its first k replies.
LEMMA WriteKind ==
    ASSUME TypeOK, NEW c \in Conns, client_write(c)
    PROVE  Resets(c) \/ Writes(c)
<1>1. cur = NoConn /\ cur' = NoConn /\ box' = box
      /\ s[c].stm \in {"NULL", "AUTH", "TRANSACTION", "UPDATE"}
  BY DEF client_write, Idle
<1>2. CASE pop3_done(c)
  <2>1. s'[c] = Blank("CLOSED") /\ \A d \in Conns \ {c} : s'[d] = s[d]
    BY <1>2, OthersSame DEF pop3_done
  <2> QED BY <1>1, <2>1 DEF Resets, Aside
<1>3. CASE ~pop3_done(c)
  <2> DEFINE x == Arrived(s[c])
  <2>1. PICK k \in 0..Len(x.wb) :
          /\ x.stm # "UPDATE"
          /\ s' = [s EXCEPT ![c] = [x EXCEPT !.wb = SubSeq(x.wb, k + 1, Len(x.wb)),
                                 !.interest = IF k = Len(x.wb) THEN "READ" ELSE x.interest]]
    BY <1>3 DEF client_write
  <2>2. s[c].wb \in Seq(Reply) /\ write_to_buffer(s[c].wb, Ok) \in Seq(Reply)
        /\ s[c] \in Session
    BY BufferType, RepliesType DEF TypeOK, Session
  <2>3. /\ x \in Session /\ x.user = s[c].user /\ x.mails = s[c].mails
        /\ x.flags = s[c].flags /\ x.marked = s[c].marked /\ x.pass = s[c].pass
        /\ \/ s[c].stm = "NULL" /\ x.stm = "AUTH" /\ x.wb = write_to_buffer(s[c].wb, Ok)
           \/ s[c].stm \in {"AUTH", "TRANSACTION"} /\ x.stm = s[c].stm /\ x.wb = s[c].wb
    <3>1. CASE s[c].stm = "NULL"
      BY <2>2, <3>1 DEF Arrived, Session, States
    <3>2. CASE s[c].stm # "NULL"
      BY <1>1, <2>1, <2>2, <3>2 DEF Arrived
    <3> QED BY <3>1, <3>2
  <2> DEFINE w == SubSeq(x.wb, k + 1, Len(x.wb))
             y == [x EXCEPT !.wb = w, !.interest = IF k = Len(x.wb) THEN "READ" ELSE x.interest]
  <2>4. y.stm = x.stm /\ y.user = x.user /\ y.mails = x.mails /\ y.flags = x.flags
        /\ y.marked = x.marked /\ y.pass = x.pass /\ y.wb = w
    BY <2>3 DEF Session
  <2>5. x.wb \in Seq(Reply)
    BY <2>3 DEF Session
  <2> HIDE DEF x
  <2>6. LeftOver(x.wb, w)
    BY <2>5, SentLeavesRest
  <2> HIDE DEF w
  <2>7. LeftOver(s[c].wb, w)
    <3>1. CASE x.wb = s[c].wb
      BY <2>6, <3>1
    <3>2. CASE x.wb = write_to_buffer(s[c].wb, Ok)
      <4>1. LeftOver(s[c].wb, x.wb)
        BY <2>2, <3>2 DEF LeftOver, write_to_buffer
      <4> QED BY <2>6, <4>1 DEF LeftOver
    <3> QED BY <2>3, <3>1, <3>2
  <2> HIDE DEF y
  <2>8. s' = [s EXCEPT ![c] = y]
    BY <2>1 DEF x, y, w
  <2>9. s'[c] = y /\ \A d \in Conns \ {c} : s'[d] = s[d]
    BY <2>8, OthersSame
  <2> QED BY <1>1, <2>3, <2>4, <2>7, <2>9 DEF Writes, SameBook, Aside
<1> QED BY <1>2, <1>3

\* The session after client_read returned.
LEMMA JumpKind ==
    ASSUME Base, NEW c \in Conns, Jump(c)
    PROVE  Resets(c) \/ Goes(c)
<1>1. cur = c /\ cur' = NoConn /\ s[c].stm \in {"AUTH", "TRANSACTION"}
      /\ s[c] \in Session /\ TypeOK
  BY DEF Jump, Base, ReadState, TypeOK
<1>2. CASE pop3_done(c) /\ box' = box
  <2>1. s'[c] = Blank("CLOSED") /\ \A d \in Conns \ {c} : s'[d] = s[d]
    BY <1>1, <1>2, OthersSame DEF pop3_done
  <2> QED BY <1>1, <1>2, <2>1 DEF Resets, Aside
<1>3. CASE /\ s' = [s EXCEPT ![c] = [s[c] EXCEPT !.stm = curr_state]]
           /\ curr_state \in {"AUTH", "TRANSACTION", "READING_MAIL", "UPDATE"}
           /\ \/ curr_state # "UPDATE" /\ box' = box
              \/ curr_state = "UPDATE" /\ box' = box \ delete_mails(s[c])
  <2> DEFINE y == [s[c] EXCEPT !.stm = curr_state]
  <2>1. y.stm = curr_state /\ y.user = s[c].user /\ y.mails = s[c].mails
        /\ y.flags = s[c].flags /\ y.marked = s[c].marked /\ y.pass = s[c].pass
        /\ y.wb = s[c].wb
    BY <1>1 DEF Session
  <2> HIDE DEF y
  <2>2. s' = [s EXCEPT ![c] = y]
    BY <1>3 DEF y
  <2>3. s'[c] = y /\ \A d \in Conns \ {c} : s'[d] = s[d]
    BY <1>1, <2>2, OthersSame
  <2> QED BY <1>1, <1>3, <2>1, <2>3 DEF Goes, SameBook, Aside
<1> QED BY <1>2, <1>3 DEF Jump

\* Every step of the system is of one of these kinds.
LEMMA StepKinds ==
    ASSUME Base, [Next]_vars
    PROVE  Quiet \/ \E c \in Conns : StepOf(c)
<1>0. TypeOK
  BY DEF Base
<1>1. ASSUME NEW c \in Conns, NEW st \in {"CLOSED", "NULL"},
             s' = [s EXCEPT ![c] = Blank(st)], cur = NoConn, cur' = NoConn, box' = box
      PROVE  Resets(c)
  <2>1. s'[c] = Blank(st) /\ \A d \in Conns \ {c} : s'[d] = s[d]
    BY <1>0, <1>1, OthersSame
  <2> QED BY <1>1, <2>1 DEF Resets, Aside
<1>2. ASSUME NEW c \in Conns, pop3_passive_accept(c) \/ SocketFails(c) \/ MailFails(c)
      PROVE  Resets(c)
  BY <1>1, <1>2 DEF pop3_passive_accept, SocketFails, MailFails, pop3_done, Idle
<1>3. ASSUME NEW c \in Conns, Command(c)
      PROVE  Quiet \/ Runs(c)
  <2>1. CommandStep(c)
    BY <1>3, CommandIsStep DEF Base
  <2>2. CASE \E why \in Stops : Stop(why)
    <3>1. s' = s /\ box' = box \cup {} /\ {} \in SUBSET Late
      BY <2>2 DEF Stop
    <3> QED BY <2>2, <3>1 DEF Stop, Quiet, Stops
  <2> QED BY <2>1, <2>2 DEF CommandStep, Runs
<1>4. ASSUME NEW c \in Conns, MailDone(c)
      PROVE  Transferred(c)
  <2>1. PICK i \in {"READ", "WRITE"} :
            s' = [s EXCEPT ![c] = [s[c] EXCEPT !.stm = "TRANSACTION", !.wb = <<>>, !.interest = i]]
    BY <1>4 DEF MailDone
  <2> DEFINE y == [s[c] EXCEPT !.stm = "TRANSACTION", !.wb = <<>>, !.interest = i]
  <2>2. y.stm = "TRANSACTION" /\ y.user = s[c].user /\ y.mails = s[c].mails
        /\ y.flags = s[c].flags /\ y.marked = s[c].marked /\ y.pass = s[c].pass
        /\ y.wb = <<>>
    BY <1>0 DEF TypeOK, Session
  <2> HIDE DEF y
  <2>3. s' = [s EXCEPT ![c] = y]
    BY <2>1 DEF y
  <2>4. s'[c] = y /\ \A d \in Conns \ {c} : s'[d] = s[d]
    BY <1>0, <2>3, OthersSame
  <2> QED BY <1>4, <2>2, <2>4 DEF MailDone, Transferred, SameBook, Aside, Idle
<1>5. CASE \/ AcceptFails \/ Deliver \/ Halted \/ UNCHANGED vars
           \/ \E c \in Conns : ClientReads(c)
  <2>1. UNCHANGED <<s, cur, room, curr_state>> /\ (server' = server \/ server' # "running")
    BY <1>5 DEF AcceptFails, Deliver, Halted, vars, ClientReads
  <2>2. CASE Deliver
    <3>1. PICK m \in Late : box' = box \cup {m}
      BY <2>2 DEF Deliver
    <3> QED BY <2>1, <3>1 DEF Quiet
  <2>3. CASE ~Deliver
    <3>1. box' = box \cup {} /\ {} \in SUBSET Late
      BY <1>5, <2>3 DEF AcceptFails, Halted, vars, ClientReads
    <3> QED BY <2>1, <3>1 DEF Quiet
  <2> QED BY <2>2, <2>3
<1> QED BY <1>0, <1>2, <1>3, <1>4, <1>5, WriteKind, JumpKind DEF Next, StepOf

\* What Runs(c) says of the session after it, field by field.
Ran(c, x, r, to) ==
    /\ s'[c].stm = x.stm /\ s'[c].user = x.user /\ s'[c].pass = x.pass
    /\ s'[c].wb = write_to_buffer(x.wb, r) /\ s'[c].mails = x.mails
    /\ s'[c].flags = x.flags /\ s'[c].marked = x.marked
    /\ curr_state' = to /\ room' = room - 1
    /\ cur' = c /\ box' = box /\ server' = "running" /\ Aside(c)

\* The handlers of both tables keep the state of the machine of their session.
LEMMA RunKind ==
    ASSUME Base, NEW c \in Conns, Runs(c)
    PROVE  /\ cur = c /\ room > 0 /\ server = "running" /\ s[c] \in Session
           /\ \E x \in Session, r \in Reply, to \in ReadResults :
                /\ Ran(c, x, r, to)
                /\ x.stm = s[c].stm
                /\ r.kind # "stat" \/ StatReply(c, x, r, to)
                /\ \/ curr_state = "AUTH" /\ AuthStep(c, x, to)
                   \/ curr_state = "TRANSACTION" /\ TransStep(c, x, to)
<1>0. TypeOK /\ cur = c /\ room > 0 /\ server = "running" /\ s[c] \in Session
  BY DEF Base, Runs, TypeOK
<1>1. PICK x \in Session, r \in Reply, to \in ReadResults :
        /\ Return(c, x, r, to)
        /\ r.kind # "stat" \/ StatReply(c, x, r, to)
        /\ \/ curr_state = "AUTH" /\ AuthStep(c, x, to)
           \/ curr_state = "TRANSACTION" /\ TransStep(c, x, to)
  BY DEF Runs
<1>2. x.stm = s[c].stm
  BY <1>0, <1>1 DEF AuthStep, TransStep, Session
<1>3. Ran(c, x, r, to)
  <2>1. Return(c, x, r, to)
    BY <1>1
  <2>2. server' = "running" /\ cur' = c /\ box' = box /\ curr_state' = to /\ room' = room - 1
    BY <1>0, <2>1 DEF Return
  <2>3. /\ s'[c].stm = x.stm /\ s'[c].user = x.user
        /\ s'[c].mails = x.mails /\ s'[c].flags = x.flags /\ s'[c].marked = x.marked
    BY <1>0, <2>1, ReturnSession
  <2>4. s'[c].wb = write_to_buffer(x.wb, r)
    <3> DEFINE y == [x EXCEPT !.interest = "WRITE", !.wb = write_to_buffer(x.wb, r)]
    <3>1. y.wb = write_to_buffer(x.wb, r)
      BY DEF Session
    <3> HIDE DEF y
    <3>2. s' = [s EXCEPT ![c] = y]
      BY <2>1 DEF Return, y
    <3> QED BY <1>0, <3>1, <3>2, OthersSame
  <2>5. s'[c].pass = x.pass
    BY <1>0, <2>1, ReturnSession, Zenon
  <2>6. \A d \in Conns \ {c} : s'[d] = s[d]
    BY <1>0, <2>1, ReturnSession, Zenon
  <2> QED BY <2>2, <2>3, <2>4, <2>5, <2>6, Zenon DEF Ran, Aside
<1> QED BY <1>0, <1>1, <1>2, <1>3

-----------------------------------------------------------------------------
(* One command per read: the state of the read and the state of the machine. *)

ReadInv == \A c \in Conns : ReadOf(c)

\* With one command per read the handler that runs is from the table of the machine, so
\* QUIT can only end a session that is in TRANSACTION.
LEMMA ReadStep ==
    ASSUME MaxBatch = 1, Base, ReadInv, [Next]_vars
    PROVE  ReadInv'
<1>0. NoConn \notin Conns /\ TypeOK
  BY ConstantsOK DEF ConstantsAssumption, Base
<1>1. CASE Quiet
  BY <1>1 DEF Quiet, ReadInv, ReadOf
<1>2. ASSUME NEW c \in Conns, cur' = NoConn PROVE ReadInv'
  BY <1>0, <1>2 DEF ReadInv, ReadOf
<1>3. ASSUME NEW c \in Conns, Recv(c) PROVE ReadInv'
  BY <1>3 DEF Recv, ReadInv, ReadOf
<1>4. ASSUME NEW c \in Conns, Runs(c) PROVE ReadInv'
  <2>1. PICK x \in Session, r \in Reply, to \in ReadResults :
          /\ Ran(c, x, r, to)
          /\ x.stm = s[c].stm
          /\ \/ curr_state = "AUTH" /\ AuthStep(c, x, to)
             \/ curr_state = "TRANSACTION" /\ TransStep(c, x, to)
    BY <1>4, RunKind
  <2>2. cur = c /\ room > 0 /\ room \in 0..1
    BY <1>0, <1>4, RunKind DEF TypeOK
  <2>3. curr_state = s[c].stm
    BY <2>2 DEF ReadInv, ReadOf
  <2>4. room' = 0 /\ cur' = c /\ curr_state' = to /\ s'[c].stm = s[c].stm
    BY <2>1, <2>2 DEF Ran
  <2>5. /\ to = "UPDATE" => s[c].stm = "TRANSACTION"
        /\ to = "AUTH" => s[c].stm = "AUTH"
    BY <2>1, <2>3 DEF AuthStep, TransStep
  <2> QED BY <2>4, <2>5 DEF ReadInv, ReadOf
<1> QED BY <1>1, <1>2, <1>3, <1>4, StepKinds
        DEF StepOf, Resets, Writes, Goes, Transferred

\* No read is under way at the start.
LEMMA ReadInit == Init => ReadInv
BY ConstantsOK DEF Init, ReadInv, ReadOf, ConstantsAssumption

-----------------------------------------------------------------------------
(* The login lasts. *)

\* A session whose password was accepted is in one of the states after the login, or its
\* read is over and about to jump there.
PassInv ==
    \A c \in Conns : s[c].pass # NoUser =>
        Selected(c) \/ (cur = c /\ room = 0 /\ curr_state = "TRANSACTION")

\* Every step keeps a session whose PASS was accepted logged in.
LEMMA PassStep ==
    ASSUME MaxBatch = 1, Base, ReadInv, PassInv, [Next]_vars
    PROVE  PassInv'
<1>0. NoConn \notin Conns /\ TypeOK
  BY ConstantsOK DEF ConstantsAssumption, Base
<1>1. CASE Quiet
  BY <1>1 DEF Quiet, PassInv, Selected
<1>2. ASSUME NEW c \in Conns, NEW d \in Conns \ {c}, cur \in {NoConn, c}, s'[d] = s[d]
      PROVE  s'[d].pass # NoUser => Selected(d)'
  BY <1>0, <1>2 DEF PassInv, Selected
<1>3. ASSUME NEW c \in Conns, Aside(c), cur \in {NoConn, c},
             s'[c].pass # NoUser => Selected(c)' \/ (cur' = c /\ room' = 0 /\ curr_state' = "TRANSACTION")
      PROVE  PassInv'
  BY <1>2, <1>3 DEF PassInv, Aside
<1>4. ASSUME NEW c \in Conns, Resets(c) PROVE PassInv'
  BY <1>3, <1>4 DEF Resets, Blank
<1>5. ASSUME NEW c \in Conns, Writes(c) \/ Transferred(c) PROVE PassInv'
  <2>1. s[c].pass # NoUser => Selected(c)
    BY <1>0, <1>5 DEF PassInv, Writes, Transferred
  <2> QED BY <1>3, <1>5, <2>1 DEF Writes, Transferred, SameBook, Selected
<1>6. ASSUME NEW c \in Conns, Recv(c) PROVE PassInv'
  <2>1. cur = NoConn /\ s' = s
    BY <1>6 DEF Recv, Idle
  <2>2. \A d \in Conns : s[d].pass # NoUser => Selected(d)
    BY <1>0, <2>1 DEF PassInv
  <2> QED BY <2>1, <2>2 DEF PassInv, Selected
<1>7. ASSUME NEW c \in Conns, Runs(c) PROVE PassInv'
  <2>1. PICK x \in Session, r \in Reply, to \in ReadResults :
          /\ Ran(c, x, r, to)
          /\ x.stm = s[c].stm
          /\ \/ curr_state = "AUTH" /\ AuthStep(c, x, to)
             \/ curr_state = "TRANSACTION" /\ TransStep(c, x, to)
    BY <1>7, RunKind
  <2>2. cur = c /\ room > 0 /\ room \in 0..1
    BY <1>0, <1>7, RunKind DEF TypeOK
  <2>3. curr_state = s[c].stm /\ (s[c].pass # NoUser => Selected(c))
    BY <2>2 DEF ReadInv, ReadOf, PassInv
  <2>4. room' = 0 /\ cur' = c /\ curr_state' = to /\ s'[c].stm = s[c].stm
        /\ s'[c].pass = x.pass /\ Aside(c)
    BY <2>1, <2>2 DEF Ran
  <2>5. x.pass # NoUser => Selected(c) \/ to = "TRANSACTION"
    BY <2>1, <2>3 DEF AuthStep, TransStep
  <2> QED BY <1>3, <2>2, <2>4, <2>5 DEF Selected
<1>8. ASSUME NEW c \in Conns, Goes(c) PROVE PassInv'
  <2>1. curr_state = "AUTH" => s[c].stm = "AUTH"
    BY <1>8 DEF Goes, ReadInv, ReadOf
  <2>2. s[c].pass # NoUser => curr_state \in {"TRANSACTION", "READING_MAIL", "UPDATE"}
    BY <1>8, <2>1 DEF Goes, PassInv, Selected
  <2> QED BY <1>3, <1>8, <2>2 DEF Goes, SameBook, Selected
<1> QED BY <1>1, <1>4, <1>5, <1>6, <1>7, <1>8, StepKinds DEF StepOf

\* With one command per read, a session that was answered "+OK Logged in" stays logged in
\* until it ends.  (The bound is exact: with two commands in one read, an unknown command
\* after PASS returns the state of the machine, which is still AUTHORIZATION.)
THEOREM LoginLasts == MaxBatch = 1 => (Spec => []LoginSticks)
<1> SUFFICES ASSUME MaxBatch = 1 PROVE Spec => []LoginSticks
  OBVIOUS
<1>1. Init => ReadInv /\ PassInv
  BY ReadInit DEF Init, PassInv, Blank
<1>2. Base /\ ReadInv /\ PassInv /\ [Next]_vars => ReadInv' /\ PassInv'
  BY ReadStep, PassStep
<1>3. PassInv => LoginSticks
  BY DEF PassInv, LoginSticks
<1> QED BY <1>1, <1>2, <1>3, BaseInvariant, PTL DEF Spec

-----------------------------------------------------------------------------
(* A session works on the directory of its own user. *)

Owned(q, u) == \A i \in DOMAIN q : Owner[q[i]] = u

\* Before the login no listing was loaded, so the user may still change; afterwards the
\* listing is of the user the session is bound to.
OwnInv ==
    \A c \in Conns :
        /\ s[c].stm \in {"CLOSED", "NULL", "AUTH"} => s[c].mails = <<>>
        /\ Owned(s[c].mails, s[c].user)

\* A listing that was just loaded is of the user it was loaded for.
LEMMA LoadedOwned ==
    ASSUME TypeOK, NEW x \in Session
    PROVE  load_mails(x).mails = Loaded(x.user) /\ Owned(Loaded(x.user), x.user)
<1>1. box \subseteq Mails
  BY DEF TypeOK
<1>2. load_mails(x) = [x EXCEPT !.mails = Loaded(x.user), !.orig = load_mails(x).orig]
  BY <1>1, LoadType
<1>3. load_mails(x).mails = Loaded(x.user)
  BY <1>2 DEF Session
<1>4. Loaded(x.user) \in Seq(Mails)
      /\ \A i \in 1..Len(Loaded(x.user)) : Loaded(x.user)[i] \in Files(x.user)
  BY <1>1, LoadedType
<1>5. Owned(Loaded(x.user), x.user)
  BY <1>4 DEF Owned, Files
<1> QED BY <1>3, <1>5

\* A handler of the TRANSACTION table leaves the listing it had or one of its user.
LEMMA TransListing ==
    ASSUME TypeOK, NEW c \in Conns, NEW x, NEW to, TransStep(c, x, to)
    PROVE  /\ x.user = s[c].user
           /\ x.mails = s[c].mails \/ (CanLoad(s[c]) /\ x.mails = Loaded(s[c].user))
BY LoadedOwned DEF TransStep, MaybeLoaded, TypeOK

\* Every step keeps the listing of a session among the files of its user.
LEMMA OwnStep ==
    ASSUME MaxBatch = 1, Base, ReadInv, OwnInv, [Next]_vars
    PROVE  OwnInv'
<1>0. TypeOK
  BY DEF Base
<1>1. CASE Quiet
  BY <1>1 DEF Quiet, OwnInv
<1>2. ASSUME NEW c \in Conns, Aside(c),
             s'[c].stm \in {"CLOSED", "NULL", "AUTH"} => s'[c].mails = <<>>,
             Owned(s'[c].mails, s'[c].user)
      PROVE  OwnInv'
  BY <1>2 DEF OwnInv, Aside, Owned
<1>3. ASSUME NEW c \in Conns, Resets(c) PROVE OwnInv'
  BY <1>2, <1>3 DEF Resets, Blank, Owned
<1>4. ASSUME NEW c \in Conns, Writes(c) \/ Transferred(c) PROVE OwnInv'
  BY <1>2, <1>4 DEF Writes, Transferred, SameBook, OwnInv
<1>5. ASSUME NEW c \in Conns, Recv(c) PROVE OwnInv'
  BY <1>5 DEF Recv, OwnInv
<1>6. ASSUME NEW c \in Conns, Runs(c) PROVE OwnInv'
  <2>1. PICK x \in Session, r \in Reply, to \in ReadResults :
          /\ Ran(c, x, r, to)
          /\ x.stm = s[c].stm
          /\ \/ curr_state = "AUTH" /\ AuthStep(c, x, to)
             \/ curr_state = "TRANSACTION" /\ TransStep(c, x, to)
    BY <1>6, RunKind
  <2>2. cur = c /\ room > 0 /\ s[c] \in Session
    BY <1>6, RunKind
  <2>3. curr_state = s[c].stm
    BY <2>2 DEF ReadInv, ReadOf
  <2>4. s'[c].stm = s[c].stm /\ s'[c].user = x.user /\ s'[c].mails = x.mails /\ Aside(c)
    BY <2>1 DEF Ran
  <2>5. CASE curr_state = "AUTH" /\ AuthStep(c, x, to)
    <3>1. x.mails = s[c].mails /\ s[c].mails = <<>>
      BY <2>2, <2>3, <2>5 DEF AuthStep, Session, OwnInv
    <3> QED BY <1>2, <2>4, <3>1 DEF Owned
  <2>6. CASE curr_state = "TRANSACTION" /\ TransStep(c, x, to)
    <3>1. Owned(x.mails, x.user)
      BY <1>0, <2>2, <2>6, TransListing, LoadedOwned DEF OwnInv
    <3> QED BY <1>2, <2>3, <2>4, <2>6, <3>1
  <2> QED BY <2>1, <2>5, <2>6
<1>7. ASSUME NEW c \in Conns, Goes(c) PROVE OwnInv'
  <2>1. curr_state = "AUTH" => s[c].stm = "AUTH"
    BY <1>7 DEF Goes, ReadInv, ReadOf
  <2> QED BY <1>2, <1>7, <2>1 DEF Goes, SameBook, OwnInv
<1> QED BY <1>1, <1>3, <1>4, <1>5, <1>6, <1>7, StepKinds DEF StepOf

\* A session that has not begun has no listing.
LEMMA OwnInit == Init => OwnInv
BY DEF Init, OwnInv, Owned, Blank

\* With one command per read, what a session knows of a directory is about files of the
\* user it is bound to, even when several clients log in as the same user and files
\* arrive meanwhile: USER after PASS can no longer change the user under the listing.
THEOREM OwnFiles == MaxBatch = 1 => (Spec => []OwnFilesOnly)
<1> SUFFICES ASSUME MaxBatch = 1 PROVE Spec => []OwnFilesOnly
  OBVIOUS
<1>1. Init => ReadInv /\ OwnInv
  BY ReadInit, OwnInit
<1>2. Base /\ ReadInv /\ OwnInv /\ [Next]_vars => ReadInv' /\ OwnInv'
  BY ReadStep, OwnStep
<1>3. OwnInv => OwnFilesOnly
  BY DEF OwnInv, Owned, OwnFilesOnly
<1> QED BY <1>1, <1>2, <1>3, BaseInvariant, PTL DEF Spec

\* Only the jump of a session from TRANSACTION to UPDATE takes files away, and they are
\* files of its listing.
LEMMA OwnRemovalStep ==
    ASSUME Base, ReadInv, OwnInv, [Next]_vars
    PROVE  RemovesOnlyOwn
<1>1. CASE Quiet
  BY <1>1 DEF Quiet, RemovesOnlyOwn
<1>2. ASSUME NEW c \in Conns, box' = box PROVE RemovesOnlyOwn
  BY <1>2 DEF RemovesOnlyOwn
<1>3. ASSUME NEW c \in Conns, Goes(c), curr_state = "UPDATE" PROVE RemovesOnlyOwn
  <2>1. Quits(c)
    BY <1>3 DEF Goes, ReadInv, ReadOf, Quits
  <2>2. \A m \in delete_mails(s[c]) : Owner[m] = s[c].user
    BY DEF delete_mails, OwnInv, Owned
  <2> QED BY <1>3, <2>1, <2>2 DEF Goes, RemovesOnlyOwn
<1>4. ASSUME NEW c \in Conns, StepOf(c), box' # box PROVE Goes(c) /\ curr_state = "UPDATE"
  BY <1>4, RunKind DEF StepOf, Resets, Writes, Recv, Ran, Goes, Transferred
<1> QED BY <1>1, <1>2, <1>3, <1>4, StepKinds

\* With one command per read, closing a connection, a failed transfer or QUIT before the
\* login never remove a file, and QUIT of a logged-in session removes files of its own
\* user only, whoever else is logged in as that user.
THEOREM OwnRemoval == MaxBatch = 1 => (Spec => RemovedByOwnQuit)
<1> SUFFICES ASSUME MaxBatch = 1 PROVE Spec => RemovedByOwnQuit
  OBVIOUS
<1>1. Init => ReadInv /\ OwnInv
  BY ReadInit, OwnInit
<1>2. Base /\ ReadInv /\ OwnInv /\ [Next]_vars => ReadInv' /\ OwnInv'
  BY ReadStep, OwnStep
<1>3. Base /\ ReadInv /\ OwnInv /\ [Next]_vars => [RemovesOnlyOwn]_vars
  BY OwnRemovalStep
<1> QED BY <1>1, <1>2, <1>3, BaseInvariant, PTL DEF Spec, RemovedByOwnQuit

-----------------------------------------------------------------------------
(* STAT counts the maildrop. *)

\* The files of the user of c that a listing can hold and that were not named in DELE.
Kept(x) == {Loaded(x.user)[j] : j \in DOMAIN Loaded(x.user)} \ x.marked

Counts(x, r) == r.n = Cardinality(Kept(x)) /\ r.octets = Octets[Kept(x)]

\* While a read runs its command the buffer is empty; a count waits in the buffer only
\* while its session is in TRANSACTION, with the read that queued it over, and it is
\* still the count of the maildrop if nobody else uses it.
StatOf(c) ==
    /\ cur = c /\ room > 0 => s[c].wb = <<>>
    /\ \A i \in 1..Len(s[c].wb) :
        s[c].wb[i].kind = "stat" =>
            /\ s[c].stm = "TRANSACTION"
            /\ Alone(s[c].user) => Counts(s[c], s[c].wb[i])
            /\ cur = c => curr_state = "TRANSACTION"

StatInv == \A c \in Conns : StatOf(c)

\* The positions without a flag name the files without a DELE, each once: the listing
\* names no file twice.
LEMMA UnflaggedAreKept ==
    ASSUME TypeOK, NEW x \in Session, FlagsMean(x), x.mails = Loaded(x.user)
    PROVE  /\ {x.mails[i] : i \in Unflagged(x)} = Kept(x)
           /\ Cardinality(Unflagged(x)) = Cardinality(Kept(x))
<1> DEFINE q == x.mails
           U == Unflagged(x)
           f == [i \in U |-> q[i]]
<1>1. q \in Seq(Mails) /\ \A i, j \in 1..Len(q) : q[i] = q[j] => i = j
  BY LoadedType DEF TypeOK
<1>2. DOMAIN q = 1..Len(q) /\ Len(q) \in Nat
  BY <1>1
<1>3. x.flags \subseteq 1..Len(q) /\ x.marked = {q[i] : i \in x.flags}
  BY DEF FlagsMean, Named
<1>4. U \subseteq 1..Len(q) /\ \A i \in 1..Len(q) : i \in U <=> i \notin x.flags
  BY <1>2 DEF Unflagged
<1> HIDE DEF q, U
<1>5. {q[i] : i \in U} = {q[j] : j \in 1..Len(q)} \ {q[i] : i \in x.flags}
  BY <1>1, <1>3, <1>4
<1>6. Kept(x) = {q[i] : i \in U}
  BY <1>2, <1>3, <1>5 DEF Kept, q
<1>7. IsFiniteSet(U)
  <2>1. IsFiniteSet(1..Len(q))
    BY <1>2, FS_Interval
  <2> QED BY <1>4, <2>1, FS_Subset
<1>8. f \in Bijection(U, Kept(x))
  <2>1. f \in [U -> Kept(x)] /\ \A m \in Kept(x) : \E i \in U : f[i] = m
    BY <1>6
  <2>2. \A i, j \in U : f[i] = f[j] => i = j
    BY <1>1, <1>4
  <2> QED BY <2>1, <2>2 DEF Bijection, Injection, Surjection, IsInjective
<1>9. Cardinality(U) = Cardinality(Kept(x))
  BY <1>7, <1>8, FS_Bijection DEF ExistsBijection
<1> QED BY <1>6, <1>9 DEF q, U

\* The count STAT answers is that of the maildrop.
LEMMA StatCounts ==
    ASSUME Base, NEW c \in Conns, FlagsMean(s[c]), ListingFresh(s[c]),
           NEW z, z = load_mails(s[c])
    PROVE  Counts(z, Stat(z))
<1>0. TypeOK /\ s[c] \in Session /\ box \subseteq Mails
  BY DEF Base, TypeOK
<1>1. z \in Session /\ z = [s[c] EXCEPT !.mails = Loaded(s[c].user), !.orig = z.orig]
  BY <1>0, LoadType
<1>2. z.mails = Loaded(s[c].user) /\ z.user = s[c].user /\ z.flags = s[c].flags
      /\ z.marked = s[c].marked
  BY <1>0, <1>1 DEF Session
<1>3. FlagsMean(z)
  <2>1. CASE s[c].mails = <<>>
    <3>1. s[c].flags = {} /\ s[c].marked = {}
      BY <2>1 DEF FlagsMean, Named
    <3> QED BY <1>2, <3>1 DEF FlagsMean, Named
  <2>2. CASE s[c].mails = Loaded(s[c].user)
    BY <1>2, <2>2 DEF FlagsMean
  <2> QED BY <2>1, <2>2 DEF ListingFresh
<1>4. /\ {z.mails[i] : i \in Unflagged(z)} = Kept(z)
      /\ Cardinality(Unflagged(z)) = Cardinality(Kept(z))
  BY <1>0, <1>1, <1>2, <1>3, UnflaggedAreKept
<1> QED BY <1>4 DEF Counts, Stat, mail_qty, total_octates

\* What is kept stays while the directory of the session and its DELEs stay.
LEMMA StillKept ==
    ASSUME NEW c \in Conns, s'[c].user = s[c].user, s'[c].marked = s[c].marked,
           Files(s[c].user)' = Files(s[c].user)
    PROVE  Kept(s[c])' = Kept(s[c])
<1>1. Loaded(s[c].user)' = Loaded(s[c].user)
  BY DEF Loaded
<1> QED BY <1>1 DEF Kept

\* QUIT of one session leaves the directories nobody else uses alone.
LEMMA OthersFiles ==
    ASSUME Base, MarkInv, NEW c \in Conns, Goes(c), NEW d \in Conns \ {c}, Alone(s[d].user)
    PROVE  Files(s[d].user)' = Files(s[d].user)
<1>0. /\ TypeOK /\ NoUser \notin Users /\ Owner \in [Mails -> Users] /\ box \subseteq Mails
      /\ Login \in [Conns -> SUBSET Users] /\ s'[d] = s[d]
  BY ConstantsOK DEF Base, TypeOK, ConstantsAssumption, Goes, Aside
<1>1. CASE box' = box
  BY <1>0, <1>1 DEF Files
<1>2. CASE box' = box \ delete_mails(s[c])
  <2>1. MarkOf(c) /\ MarkOf(d) /\ s[c] \in Session
    BY <1>0 DEF MarkInv, TypeOK
  <2>2. \A m \in delete_mails(s[c]) : Owner[m] = s[c].user
    BY <2>1 DEF MarkOf, OwnMails, delete_mails, Session
  <2>3. CASE s[d].user = NoUser
    BY <1>0, <1>2, <2>3 DEF Files
  <2>4. CASE s[d].user # NoUser
    <3>1. s[c].user # s[d].user
      BY <1>0, <2>1, <2>4 DEF MarkOf, Alone
    <3> QED BY <1>0, <1>2, <2>2, <3>1 DEF Files
  <2> QED BY <2>3, <2>4
<1> QED BY <1>1, <1>2 DEF Goes

\* StatOf is kept for a session that does not move when its directory, if nobody else
\* uses it, does not change.
LEMMA StatSame ==
    ASSUME NEW d \in Conns, StatOf(d), s'[d] = s[d],
           \/ cur' # d
           \/ UNCHANGED <<cur, room, curr_state>>,
           Alone(s[d].user) => Files(s[d].user)' = Files(s[d].user)
    PROVE  StatOf(d)'
<1>1. Alone(s[d].user)' <=> Alone(s[d].user)
  BY DEF Alone
<1>2. Alone(s[d].user) => Kept(s[d])' = Kept(s[d])
  BY StillKept
<1> HIDE DEF Alone
<1> QED BY <1>1, <1>2 DEF StatOf, Counts

\* A step of c keeps StatOf for the sessions whose directory it leaves alone.
LEMMA StatAside ==
    ASSUME StatInv, NEW c \in Conns, Aside(c), cur' \in {NoConn, c},
           \A d \in Conns \ {c} : Alone(s[d].user) => Files(s[d].user)' = Files(s[d].user)
    PROVE  \A d \in Conns \ {c} : StatOf(d)'
<1> SUFFICES ASSUME NEW d \in Conns \ {c} PROVE StatOf(d)'
  OBVIOUS
<1>1. s'[d] = s[d] /\ cur' # d /\ StatOf(d)
  BY ConstantsOK DEF Aside, StatInv, ConstantsAssumption
<1> QED BY <1>1, StatSame

\* Every step keeps a count that waits in the buffer equal to the maildrop.
LEMMA StatStep ==
    ASSUME MaxBatch = 1, Base, FlowInv, MarkInv, StatInv, [Next]_vars
    PROVE  StatInv'
<1>0. TypeOK /\ NoConn \notin Conns
  BY ConstantsOK DEF Base, ConstantsAssumption
<1>1. CASE Quiet
  <2>1. s' = s /\ cur' = cur /\ room' = room /\ curr_state' = curr_state
    BY <1>1 DEF Quiet
  <2>2. \A d \in Conns : Alone(s[d].user) => Files(s[d].user)' = Files(s[d].user)
    BY <1>1, <2>1 DEF Quiet, Files, Alone
  <2> QED BY <2>1, <2>2, StatSame DEF StatInv
<1>2. ASSUME NEW c \in Conns, Aside(c), cur' \in {NoConn, c}, box' = box, StatOf(c)'
      PROVE  StatInv'
  <2>1. \A d \in Conns \ {c} : Files(s[d].user)' = Files(s[d].user)
    BY <1>2 DEF Files, Aside
  <2>2. \A d \in Conns \ {c} : StatOf(d)'
    BY <1>2, <2>1, StatAside
  <2> QED BY <1>2, <2>2 DEF StatInv
<1>3. ASSUME NEW c \in Conns, Resets(c) PROVE StatInv'
  <2>1. s'[c].wb = <<>>
    BY <1>3 DEF Resets, Blank
  <2> QED BY <1>2, <1>3, <2>1 DEF Resets, StatOf
<1>4. ASSUME NEW c \in Conns, Transferred(c) PROVE StatInv'
  BY <1>2, <1>4 DEF Transferred, StatOf
<1>5. ASSUME NEW c \in Conns, Writes(c) PROVE StatInv'
  <2>1. Kept(s[c])' = Kept(s[c])
    <3>1. s'[c].user = s[c].user /\ s'[c].marked = s[c].marked /\ box' = box
      BY <1>5 DEF Writes, SameBook
    <3> QED BY <3>1, StillKept DEF Files
  <2>2. ASSUME NEW i \in 1..Len(s'[c].wb), s'[c].wb[i].kind = "stat"
        PROVE  s'[c].stm = "TRANSACTION" /\ (Alone(s[c].user) => Counts(s[c], s[c].wb[i])')
    <3>1. s'[c].wb[i] # Ok
      BY <2>2, RepliesType
    <3>2. PICK j \in 1..Len(s[c].wb) : s'[c].wb[i] = s[c].wb[j]
      BY <1>5, <2>2, <3>1 DEF Writes, LeftOver
    <3>3. s[c].stm = "TRANSACTION" /\ (Alone(s[c].user) => Counts(s[c], s[c].wb[j]))
      BY <2>2, <3>2 DEF StatInv, StatOf
    <3>4. s'[c].stm = "TRANSACTION"
      BY <1>5, <3>3 DEF Writes
    <3> QED BY <2>1, <3>2, <3>3, <3>4 DEF Counts
  <2>3. StatOf(c)'
    BY <1>0, <1>5, <2>2 DEF StatOf, Writes, SameBook, Alone
  <2> QED BY <1>2, <1>5, <2>3 DEF Writes
<1>6. ASSUME NEW c \in Conns, Recv(c) PROVE StatInv'
  <2>1. s[c].wb = <<>> /\ s' = s
    BY <1>6 DEF Recv, FlowInv, FlowControl
  <2>2. StatOf(c)'
    BY <2>1 DEF StatOf
  <2> QED BY <1>2, <1>6, <2>1, <2>2 DEF Recv, Aside
<1>7. ASSUME NEW c \in Conns, Runs(c) PROVE StatInv'
  <2>1. PICK x \in Session, r \in Reply, to \in ReadResults :
          /\ Ran(c, x, r, to)
          /\ x.stm = s[c].stm
          /\ r.kind # "stat" \/ StatReply(c, x, r, to)
          /\ \/ curr_state = "AUTH" /\ AuthStep(c, x, to)
             \/ curr_state = "TRANSACTION" /\ TransStep(c, x, to)
    BY <1>7, RunKind
  <2>2. cur = c /\ room > 0 /\ room \in 0..1 /\ s[c] \in Session
    BY <1>0, <1>7, RunKind DEF TypeOK
  <2>3. curr_state = s[c].stm /\ s[c].wb = <<>>
    BY <2>2 DEF MarkInv, ReadOf, StatInv, StatOf
  <2>4. room' = 0 /\ cur' = c /\ curr_state' = to /\ s'[c].stm = s[c].stm
        /\ s'[c].user = x.user /\ s'[c].marked = x.marked
        /\ s'[c].wb = write_to_buffer(x.wb, r) /\ Aside(c) /\ box' = box
    BY <2>1, <2>2 DEF Ran
  <2>5. x.wb = <<>> \/ x.wb = write_to_buffer(<<>>, Err)
    BY <2>1, <2>2, <2>3 DEF AuthStep, TransStep, Session
  <2>6. \A i \in 1..Len(s'[c].wb) : s'[c].wb[i] \in {Err, r}
    BY <2>4, <2>5 DEF write_to_buffer
  <2>7. CASE r.kind # "stat"
    <3>1. \A i \in 1..Len(s'[c].wb) : s'[c].wb[i].kind # "stat"
      BY <2>6, <2>7, RepliesType
    <3>2. StatOf(c)'
      BY <2>4, <3>1 DEF StatOf
    <3> QED BY <1>2, <2>4, <3>2
  <2>8. CASE StatReply(c, x, r, to)
    <3>1. s[c].stm = "TRANSACTION" /\ x = load_mails(s[c]) /\ r = Stat(x)
          /\ to = "TRANSACTION"
      BY <2>3, <2>8 DEF StatReply
    <3>2. Alone(s[c].user) => FlagsMean(s[c]) /\ ListingFresh(s[c])
      BY <3>1 DEF MarkInv, MarkOf
    <3>3. Alone(s[c].user) => Counts(x, r)
      BY <3>1, <3>2, StatCounts
    <3>7. Alone(s[c].user)' <=> Alone(s[c].user)
      <4>1. x = [s[c] EXCEPT !.mails = Loaded(s[c].user), !.orig = load_mails(s[c]).orig]
        BY <1>0, <2>2, <3>1, LoadType DEF TypeOK
      <4>2. x.user = s[c].user
        BY <2>2, <4>1 DEF Session
      <4>3. s'[c].user = s[c].user
        BY <2>4, <4>2
      <4> QED BY <4>3 DEF Alone
    <3>4. Kept(s[c])' = Kept(x)
      BY <2>4 DEF Kept, Loaded, Files
    <3>5. \A i \in 1..Len(s'[c].wb) :
            s'[c].wb[i].kind = "stat" => s'[c].wb[i] = r
      BY <2>6, RepliesType
    <3>6. StatOf(c)'
      BY <2>4, <3>1, <3>3, <3>4, <3>5, <3>7 DEF StatOf, Counts
    <3> QED BY <1>2, <2>4, <3>6
  <2> QED BY <2>1, <2>7, <2>8
<1>8. ASSUME NEW c \in Conns, Goes(c) PROVE StatInv'
  <2>1. \A d \in Conns \ {c} : StatOf(d)'
    BY <1>8, OthersFiles, StatAside DEF Goes
  <2>2. s'[c].wb = s[c].wb /\ s'[c].stm = curr_state /\ cur = c /\ cur' = NoConn
        /\ s'[c].user = s[c].user /\ s'[c].marked = s[c].marked
        /\ (curr_state = "TRANSACTION" => box' = box)
    BY <1>8 DEF Goes, SameBook
  <2>3. curr_state = "TRANSACTION" => Kept(s[c])' = Kept(s[c])
    BY <2>2, StillKept DEF Files
  <2>4. StatOf(c)'
    BY <1>0, <2>2, <2>3 DEF StatInv, StatOf, Counts, Alone
  <2> QED BY <2>1, <2>4 DEF StatInv
<1> QED BY <1>1, <1>3, <1>4, <1>5, <1>6, <1>7, <1>8, StepKinds DEF StepOf

\* With one command per read, an answer to STAT that is still to be read counts the files
\* a listing can hold that were not named in DELE, and their octets, in a directory that
\* one connection alone may name and to which nothing is delivered.
THEOREM StatIsRight == MaxBatch = 1 => (Spec => []StatAnswersMaildrop)
<1> SUFFICES ASSUME MaxBatch = 1 PROVE Spec => []StatAnswersMaildrop
  OBVIOUS
<1>1. Init => FlowInv /\ StatInv
  BY ConstantsOK
     DEF Init, FlowInv, FlowControl, Blank, StatInv, StatOf, ConstantsAssumption
<1>2. Base /\ FlowInv /\ MarkInv /\ StatInv /\ [Next]_vars => FlowInv' /\ MarkInv' /\ StatInv'
  BY FlowStep, MarkStep, StatStep
<1>3. Base /\ StatInv => StatAnswersMaildrop
  <2> SUFFICES ASSUME Base, StatInv, NEW c \in Conns, NEW i \in DOMAIN s[c].wb,
                      s[c].wb[i].kind = "stat", Alone(s[c].user)
               PROVE  Counts(s[c], s[c].wb[i])
    BY DEF StatAnswersMaildrop, Counts, Kept
  <2>1. i \in 1..Len(s[c].wb)
    BY DEF Base, TypeOK, Session
  <2> QED BY <2>1 DEF StatInv, StatOf
<1> QED BY <1>1, <1>2, <1>3, MarkInit, BaseInvariant, PTL DEF Spec

-----------------------------------------------------------------------------
(* Every command of a read is answered once. *)

\* The users a client may name that have a mail directory.
HomesOf(c) == Login[c] \cap Homes

\* Each connection reaches at most one mail directory, and no other connection reaches it.
OneHomeEach ==
    /\ \A c \in Conns : \A u, v \in HomesOf(c) : u = v
    /\ \A c, d \in Conns : c # d => HomesOf(c) \cap HomesOf(d) = {}

\* The flags of a session point into the listing its directory gives now, until the
\* session removes files; files that arrive only make that listing longer.
InReach(c) ==
    /\ s[c].user \in Login[c] \cup {NoUser}
    /\ \A i \in DOMAIN s[c].mails : Owner[s[c].mails[i]] \in HomesOf(c)
    /\ s[c].stm # "UPDATE" =>
        \A u \in HomesOf(c) : s[c].flags \subseteq 1..Len(Loaded(u))

ReachInv == \A c \in Conns : InReach(c)

\* The first MAX_MAILS of the files S, in readdir() order.
Listing(S) == IF Len(Dir[S]) > MAX_MAILS THEN SubSeq(Dir[S], 1, MAX_MAILS) ELSE Dir[S]

\* The length of a listing is the number of files, cut at MAX_MAILS.
LEMMA ListingLength ==
    ASSUME NEW S \in SUBSET Mails
    PROVE  /\ IsFiniteSet(S) /\ Cardinality(S) \in Nat
           /\ Len(Listing(S)) = IF Cardinality(S) > MAX_MAILS
                                THEN MAX_MAILS ELSE Cardinality(S)
<1> DEFINE d == Dir[S]
<1>2. /\ d \in Seq(Mails)
      /\ {d[i] : i \in DOMAIN d} = S
      /\ \A i, j \in DOMAIN d : d[i] = d[j] => i = j
  BY DirOK DEF DirAssumption
<1>3. MAX_MAILS \in Nat \ {0} /\ IsFiniteSet(Mails)
  BY ConstantsOK DEF ConstantsAssumption
<1>4. Len(d) \in Nat /\ DOMAIN d = 1..Len(d)
  BY <1>2
<1>5. IsFiniteSet(S) /\ Cardinality(S) \in Nat
  BY <1>3, FS_Subset, FS_CardinalityType
<1>6. d \in Bijection(1..Len(d), S)
  <2>1. d \in [1..Len(d) -> S] /\ \A m \in S : \E i \in 1..Len(d) : d[i] = m
    BY <1>2, <1>4
  <2>2. \A i, j \in 1..Len(d) : d[i] = d[j] => i = j
    BY <1>2, <1>4
  <2> HIDE DEF d
  <2> QED BY <1>4, <2>1, <2>2 DEF Bijection, Injection, Surjection, IsInjective
<1>7. Len(d) = Cardinality(S)
  <2>1. IsFiniteSet(1..Len(d)) /\ Cardinality(1..Len(d)) = Len(d)
    BY <1>4, FS_Interval
  <2> QED BY <1>6, <2>1, FS_Bijection DEF ExistsBijection
<1>8. Listing(S) = IF Len(d) > MAX_MAILS THEN SubSeq(d, 1, MAX_MAILS) ELSE d
  BY DEF Listing
<1>9. Len(d) > MAX_MAILS => Len(SubSeq(d, 1, MAX_MAILS)) = MAX_MAILS
  BY <1>2, <1>3
<1> HIDE DEF d
<1> QED BY <1>4, <1>5, <1>7, <1>8, <1>9

\* A directory that lost no file has a listing at least as long.
LEMMA ListingGrows ==
    ASSUME NEW S \in SUBSET Mails, NEW T \in SUBSET Mails, S \subseteq T
    PROVE  1..Len(Listing(S)) \subseteq 1..Len(Listing(T))
<1>1. Cardinality(S) \in Nat
      /\ Len(Listing(S)) = IF Cardinality(S) > MAX_MAILS THEN MAX_MAILS ELSE Cardinality(S)
  BY ListingLength
<1>2. IsFiniteSet(T) /\ Cardinality(T) \in Nat
      /\ Len(Listing(T)) = IF Cardinality(T) > MAX_MAILS THEN MAX_MAILS ELSE Cardinality(T)
  BY ListingLength
<1>3. Cardinality(S) <= Cardinality(T)
  BY <1>2, FS_Subset
<1>4. MAX_MAILS \in Nat
  BY ConstantsOK DEF ConstantsAssumption
<1>5. Len(Listing(S)) \in Nat /\ Len(Listing(T)) \in Nat
      /\ Len(Listing(S)) <= Len(Listing(T))
  BY <1>1, <1>2, <1>3, <1>4
<1> QED BY <1>5

\* So a session's reach is not cut by a step that removes no file of its directory.
LEMMA ReachGrows ==
    ASSUME box \subseteq Mails, box' \subseteq Mails, NEW u, Files(u) \subseteq Files(u)'
    PROVE  1..Len(Loaded(u)) \subseteq 1..Len(Loaded(u)')
<1>1. Loaded(u) = Listing(Files(u)) /\ Loaded(u)' = Listing(Files(u)')
  BY DEF Loaded, Listing
<1>2. Files(u) \in SUBSET Mails /\ Files(u)' \in SUBSET Mails
  BY DEF Files
<1> QED BY <1>1, <1>2, ListingGrows

\* A step of c keeps InReach for a session whose directory loses no file.
LEMMA ReachAside ==
    ASSUME box \subseteq Mails, box' \subseteq Mails, NEW d \in Conns, InReach(d), s'[d] = s[d],
           \A u \in HomesOf(d) : Files(u) \subseteq Files(u)'
    PROVE  InReach(d)'
<1>1. \A u \in HomesOf(d) : 1..Len(Loaded(u)) \subseteq 1..Len(Loaded(u)')
  BY ReachGrows
<1>2. s'[d].stm # "UPDATE" =>
        \A u \in HomesOf(d) : s'[d].flags \subseteq 1..Len(Loaded(u)')
  BY <1>1 DEF InReach
<1> QED BY <1>2 DEF InReach, HomesOf

\* A handler of the TRANSACTION table keeps the flags in reach.
LEMMA TransReach ==
    ASSUME OneHomeEach, Base, NEW c \in Conns, InReach(c), s[c].stm # "UPDATE",
           NEW x \in Session, NEW to, TransStep(c, x, to)
    PROVE  /\ \A i \in DOMAIN x.mails : Owner[x.mails[i]] \in HomesOf(c)
           /\ \A u \in HomesOf(c) : x.flags \subseteq 1..Len(Loaded(u))
<1>0. TypeOK /\ s[c] \in Session /\ box \subseteq Mails /\ NoUser \notin Homes
  BY ConstantsOK DEF Base, TypeOK, ConstantsAssumption
<1>1. CanLoad(s[c]) => s[c].user \in HomesOf(c)
  BY <1>0 DEF CanLoad, InReach, HomesOf
<1>2. \A i \in DOMAIN x.mails : Owner[x.mails[i]] \in HomesOf(c)
  <2>1. x.mails = s[c].mails \/ (CanLoad(s[c]) /\ x.mails = Loaded(s[c].user))
    BY <1>0, TransListing
  <2> QED BY <1>0, <1>1, <2>1, LoadedOwned DEF InReach, Owned
<1>3. ASSUME NEW u \in HomesOf(c) PROVE x.flags \subseteq 1..Len(Loaded(u))
  <2>1. s[c].flags \subseteq 1..Len(Loaded(u))
    BY <1>3 DEF InReach
  <2>2. PICK y \in Session :
          /\ MaybeLoaded(c, y)
          /\ \/ x.flags = y.flags
             \/ \E i \in 1..Len(y.mails) :
                  /\ CanLoad(s[c]) /\ y = load_mails(s[c])
                  /\ x.flags = y.flags \cup {i}
             \/ x.flags = {i \in y.flags : i - 1 > max_index(y)}
    BY DEF TransStep
  <2>3. y.flags = s[c].flags
    <3>1. LET z == load_mails(s[c])
          IN  z = [s[c] EXCEPT !.mails = Loaded(s[c].user), !.orig = z.orig]
      BY <1>0, LoadType
    <3>2. load_mails(s[c]).flags = s[c].flags
      BY <1>0, <3>1 DEF Session
    <3> QED BY <2>2, <3>2 DEF MaybeLoaded
  <2>4. CanLoad(s[c]) /\ y = load_mails(s[c]) => y.mails = Loaded(u)
    <3>1. CanLoad(s[c]) => s[c].user = u
      BY <1>1, <1>3 DEF OneHomeEach
    <3> QED BY <1>0, <3>1, LoadedOwned
  <2> QED BY <2>1, <2>2, <2>3, <2>4
<1> QED BY <1>2, <1>3

\* Every step keeps the flags within the listing of the directory.
LEMMA ReachStep ==
    ASSUME OneHomeEach, Base, ReachInv, [Next]_vars
    PROVE  ReachInv'
<1>0. TypeOK /\ box \subseteq Mails /\ NoConn \notin Conns
  BY ConstantsOK DEF Base, TypeOK, ConstantsAssumption
<1>9. box' \subseteq Mails
  BY BaseStep DEF Base, TypeOK
<1>1. CASE Quiet
  <2>1. s' = s /\ \A u : Files(u) \subseteq Files(u)'
    BY <1>1 DEF Quiet, Files
  <2> QED BY <1>0, <1>9, <2>1, ReachAside DEF ReachInv
<1>2. ASSUME NEW c \in Conns, Aside(c), box' = box, InReach(c)' PROVE ReachInv'
  <2>1. \A u : Files(u) \subseteq Files(u)'
    BY <1>2 DEF Files
  <2>2. \A d \in Conns \ {c} : InReach(d)'
    BY <1>0, <1>9, <1>2, <2>1, ReachAside DEF ReachInv, Aside
  <2> QED BY <1>2, <2>2 DEF ReachInv
<1>3. ASSUME NEW c \in Conns, SameBook(c), box' = box, s[c].stm # "UPDATE" PROVE InReach(c)'
  <2>1. \A u : Loaded(u)' = Loaded(u)
    BY <1>3 DEF Loaded, Files
  <2> QED BY <1>3, <2>1 DEF SameBook, ReachInv, InReach, HomesOf
<1>4. ASSUME NEW c \in Conns, Resets(c) PROVE ReachInv'
  <2>1. s'[c].user = NoUser /\ s'[c].mails = <<>> /\ s'[c].flags = {}
    BY <1>4 DEF Resets, Blank
  <2>2. InReach(c)'
    BY <2>1 DEF InReach
  <2> QED BY <1>2, <1>4, <2>2 DEF Resets
<1>5. ASSUME NEW c \in Conns, Writes(c) \/ Transferred(c) PROVE ReachInv'
  BY <1>2, <1>3, <1>5 DEF Writes, Transferred
<1>6. ASSUME NEW c \in Conns, Recv(c) PROVE ReachInv'
  <2>1. s' = s /\ \A u : Files(u) \subseteq Files(u)'
    BY <1>6 DEF Recv, Files
  <2> QED BY <1>0, <1>9, <2>1, ReachAside DEF ReachInv
<1>7. ASSUME NEW c \in Conns, Runs(c) PROVE ReachInv'
  <2>1. PICK x \in Session, r \in Reply, to \in ReadResults :
          /\ Ran(c, x, r, to)
          /\ \/ curr_state = "AUTH" /\ AuthStep(c, x, to)
             \/ curr_state = "TRANSACTION" /\ TransStep(c, x, to)
    BY <1>7, RunKind
  <2>2. s[c] \in Session /\ s[c].stm # "UPDATE" /\ InReach(c)
    BY <1>7, RunKind DEF Base, ReadState, ReachInv
  <2>3. s'[c].user = x.user /\ s'[c].mails = x.mails /\ s'[c].flags = x.flags
        /\ Aside(c) /\ box' = box
    BY <2>1 DEF Ran
  <2>4. /\ x.user \in Login[c] \cup {NoUser}
        /\ \A i \in DOMAIN x.mails : Owner[x.mails[i]] \in HomesOf(c)
        /\ \A u \in HomesOf(c) : x.flags \subseteq 1..Len(Loaded(u))
    <3>1. CASE AuthStep(c, x, to)
      <4>1. x.mails = s[c].mails /\ x.flags = s[c].flags
            /\ x.user \in Login[c] \cup {s[c].user}
        BY <2>2, <3>1 DEF AuthStep, Session
      <4> QED BY <2>2, <4>1 DEF InReach
    <3>2. CASE TransStep(c, x, to)
      <4>1. x.user = s[c].user
        BY <3>2 DEF TransStep
      <4> QED BY <2>2, <3>2, <4>1, TransReach DEF InReach
    <3> QED BY <2>1, <3>1, <3>2
  <2>5. \A u : Loaded(u)' = Loaded(u)
    BY <2>3 DEF Loaded, Files
  <2>6. InReach(c)'
    BY <2>3, <2>4, <2>5 DEF InReach, HomesOf
  <2> QED BY <1>2, <2>3, <2>6
<1>8. ASSUME NEW c \in Conns, Goes(c) PROVE ReachInv'
  <2>1. SameBook(c) /\ Aside(c) /\ s[c].stm # "UPDATE" /\ s'[c].stm = curr_state
    BY <1>8 DEF Goes
  <2>2. CASE box' = box
    BY <1>2, <1>3, <2>1, <2>2
  <2>3. CASE curr_state = "UPDATE" /\ box' = box \ delete_mails(s[c])
    <3>1. \A m \in delete_mails(s[c]) : Owner[m] \in HomesOf(c)
      BY DEF delete_mails, ReachInv, InReach
    <3>2. ASSUME NEW d \in Conns \ {c} PROVE InReach(d)'
      <4>1. \A u \in HomesOf(d) : u \notin HomesOf(c)
        BY DEF OneHomeEach
      <4>2. \A u \in HomesOf(d) : Files(u) \subseteq Files(u)'
        BY <2>3, <3>1, <4>1 DEF Files
      <4> QED BY <1>0, <1>9, <2>1, <4>2, ReachAside DEF ReachInv, Aside
    <3>3. InReach(c)'
      BY <2>1, <2>3 DEF SameBook, ReachInv, InReach
    <3> QED BY <3>2, <3>3 DEF ReachInv
  <2> QED BY <1>8, <2>2, <2>3 DEF Goes
<1> QED BY <1>1, <1>4, <1>5, <1>6, <1>7, <1>8, StepKinds DEF StepOf

\* The invariant of the theorem below, one step: a handler finds room in the buffer, and
\* queues its answer once because no flag is beyond the listing.
LEMMA ReplyStep ==
    ASSUME WbSize >= MaxBatch, OneHomeEach, Base, FlowInv, ReachInv, OneReplyPerCommand,
           [Next]_vars
    PROVE  OneReplyPerCommand'
<1>0. /\ TypeOK /\ NoConn \notin Conns /\ NoUser \notin Homes
      /\ MaxBatch \in Nat /\ WbSize \in Nat /\ box \subseteq Mails
  BY ConstantsOK DEF Base, TypeOK, ConstantsAssumption
<1>1. CASE Quiet
  BY <1>1 DEF Quiet, OneReplyPerCommand
<1>2. ASSUME cur' = NoConn PROVE OneReplyPerCommand'
  BY <1>0, <1>2 DEF OneReplyPerCommand
<1>3. ASSUME NEW c \in Conns, Recv(c) PROVE OneReplyPerCommand'
  <2>1. s[c].wb = <<>> /\ s' = s /\ cur' = c /\ room' = MaxBatch
    BY <1>3 DEF Recv, FlowInv, FlowControl
  <2>2. Len(s'[c].wb) = MaxBatch - room'
    BY <1>0, <2>1
  <2> QED BY <2>1, <2>2 DEF OneReplyPerCommand
<1>4. ASSUME NEW c \in Conns, Runs(c) PROVE OneReplyPerCommand'
  <2>1. PICK x \in Session, r \in Reply, to \in ReadResults :
          /\ Ran(c, x, r, to)
          /\ \/ curr_state = "AUTH" /\ AuthStep(c, x, to)
             \/ curr_state = "TRANSACTION" /\ TransStep(c, x, to)
    BY <1>4, RunKind
  <2>2. cur = c /\ room > 0 /\ room \in Nat /\ s[c] \in Session /\ server = "running"
        /\ s[c].stm # "UPDATE"
    BY <1>0, <1>4, RunKind DEF TypeOK, Base, ReadState
  <2>3. Len(s[c].wb) = MaxBatch - room /\ s[c].wb \in Seq(Reply)
    BY <2>2 DEF OneReplyPerCommand, Session
  <2>4. ~FlagBeyondListing(c)
    <3>1. SUFFICES ASSUME CanLoad(s[c]) 
                   PROVE  \A i \in s[c].flags : ~(i - 1 > max_index(load_mails(s[c])))
      BY DEF FlagBeyondListing
    <3>2. s[c].user \in HomesOf(c)
      BY <1>0, <3>1 DEF CanLoad, ReachInv, InReach, HomesOf
    <3>3. s[c].flags \subseteq 1..Len(Loaded(s[c].user))
      BY <2>2, <3>2 DEF ReachInv, InReach
    <3>4. load_mails(s[c]).mails = Loaded(s[c].user)
      BY <1>0, <2>2, LoadedOwned
    <3>5. Loaded(s[c].user) \in Seq(Mails) /\ Len(Loaded(s[c].user)) >= 1
      BY <1>0, <3>1, LoadedType DEF CanLoad
    <3>6. max_index(load_mails(s[c])) = Len(Loaded(s[c].user)) - 1
          /\ Len(Loaded(s[c].user)) \in Nat
      BY <3>4, <3>5 DEF max_index
    <3> QED BY <3>3, <3>6
  <2>5. x.wb = s[c].wb
    BY <2>1, <2>2, <2>4 DEF AuthStep, TransStep, Session
  <2>6. Len(s[c].wb) < WbSize
    BY <1>0, <2>2, <2>3
  <2>7. Len(write_to_buffer(s[c].wb, r)) = Len(s[c].wb) + 1
    BY <2>3, <2>6, BufferType
  <2>8. s'[c].wb = write_to_buffer(s[c].wb, r) /\ room' = room - 1 /\ cur' = c
    BY <2>1, <2>5 DEF Ran
  <2>9. Len(s'[c].wb) = MaxBatch - room'
    BY <1>0, <2>2, <2>3, <2>7, <2>8
  <2> QED BY <2>8, <2>9 DEF OneReplyPerCommand
<1> QED BY <1>1, <1>2, <1>3, <1>4, StepKinds
        DEF StepOf, Resets, Writes, Goes, Transferred

\* When the buffer has room for the replies of one read and no two connections, and no
\* two users one connection may name, share the reach of a mail directory, every command
\* of a pipelined read is answered exactly once, whatever is delivered meanwhile.
THEOREM AnsweredOnce ==
    WbSize >= MaxBatch /\ OneHomeEach => (Spec => []OneReplyPerCommand)
<1> SUFFICES ASSUME WbSize >= MaxBatch, OneHomeEach PROVE Spec => []OneReplyPerCommand
  OBVIOUS
<1>1. Init => FlowInv /\ ReachInv /\ OneReplyPerCommand
  BY ConstantsOK
     DEF Init, FlowInv, FlowControl, ReachInv, InReach, Blank, OneReplyPerCommand,
         ConstantsAssumption
<1>2. Base /\ FlowInv /\ ReachInv /\ OneReplyPerCommand /\ [Next]_vars
        => FlowInv' /\ ReachInv' /\ OneReplyPerCommand'
  BY FlowStep, ReachStep, ReplyStep
<1> QED BY <1>1, <1>2, BaseInvariant, PTL DEF Spec

=============================================================================
