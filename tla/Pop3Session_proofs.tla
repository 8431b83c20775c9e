------------------------ MODULE Pop3Session_proofs ------------------------
(***************************************************************************)
(* Proofs about Pop3Session, for every value of its constants.             *)
(***************************************************************************)
EXTENDS Pop3Session, FiniteSetTheorems, TLAPS

-----------------------------------------------------------------------------
(* The helpers. *)

\* A directory listing names at most MAX_MAILS files, all of them files of the user.
LEMMA LoadedType ==
    ASSUME box \subseteq Mails, NEW u
    PROVE  /\ Loaded(u) \in Seq(Mails)
           /\ Len(Loaded(u)) <= MAX_MAILS
           /\ \A i \in 1..Len(Loaded(u)) : Loaded(u)[i] \in Files(u)
           /\ \A i, j \in 1..Len(Loaded(u)) : Loaded(u)[i] = Loaded(u)[j] => i = j
           /\ Files(u) # {} => Len(Loaded(u)) >= 1
<1> DEFINE d == Dir[Files(u)]
<1>1. Files(u) \in SUBSET Mails
  BY DEF Files
<1>2. /\ d \in Seq(Mails)
      /\ {d[i] : i \in DOMAIN d} = Files(u)
      /\ \A i, j \in DOMAIN d : d[i] = d[j] => i = j
  BY <1>1, DirOK DEF DirAssumption
<1>3. MAX_MAILS \in Nat \ {0}
  BY ConstantsOK DEF ConstantsAssumption
<1>4. Len(d) \in Nat /\ DOMAIN d = 1..Len(d)
  BY <1>2
<1>5. Files(u) # {} => Len(d) >= 1
  <2>1. SUFFICES ASSUME Files(u) # {} PROVE Len(d) >= 1
    OBVIOUS
  <2>2. PICK m \in Files(u) : TRUE
    BY <2>1
  <2>3. PICK i \in DOMAIN d : d[i] = m
    BY <1>2, <2>2
  <2> QED BY <1>4, <2>3
<1>6. CASE Len(d) > MAX_MAILS
  <2>1. Loaded(u) = SubSeq(d, 1, MAX_MAILS)
    BY <1>6 DEF Loaded
  <2>2. /\ SubSeq(d, 1, MAX_MAILS) \in Seq(Mails)
        /\ Len(SubSeq(d, 1, MAX_MAILS)) = MAX_MAILS
        /\ \A i \in 1..MAX_MAILS : SubSeq(d, 1, MAX_MAILS)[i] = d[i]
    BY <1>2, <1>3, <1>4, <1>6
  <2>3. \A i \in 1..MAX_MAILS : i \in DOMAIN d /\ d[i] \in Files(u)
    BY <1>2, <1>3, <1>4, <1>6
  <2> QED BY <1>2, <1>3, <2>1, <2>2, <2>3
<1>7. CASE ~(Len(d) > MAX_MAILS)
  <2>1. Loaded(u) = d
    BY <1>7 DEF Loaded
  <2> QED BY <1>2, <1>3, <1>4, <1>5, <1>7, <2>1
<1> QED BY <1>6, <1>7

\* write_to_buffer keeps a sequence of replies.
LEMMA BufferType ==
    ASSUME NEW q \in Seq(Reply), NEW r \in Reply
    PROVE  /\ write_to_buffer(q, r) \in Seq(Reply)
           /\ Len(write_to_buffer(q, r)) <= Len(q) + 1
           /\ Len(q) < WbSize => Len(write_to_buffer(q, r)) = Len(q) + 1
BY DEF write_to_buffer

\* load_mails keeps a session a session.
LEMMA LoadType ==
    ASSUME box \subseteq Mails, NEW x \in Session
    PROVE  /\ load_mails(x) \in Session
           /\ load_mails(x) = [x EXCEPT !.mails = Loaded(x.user), !.orig = load_mails(x).orig]
           /\ Stat(load_mails(x)) \in Reply
<1> DEFINE y == [x EXCEPT !.mails = Loaded(x.user)]
           z == load_mails(x)
<1>1. y \in Session
  BY LoadedType DEF Session
<1>2. ASSUME NEW w \in Session
      PROVE  total_octates(w) \in Nat /\ mail_qty(w) \in Nat
  <2>1. w.mails \in Seq(Mails)
    BY DEF Session
  <2>2. {w.mails[i] : i \in Unflagged(w)} \in SUBSET Mails
    BY <2>1 DEF Unflagged
  <2>3. total_octates(w) \in Nat
    BY <2>2, ConstantsOK DEF ConstantsAssumption, total_octates
  <2>4. IsFiniteSet(1..Len(w.mails)) /\ DOMAIN w.mails = 1..Len(w.mails)
    BY <2>1, FS_Interval
  <2>5. IsFiniteSet(Unflagged(w))
    BY <2>4, FS_Subset DEF Unflagged
  <2> QED BY <2>3, <2>5, FS_CardinalityType DEF mail_qty
<1>3. total_octates(y) \in Nat
  BY <1>1, <1>2
<1>4. z = [y EXCEPT !.orig = total_octates(y)]
  BY DEF load_mails
<1>5. z \in Session
  BY <1>1, <1>3, <1>4 DEF Session
<1>6. z = [x EXCEPT !.mails = Loaded(x.user), !.orig = z.orig]
  BY <1>4 DEF Session
<1>7. Stat(z) \in Reply
  BY <1>2, <1>5 DEF Stat, Reply
<1> QED BY <1>5, <1>6, <1>7

-----------------------------------------------------------------------------
(* What a command does to the session it is run for. *)

\* A handler of the AUTHORIZATION table left the session as x and returned `to'.
AuthStep(c, x, to) ==
    /\ x = [s[c] EXCEPT !.user = x.user, !.pass = x.pass]
    /\ x.user \in Login[c] \cup {s[c].user}
    /\ x.pass = s[c].pass \/ to = "TRANSACTION"
    /\ \/ to = s[c].stm /\ x = s[c]
       \/ to \in {"AUTH", "DONE"}
       \/ /\ to = "TRANSACTION" /\ x.user \in Accounts /\ x.user = s[c].user
          /\ x.pass = x.user
       \/ to = "READING_MAIL" /\ s[c].user = NoUser /\ Len(s[c].wb) >= WbSize

\* The session before the flags change: as it was, or with its mails loaded again.
MaybeLoaded(c, y) == y = s[c] \/ (CanLoad(s[c]) /\ y = load_mails(s[c]))

\* LIST was sent with the number of a flag that the listing just loaded does not reach.
FlagBeyondListing(c) ==
    /\ CanLoad(s[c])
    /\ \E i \in s[c].flags : i - 1 > max_index(load_mails(s[c]))

\* A handler of the TRANSACTION table left the session as x and returned `to'.
TransStep(c, x, to) ==
    /\ x.stm = s[c].stm /\ x.user = s[c].user /\ x.pass = s[c].pass
    /\ \/ x.wb = s[c].wb
       \/ x.wb = write_to_buffer(s[c].wb, Err) /\ FlagBeyondListing(c)
    /\ to \in {s[c].stm, "TRANSACTION", "READING_MAIL", "UPDATE", "ERROR"}
    /\ \E y \in Session :
        /\ MaybeLoaded(c, y)
        /\ x.mails = y.mails
        /\ \/ x.flags = y.flags /\ x.marked = y.marked
           \/ \E i \in 1..Len(y.mails) :
                /\ CanLoad(s[c]) /\ y = load_mails(s[c])
                /\ x.flags = y.flags \cup {i}
                /\ x.marked = y.marked \cup {y.mails[i]}
           \/ /\ x.flags = {i \in y.flags : i - 1 > max_index(y)}
              /\ x.marked = {}

\* Only STAT, and LIST without an argument, queue a count of the directory they loaded.
StatReply(c, x, r, to) ==
    /\ curr_state = "TRANSACTION" /\ CanLoad(s[c]) /\ x = load_mails(s[c])
    /\ r = Stat(x) /\ to = "TRANSACTION"

\* What every command does.
CommandStep(c) ==
    /\ server = "running" /\ cur = c /\ room > 0
    /\ \/ \E why \in Stops : Stop(why)
       \/ \E x \in Session, r \in Reply, to \in ReadResults :
            /\ Return(c, x, r, to)
            /\ r.kind # "stat" \/ StatReply(c, x, r, to)
            /\ \/ curr_state = "AUTH" /\ AuthStep(c, x, to)
               \/ curr_state = "TRANSACTION" /\ TransStep(c, x, to)

\* While client_read runs for c its machine is in AUTH or TRANSACTION.
ReadState ==
    /\ \A c \in Conns : cur = c => s[c].stm \in {"AUTH", "TRANSACTION"}

\* The two plain answers are replies, and no count.
LEMMA RepliesType ==
    Ok \in Reply /\ Err \in Reply /\ Ok.kind # "stat" /\ Err.kind # "stat"
BY DEF Ok, Err, Reply

\* Every handler is an instance of CommandStep.

\* Every command handler is of the kind CommandStep describes.
LEMMA CommandIsStep ==
    ASSUME TypeOK, ReadState, NEW c \in Conns, Command(c)
    PROVE  CommandStep(c)
<1> USE RepliesType
<1> DEFINE x0 == s[c]
           z == load_mails(s[c])
<1>1. /\ x0 \in Session /\ room \in Nat /\ MAX_MAILS \in Nat \ {0}
      /\ Login[c] \subseteq Users
  BY ConstantsOK DEF TypeOK, ConstantsAssumption
<1>2. /\ z \in Session /\ Stat(z) \in Reply
      /\ z = [x0 EXCEPT !.mails = Loaded(x0.user), !.orig = z.orig]
  BY <1>1, LoadType DEF TypeOK
<1>3. cur = c => x0.stm \in {"AUTH", "TRANSACTION"}
  BY DEF ReadState
<1>4. z.stm = x0.stm /\ z.wb = x0.wb /\ z.user = x0.user /\ z.pass = x0.pass
      /\ z.flags = x0.flags /\ z.marked = x0.marked
  BY <1>1, <1>2 DEF Session
<1>5. ASSUME NEW x \in {x0, z}, NEW r \in Reply, NEW to \in ReadResults,
             x = x0 \/ CanLoad(x0), Dispatch(c, "TRANSACTION"),
             Return(c, x, r, to), r.kind # "stat" \/ StatReply(c, x, r, to),
             to \in {x0.stm, "TRANSACTION", "READING_MAIL", "UPDATE", "ERROR"}
      PROVE  CommandStep(c)
  <2>1. TransStep(c, x, to)
    BY <1>1, <1>2, <1>4, <1>5 DEF TransStep, MaybeLoaded
  <2> QED BY <1>1, <1>2, <1>5, <2>1 DEF CommandStep, Dispatch
<1>6. CASE comparator(c)
  BY <1>6 DEF comparator, CommandStep, Stops
<1>7. CASE invalid_command_handler(c)
  <2>1. CASE Dispatch(c, "AUTH")
    <3>1. AuthStep(c, x0, x0.stm)
      BY <1>1 DEF AuthStep, Session
    <3> QED BY <1>1, <1>3, <1>7, <2>1, <3>1 DEF CommandStep, Dispatch, invalid_command_handler, ReadResults
  <2>2. CASE Dispatch(c, "TRANSACTION")
    BY <1>1, <1>3, <1>5, <1>7, <2>2 DEF invalid_command_handler, ReadResults, Dispatch
  <2> QED BY <1>7, <2>1, <2>2 DEF invalid_command_handler
<1>8. CASE capa_handler(c)
  <2>1. AuthStep(c, x0, "AUTH")
    BY <1>1 DEF AuthStep, Session
  <2>2. CASE Dispatch(c, "AUTH") /\ Return(c, x0, Ok, "AUTH")
    BY <1>1, <2>1, <2>2 DEF CommandStep, Dispatch, ReadResults
  <2>3. CASE Dispatch(c, "TRANSACTION") /\ Return(c, x0, Ok, "TRANSACTION")
    BY <1>5, <2>3 DEF ReadResults
  <2> QED BY <1>8, <2>2, <2>3 DEF capa_handler
<1>9. CASE user_handler(c)
  <2>1. PICK u \in Login[c] \cup {x0.user} : Return(c, [x0 EXCEPT !.user = u], Ok, "AUTH")
    BY <1>9 DEF user_handler
  <2> DEFINE x == [x0 EXCEPT !.user = u]
  <2>2. x \in Session /\ AuthStep(c, x, "AUTH")
    BY <1>1 DEF AuthStep, Session
  <2> QED BY <1>9, <2>1, <2>2 DEF CommandStep, user_handler, Dispatch, ReadResults
<1>10. CASE pass_handler(c)
  <2>1. CASE x0.user = NoUser /\ Return(c, x0, Err,
                    IF Len(x0.wb) < WbSize THEN "AUTH" ELSE "READING_MAIL")
    <3>1. Len(x0.wb) \in Nat /\ WbSize \in Nat
      BY <1>1, ConstantsOK DEF ConstantsAssumption, Session
    <3>2. CASE Len(x0.wb) < WbSize
      <4>1. AuthStep(c, x0, "AUTH")
        BY <1>1 DEF AuthStep, Session
      <4> QED BY <1>1, <1>10, <2>1, <3>2, <4>1 DEF CommandStep, pass_handler, Dispatch, ReadResults
    <3>3. CASE ~(Len(x0.wb) < WbSize)
      <4>1. Len(x0.wb) >= WbSize
        BY <3>1, <3>3
      <4>2. AuthStep(c, x0, "AUTH")
        BY <1>1 DEF AuthStep, Session
      <4>3. AuthStep(c, x0, "READING_MAIL")
        BY <2>1, <4>1, <4>2 DEF AuthStep
      <4> QED BY <1>1, <1>10, <2>1, <3>3, <4>3 DEF CommandStep, pass_handler, Dispatch, ReadResults
    <3> QED BY <3>2, <3>3
  <2>2. CASE x0.user \in Accounts /\ Return(c, [x0 EXCEPT !.pass = x0.user], Ok, "TRANSACTION")
    <3> DEFINE x == [x0 EXCEPT !.pass = x0.user]
    <3>1. x \in Session /\ AuthStep(c, x, "TRANSACTION")
      BY <1>1, <2>2 DEF AuthStep, Session
    <3> QED BY <1>10, <2>2, <3>1 DEF CommandStep, pass_handler, Dispatch, ReadResults
  <2>3. CASE Return(c, x0, Err, "AUTH")
    <3>1. AuthStep(c, x0, "AUTH")
      BY <1>1 DEF AuthStep, Session
    <3> QED BY <1>1, <1>10, <2>3, <3>1 DEF CommandStep, pass_handler, Dispatch, ReadResults
  <2> QED BY <1>10, <2>1, <2>2, <2>3 DEF pass_handler
<1>11. CASE auth_quit_handler(c)
  <2>1. AuthStep(c, x0, "DONE")
    BY <1>1 DEF AuthStep, Session
  <2> QED BY <1>1, <1>11, <2>1 DEF CommandStep, auth_quit_handler, Dispatch, ReadResults
<1>12. CASE noop(c)
  BY <1>1, <1>3, <1>5, <1>12 DEF noop, Dispatch, ReadResults
<1>13. CASE trans_quit_handler(c)
  BY <1>5, <1>13 DEF trans_quit_handler, ReadResults
<1>14. CASE LoadFails(c)
  BY <1>14 DEF LoadFails, CommandStep, Dispatch, Stops
<1>15. CASE stat_handler(c)
  <2>1. Dispatch(c, "TRANSACTION") /\ CanLoad(x0) /\ Return(c, z, Stat(z), "TRANSACTION")
    BY <1>15 DEF stat_handler
  <2>2. StatReply(c, z, Stat(z), "TRANSACTION")
    BY <2>1 DEF StatReply, Dispatch
  <2> QED BY <1>2, <1>5, <2>1, <2>2 DEF ReadResults
<1>16. CASE list_handler(c)
  <2>1. Dispatch(c, "TRANSACTION") /\ CanLoad(x0)
    BY <1>16 DEF list_handler
  <2>2. CASE \E r \in {Ok, Err} : Return(c, z, r, "TRANSACTION")
    BY <1>5, <2>1, <2>2 DEF ReadResults
  <2>3. CASE /\ Return(c, [z EXCEPT !.wb = write_to_buffer(@, Err)], Err, "TRANSACTION")
             /\ \E i \in z.flags : i - 1 > max_index(z)
    <3> DEFINE x == [z EXCEPT !.wb = write_to_buffer(@, Err)]
    <3>0. FlagBeyondListing(c)
      BY <1>4, <2>1, <2>3 DEF FlagBeyondListing
    <3>1. x0.wb \in Seq(Reply) /\ write_to_buffer(x0.wb, Err) \in Seq(Reply)
      BY <1>1, BufferType DEF Session
    <3>2. x = [z EXCEPT !.wb = write_to_buffer(x0.wb, Err)]
      BY <1>4
    <3>3. x \in Session
      BY <1>2, <3>1, <3>2 DEF Session
    <3>4. /\ x.stm = x0.stm /\ x.user = x0.user /\ x.pass = x0.pass
          /\ x.wb = write_to_buffer(x0.wb, Err)
          /\ x.mails = z.mails /\ x.flags = z.flags /\ x.marked = z.marked
      BY <1>2, <1>4, <3>2 DEF Session
    <3>5. TransStep(c, x, "TRANSACTION")
      BY <1>2, <2>1, <3>0, <3>4 DEF TransStep, MaybeLoaded
    <3> QED BY <2>1, <2>3, <3>3, <3>5 DEF CommandStep, Dispatch, ReadResults
  <2>4. CASE Stop("list_overrun")
    BY <2>1, <2>4 DEF CommandStep, Dispatch, Stops
  <2> QED BY <1>16, <2>2, <2>3, <2>4 DEF list_handler
<1>17. CASE retr_handler(c)
  <2>1. Dispatch(c, "TRANSACTION") /\ CanLoad(x0)
    BY <1>17 DEF retr_handler
  <2>2. CASE \E r \in {Ok, Err}, to \in {z.stm, "TRANSACTION", "READING_MAIL", "ERROR"} :
                Return(c, z, r, to)
    BY <1>3, <1>4, <1>5, <2>1, <2>2 DEF ReadResults, Dispatch
  <2> QED BY <1>17, <2>2 DEF retr_handler
<1>18. CASE dele_handler(c)
  <2>1. Dispatch(c, "TRANSACTION") /\ CanLoad(x0)
    BY <1>18 DEF dele_handler
  <2>2. CASE \E to \in {z.stm, "TRANSACTION"} : Return(c, z, Err, to)
    BY <1>3, <1>4, <1>5, <2>1, <2>2 DEF ReadResults, Dispatch
  <2>3. CASE \E i \in 0..MaxArg :
                /\ Selectable(z, i)
                /\ Return(c, [z EXCEPT !.flags = @ \cup {i}, !.marked = @ \cup {z.mails[i]}],
                          Ok, z.stm)
    <3>1. PICK i \in 0..MaxArg :
                /\ Selectable(z, i)
                /\ Return(c, [z EXCEPT !.flags = @ \cup {i}, !.marked = @ \cup {z.mails[i]}],
                          Ok, z.stm)
      BY <2>3
    <3> DEFINE x == [z EXCEPT !.flags = z.flags \cup {i}, !.marked = z.marked \cup {z.mails[i]}]
    <3>2. z.mails = Loaded(x0.user) /\ z.mails \in Seq(Mails)
      BY <1>1, <1>2 DEF Session
    <3>3. Len(z.mails) >= 1 /\ Len(z.mails) <= MAX_MAILS /\ Len(z.mails) \in Nat
      BY <2>1, <3>2, LoadedType DEF CanLoad, TypeOK
    <3>4. i \in 1..Len(z.mails) /\ i \in 1..MAX_MAILS
      BY <1>1, <3>1, <3>2, <3>3, ConstantsOK DEF ConstantsAssumption, Selectable, max_index
    <3>5. z.mails[i] \in Mails
      BY <3>2, <3>4
    <3>6. x \in Session
      BY <1>2, <3>4, <3>5 DEF Session
    <3>7. /\ x.stm = x0.stm /\ x.user = x0.user /\ x.pass = x0.pass /\ x.wb = x0.wb
          /\ x.mails = z.mails /\ x.flags = z.flags \cup {i}
          /\ x.marked = z.marked \cup {z.mails[i]}
      BY <1>2, <1>4 DEF Session
    <3>8. TransStep(c, x, z.stm)
      BY <1>2, <1>4, <2>1, <3>4, <3>7 DEF TransStep, MaybeLoaded
    <3> QED BY <1>3, <1>4, <2>1, <3>1, <3>6, <3>8 DEF CommandStep, Dispatch, ReadResults
  <2> QED BY <1>18, <2>2, <2>3 DEF dele_handler
<1>19. CASE rset_handler(c)
  <2> DEFINE x == [x0 EXCEPT !.flags = {i \in x0.flags : i - 1 > max_index(x0)}, !.marked = {}]
             r == [kind |-> "rset", n |-> max_index(x0) + 1, octets |-> x0.orig]
  <2>1. x \in Session
    BY <1>1 DEF Session
  <2>2. r \in Reply
    <3>1. max_index(x0) \in Nat
      BY <1>1 DEF max_index, Session
    <3> QED BY <1>1, <3>1 DEF Reply, Session
  <2>4. r.kind # "stat"
    OBVIOUS
  <2>3. TransStep(c, x, x0.stm)
    <3>1. /\ x.stm = x0.stm /\ x.user = x0.user /\ x.pass = x0.pass /\ x.wb = x0.wb
          /\ x.mails = x0.mails /\ x.flags = {i \in x0.flags : i - 1 > max_index(x0)}
          /\ x.marked = {}
      BY <1>1 DEF Session
    <3> QED BY <1>1, <3>1 DEF TransStep, MaybeLoaded
  <2> QED BY <1>3, <1>19, <2>1, <2>2, <2>3, <2>4
          DEF CommandStep, rset_handler, Dispatch, ReadResults
<1> QED BY <1>6, <1>7, <1>8, <1>9, <1>10, <1>11, <1>12, <1>13, <1>14, <1>15, <1>16,
           <1>17, <1>18, <1>19 DEF Command

-----------------------------------------------------------------------------
(* Types, and the connection counter. *)

\* The counter bounds the live sessions: without it, `connections - 1' in pop3_destroy
\* might leave the natural numbers.
Base == TypeOK /\ ReadState /\ CountsLiveSessions

\* There are finitely many live sessions.
LEMMA LiveFinite == IsFiniteSet(Live) /\ Cardinality(Live) \in Nat
BY ConstantsOK, FS_Subset, FS_CardinalityType DEF ConstantsAssumption, Live

\* A cleared session has its type.
LEMMA BlankType == Blank("CLOSED") \in Session /\ Blank("NULL") \in Session
BY DEF Blank, Session, States

\* Ending a session keeps the types and the bound, as it removes one live session.
LEMMA DoneKeepsCount ==
    ASSUME TypeOK, CountsLiveSessions, NEW c \in Conns, s[c].stm # "CLOSED", pop3_done(c)
    PROVE  /\ s' \in [Conns -> Session] /\ connections' \in Nat /\ full' \subseteq Conns
           /\ CountsLiveSessions'
<1>1. s' = [s EXCEPT ![c] = Blank("CLOSED")] /\ connections' = connections - 1
      /\ full' \subseteq Conns
  BY DEF pop3_done, TypeOK
<1>2. s' \in [Conns -> Session]
  BY <1>1, BlankType DEF TypeOK
<1>3. c \in Live /\ Live' = Live \ {c}
  BY <1>1, BlankType DEF Live, TypeOK, Blank
<1>4. Cardinality(Live') = Cardinality(Live) - 1
  BY <1>3, LiveFinite, FS_RemoveElement
<1>5. Cardinality(Live) >= 1
  BY <1>3, LiveFinite, FS_EmptySet
<1> QED BY <1>1, <1>2, <1>4, <1>5, LiveFinite DEF TypeOK, CountsLiveSessions

\* A step that leaves the machine of every session in or out of CLOSED keeps the bound.
LEMMA SameLive ==
    ASSUME CountsLiveSessions, connections' = connections,
           \A c \in Conns : s'[c].stm = "CLOSED" <=> s[c].stm = "CLOSED"
    PROVE  CountsLiveSessions'
<1>1. Live' = Live
  BY DEF Live
<1> QED BY <1>1 DEF CountsLiveSessions

\* Base holds when the server starts.
LEMMA BaseInit == Init => Base
<1> SUFFICES ASSUME Init PROVE Base
  OBVIOUS
<1>1. TypeOK
  BY BlankType, ConstantsOK DEF Init, TypeOK, ConstantsAssumption, ReadResults
<1>2. Live = {}
  BY DEF Init, Live, Blank
<1>3. CountsLiveSessions
  BY <1>1, <1>2, FS_EmptySet DEF CountsLiveSessions, TypeOK
<1> QED BY <1>1, <1>3, ConstantsOK DEF Base, ReadState, Init, ConstantsAssumption

\* Every command handler keeps it.
LEMMA CommandKeepsBase ==
    ASSUME Base, NEW c \in Conns, Command(c)
    PROVE  Base'
<1>1. CommandStep(c)
  BY CommandIsStep DEF Base
<1>2. CASE \E why \in Stops : Stop(why)
  <2>1. UNCHANGED <<cur, room, curr_state, s, box, connections, full>> /\ server' \in Stops
    BY <1>2 DEF Stop
  <2>2. CountsLiveSessions'
    BY <2>1, SameLive DEF Base
  <2> QED BY <2>1, <2>2 DEF Base, TypeOK, ReadState
<1>3. CASE \E x \in Session, r \in Reply, to \in ReadResults :
            /\ Return(c, x, r, to)
            /\ AuthStep(c, x, to) \/ TransStep(c, x, to)
  <2>1. PICK x \in Session, r \in Reply, to \in ReadResults :
            /\ Return(c, x, r, to)
            /\ AuthStep(c, x, to) \/ TransStep(c, x, to)
    BY <1>3
  <2> DEFINE y == [x EXCEPT !.interest = "WRITE", !.wb = write_to_buffer(x.wb, r)]
  <2>2. s' = [s EXCEPT ![c] = y] /\ room' = room - 1 /\ curr_state' = to
        /\ UNCHANGED <<server, cur, box, connections, full>>
    BY <2>1 DEF Return
  <2>3. x.stm = s[c].stm
    BY <2>1 DEF AuthStep, TransStep, Base, TypeOK, Session
  <2>4. y \in Session /\ y.stm = s[c].stm
    <3>1. write_to_buffer(x.wb, r) \in Seq(Reply)
      BY BufferType DEF Session
    <3> QED BY <2>3, <3>1 DEF Session
  <2>5. TypeOK'
    <3>1. room - 1 \in 0..MaxBatch
      BY <1>1, ConstantsOK DEF Base, TypeOK, CommandStep, ConstantsAssumption
    <3> QED BY <2>2, <2>4, <3>1 DEF Base, TypeOK
  <2>6. CountsLiveSessions'
    BY <2>2, <2>4, SameLive DEF Base, TypeOK
  <2>7. ReadState'
    BY <2>2, <2>4 DEF Base, TypeOK, ReadState
  <2> QED BY <2>5, <2>6, <2>7 DEF Base
<1> QED BY <1>1, <1>2, <1>3 DEF CommandStep

\* Every step keeps it.
LEMMA BaseStep == Base /\ [Next]_vars => Base'
<1> SUFFICES ASSUME Base, [Next]_vars PROVE Base'
  OBVIOUS
<1> USE BlankType
<1>1. ASSUME NEW c \in Conns, pop3_passive_accept(c)
      PROVE  Base'
  <2>1. s' = [s EXCEPT ![c] = Blank("NULL")] /\ connections' = connections + 1
    BY <1>1 DEF pop3_passive_accept
  <2>2. Live' = Live \cup {c} /\ c \notin Live
    BY <1>1, <2>1 DEF Live, Base, TypeOK, Blank, pop3_passive_accept
  <2>3. CountsLiveSessions'
    <3>1. Cardinality(Live') = Cardinality(Live) + 1
      BY <2>2, LiveFinite, FS_AddElement
    <3> QED BY <2>1, <3>1, LiveFinite DEF Base, TypeOK, CountsLiveSessions
  <2> QED BY <1>1, <2>1, <2>3, ConstantsOK
          DEF Base, TypeOK, ReadState, pop3_passive_accept, Idle, ConstantsAssumption
<1>2. ASSUME NEW c \in Conns, client_write(c)
      PROVE  Base'
  <2>1. ReadState'
    BY <1>2, ConstantsOK DEF client_write, ReadState, Idle, ConstantsAssumption
  <2>2. CASE pop3_done(c)
    BY <1>2, <2>1, <2>2, DoneKeepsCount DEF client_write, Base, TypeOK
  <2>3. CASE ~pop3_done(c)
    <3> DEFINE x == Arrived(s[c])
    <3>1. PICK k \in 0..Len(x.wb) :
            /\ s' = [s EXCEPT ![c] = [x EXCEPT !.wb = SubSeq(@, k + 1, Len(@)),
                                       !.interest = IF k = Len(x.wb) THEN "READ" ELSE @]]
            /\ full' \in {full, full \cup ({c} \cap Slow)}
            /\ UNCHANGED connections
      BY <1>2, <2>3 DEF client_write
    <3>2. x \in Session /\ x.stm # "CLOSED"
      <4>1. s[c].wb \in Seq(Reply) /\ write_to_buffer(s[c].wb, Ok) \in Seq(Reply)
        BY BufferType, RepliesType DEF Base, TypeOK, Session
      <4> QED BY <1>2, <4>1 DEF Arrived, Base, TypeOK, Session, States, client_write
    <3> DEFINE q == SubSeq(x.wb, k + 1, Len(x.wb))
               i == IF k = Len(x.wb) THEN "READ" ELSE x.interest
               y == [x EXCEPT !.wb = q, !.interest = i]
    <3>3. q \in Seq(Reply)
      <4>1. x.wb \in Seq(Reply) /\ k \in Nat
        BY <3>2 DEF Session
      <4> QED BY <4>1
    <3>4. i \in {"READ", "WRITE"}
      BY <3>2 DEF Session
    <3>5. y \in Session /\ y.stm = x.stm
      BY <3>2, <3>3, <3>4 DEF Session
    <3>6. s' = [s EXCEPT ![c] = y]
      BY <3>1
    <3>7. TypeOK'
      BY <1>2, <3>1, <3>5, <3>6 DEF Base, TypeOK, client_write
    <3>8. CountsLiveSessions'
      BY <1>2, <3>1, <3>2, <3>5, <3>6, SameLive DEF Base, TypeOK, client_write
    <3> QED BY <2>1, <3>7, <3>8 DEF Base
  <2> QED BY <2>2, <2>3
<1>3. ASSUME NEW c \in Conns, SocketFails(c)
      PROVE  Base'
  <2>1. ReadState'
    BY <1>3, ConstantsOK DEF SocketFails, ReadState, Idle, ConstantsAssumption
  <2> QED BY <1>3, <2>1, DoneKeepsCount DEF SocketFails, Base, TypeOK
<1>4. ASSUME NEW c \in Conns, Recv(c)
      PROVE  Base'
  <2>1. CountsLiveSessions'
    BY <1>4, SameLive DEF Recv, Base
  <2> QED BY <1>4, <2>1, ConstantsOK
          DEF Recv, Base, TypeOK, ReadState, ConstantsAssumption, ReadResults
<1>5. ASSUME NEW c \in Conns, Command(c)
      PROVE  Base'
  BY <1>5, CommandKeepsBase
<1>6. ASSUME NEW c \in Conns, Jump(c)
      PROVE  Base'
  <2>1. /\ cur = c /\ cur' = NoConn /\ room' = 0 /\ curr_state' = "AUTH"
        /\ server' = server /\ s[c].stm \in {"AUTH", "TRANSACTION"}
        /\ box' \subseteq box
    BY <1>6 DEF Jump, Base, ReadState
  <2>2. ReadState'
    BY <2>1, ConstantsOK DEF ReadState, ConstantsAssumption
  <2>3. CASE pop3_done(c)
    BY <2>1, <2>2, <2>3, DoneKeepsCount, ConstantsOK DEF Base, TypeOK, ReadResults, ConstantsAssumption
  <2>4. CASE ~pop3_done(c)
    <3>1. PICK st \in {"AUTH", "TRANSACTION", "READING_MAIL", "UPDATE"} :
              /\ s' = [s EXCEPT ![c] = [s[c] EXCEPT !.stm = st]]
              /\ connections' = connections /\ full' = full
      BY <1>6, <2>4 DEF Jump
    <3>2. [s[c] EXCEPT !.stm = st] \in Session
      BY DEF Base, TypeOK, Session, States
    <3>3. CountsLiveSessions'
      BY <2>1, <3>1, <3>2, SameLive DEF Base, TypeOK, Session
    <3> QED BY <2>1, <2>2, <3>1, <3>2, <3>3, ConstantsOK
            DEF Base, TypeOK, ReadResults, ConstantsAssumption
  <2> QED BY <2>3, <2>4
<1>7. ASSUME NEW c \in Conns, MailDone(c)
      PROVE  Base'
  <2>1. PICK i \in {"READ", "WRITE"} :
            s' = [s EXCEPT ![c] = [s[c] EXCEPT !.stm = "TRANSACTION", !.wb = <<>>, !.interest = i]]
    BY <1>7 DEF MailDone
  <2>4. full' \subseteq Conns
    BY <1>7 DEF MailDone, Base, TypeOK
  <2>2. [s[c] EXCEPT !.stm = "TRANSACTION", !.wb = <<>>, !.interest = i] \in Session
    <3>1. <<>> \in Seq(Reply) /\ s[c] \in Session
      BY DEF Base, TypeOK
    <3> QED BY <3>1 DEF Session, States
  <2>3. CountsLiveSessions'
    BY <1>7, <2>1, <2>2, SameLive DEF Base, TypeOK, Session, MailDone
  <2> QED BY <1>7, <2>1, <2>2, <2>3, <2>4, ConstantsOK
          DEF Base, TypeOK, ReadState, MailDone, Idle, ConstantsAssumption
<1>8. ASSUME NEW c \in Conns, MailFails(c)
      PROVE  Base'
  <2>1. ReadState'
    BY <1>8, ConstantsOK DEF MailFails, ReadState, Idle, ConstantsAssumption
  <2>2. CASE pop3_done(c)
    BY <1>8, <2>1, <2>2, DoneKeepsCount DEF MailFails, Base, TypeOK
  <2>3. CASE ~pop3_done(c)
    <3>1. s' = [s EXCEPT ![c] = Blank("CLOSED")] /\ connections' = connections
          /\ full' = full \ {c}
      BY <1>8, <2>3 DEF MailFails
    <3>2. Live' \in SUBSET Live
      BY <3>1 DEF Live, Blank, Base, TypeOK
    <3>3. CountsLiveSessions'
      <4>1. Cardinality(Live') <= Cardinality(Live) /\ Cardinality(Live') \in Nat
        BY <3>2, LiveFinite, FS_Subset, FS_CardinalityType
      <4> QED BY <3>1, <4>1, LiveFinite DEF CountsLiveSessions, Base, TypeOK
    <3> QED BY <1>8, <2>1, <3>1, <3>3 DEF MailFails, Base, TypeOK
  <2> QED BY <2>2, <2>3
<1>9. CASE AcceptFails
  <2>1. CountsLiveSessions'
    BY <1>9, SameLive DEF AcceptFails, Base
  <2> QED BY <1>9, <2>1 DEF AcceptFails, Base, TypeOK, ReadState, Stops
<1>10. CASE Deliver
  <2>1. CountsLiveSessions'
    BY <1>10, SameLive DEF Deliver, Base
  <2> QED BY <1>10, <2>1, ConstantsOK DEF Deliver, Base, TypeOK, ReadState, ConstantsAssumption
<1>11. CASE Halted \/ UNCHANGED vars
  <2>1. UNCHANGED vars
    BY <1>11 DEF Halted
  <2>2. CountsLiveSessions'
    BY <2>1, SameLive DEF vars, Base
  <2> QED BY <2>1, <2>2 DEF vars, Base, TypeOK, ReadState
<1>12. ASSUME NEW c \in Conns, ClientReads(c)
       PROVE  Base'
  <2>1. CountsLiveSessions'
    BY <1>12, SameLive DEF ClientReads, Base
  <2> QED BY <1>12, <2>1 DEF ClientReads, Base, TypeOK, ReadState
<1> QED BY <1>1, <1>2, <1>3, <1>4, <1>5, <1>6, <1>7, <1>8, <1>9, <1>10, <1>11, <1>12 DEF Next

\* So it holds in every state.
LEMMA BaseInvariant == Spec => []Base
BY BaseInit, BaseStep, PTL DEF Spec

\* Every variable keeps its type, whatever clients send and however transfers end; in
\* particular the unsigned counter `connections' never wraps below zero.
THEOREM TypeCorrect == Spec => []TypeOK
BY BaseInvariant, PTL DEF Base

\* The counter `connections' is at least the number of live sessions.
THEOREM ConnectionsBoundLive == Spec => []CountsLiveSessions
BY BaseInvariant, PTL DEF Base

-----------------------------------------------------------------------------
(* Flow control. *)

\* FlowControl, and for the connection inside client_read: as soon as a command moved
\* curr_state the descriptor is watched for writing.
FlowInv ==
    /\ FlowControl
    /\ \A c \in Conns : cur = c /\ curr_state # s[c].stm => s[c].interest = "WRITE"

\* A step of connection c leaves the other sessions alone.
LEMMA OthersSame ==
    ASSUME TypeOK, NEW c \in Conns, NEW x, s' = [s EXCEPT ![c] = x]
    PROVE  s'[c] = x /\ \A d \in Conns \ {c} : s'[d] = s[d]
BY DEF TypeOK

\* The session after Return.
LEMMA ReturnSession ==
    ASSUME TypeOK, NEW c \in Conns, NEW x \in Session, NEW r \in Reply, NEW to,
           Return(c, x, r, to)
    PROVE  /\ s'[c] = [x EXCEPT !.interest = "WRITE", !.wb = write_to_buffer(x.wb, r)]
           /\ s'[c].stm = x.stm /\ s'[c].interest = "WRITE" /\ s'[c].user = x.user
           /\ s'[c].wb = write_to_buffer(x.wb, r) /\ s'[c].pass = x.pass
           /\ s'[c].mails = x.mails /\ s'[c].flags = x.flags /\ s'[c].marked = x.marked
           /\ \A d \in Conns \ {c} : s'[d] = s[d]
           /\ curr_state' = to /\ room' = room - 1
           /\ UNCHANGED <<server, cur, box, connections, full>>
<1> DEFINE y == [x EXCEPT !.interest = "WRITE", !.wb = write_to_buffer(x.wb, r)]
<1>1. s' = [s EXCEPT ![c] = y]
  BY DEF Return
<1>2. curr_state' = to /\ room' = room - 1 /\ UNCHANGED <<server, cur, box, connections, full>>
  BY DEF Return
<1>3. /\ y.stm = x.stm /\ y.interest = "WRITE" /\ y.user = x.user
      /\ y.wb = write_to_buffer(x.wb, r) /\ y.pass = x.pass
      /\ y.mails = x.mails /\ y.flags = x.flags /\ y.marked = x.marked
  BY DEF Session
<1> HIDE DEF y
<1>4. s'[c] = y /\ \A d \in Conns \ {c} : s'[d] = s[d]
  BY <1>1, OthersSame
<1> QED BY <1>2, <1>3, <1>4 DEF y

\* Every step keeps the interest of a session in tune with its buffer.
LEMMA FlowStep == Base /\ FlowInv /\ [Next]_vars => FlowInv'
<1> SUFFICES ASSUME Base, FlowInv, [Next]_vars PROVE FlowInv'
  OBVIOUS
<1> USE DEF FlowInv, FlowControl
<1>0. TypeOK
  BY DEF Base
<1>1. ASSUME NEW c \in Conns, pop3_passive_accept(c) PROVE FlowInv'
  BY <1>0, <1>1, OthersSame, ConstantsOK DEF pop3_passive_accept, Blank, Idle, ConstantsAssumption
<1>2. ASSUME NEW c \in Conns, client_write(c) PROVE FlowInv'
  <2>0. cur' = NoConn /\ cur' \notin Conns
    BY <1>2, ConstantsOK DEF client_write, Idle, ConstantsAssumption
  <2>1. CASE pop3_done(c)
    BY <1>0, <1>2, <2>0, <2>1, OthersSame DEF pop3_done, Blank
  <2>2. CASE ~pop3_done(c)
    <3> DEFINE x == Arrived(s[c])
    <3>1. PICK k \in 0..Len(x.wb) :
            /\ x.stm # "UPDATE"
            /\ s' = [s EXCEPT ![c] = [x EXCEPT !.wb = SubSeq(x.wb, k + 1, Len(x.wb)),
                                       !.interest = IF k = Len(x.wb) THEN "READ" ELSE x.interest]]
      BY <1>2, <2>2 DEF client_write
    <3>2. x \in Session /\ x.interest = "WRITE" /\ x.stm \in {"AUTH", "TRANSACTION"}
      <4>1. s[c].wb \in Seq(Reply) /\ write_to_buffer(s[c].wb, Ok) \in Seq(Reply)
        BY <1>0, BufferType, RepliesType DEF TypeOK, Session
      <4>2. s[c] \in Session /\ s[c].interest = "WRITE"
            /\ s[c].stm \in {"NULL", "AUTH", "TRANSACTION", "UPDATE"}
        BY <1>0, <1>2 DEF TypeOK, client_write
      <4>3. CASE s[c].stm = "NULL"
        BY <4>1, <4>2, <4>3 DEF Arrived, Session, States
      <4>4. CASE s[c].stm # "NULL"
        BY <3>1, <4>2, <4>4 DEF Arrived
      <4> QED BY <4>3, <4>4
    <3>3. x.wb \in Seq(Reply) /\ k \in Nat
      BY <3>2 DEF Session
    <3>4. k = Len(x.wb) => SubSeq(x.wb, k + 1, Len(x.wb)) = <<>>
      BY <3>3
    <3>5. s'[c].stm = x.stm
          /\ (s'[c].interest = "READ" => s'[c].wb = <<>>)
          /\ \A d \in Conns \ {c} : s'[d] = s[d]
      <4> DEFINE q == SubSeq(x.wb, k + 1, Len(x.wb))
                 y == [x EXCEPT !.wb = q, !.interest = IF k = Len(x.wb) THEN "READ" ELSE x.interest]
      <4>1. /\ y.stm = x.stm /\ y.wb = q
            /\ y.interest = IF k = Len(x.wb) THEN "READ" ELSE x.interest
        BY <3>2 DEF Session
      <4>2. y.interest = "READ" => y.wb = <<>>
        BY <3>2, <3>4, <4>1
      <4> HIDE DEF y
      <4>3. s' = [s EXCEPT ![c] = y]
        BY <3>1 DEF y
      <4>4. s'[c] = y /\ \A d \in Conns \ {c} : s'[d] = s[d]
        BY <1>0, <4>3, OthersSame
      <4> QED BY <4>1, <4>2, <4>4
    <3> QED BY <2>0, <3>2, <3>5
  <2> QED BY <2>1, <2>2
<1>3. ASSUME NEW c \in Conns, SocketFails(c) PROVE FlowInv'
  BY <1>0, <1>3, OthersSame, ConstantsOK DEF SocketFails, pop3_done, Blank, Idle, ConstantsAssumption
<1>4. ASSUME NEW c \in Conns, Recv(c) PROVE FlowInv'
  BY <1>4, ConstantsOK DEF Recv, ConstantsAssumption
<1>5. ASSUME NEW c \in Conns, Command(c) PROVE FlowInv'
  <2>1. CommandStep(c)
    BY <1>5, CommandIsStep DEF Base
  <2>2. CASE \E why \in Stops : Stop(why)
    BY <2>2 DEF Stop
  <2>3. CASE \E x \in Session, r \in Reply, to \in ReadResults :
            /\ Return(c, x, r, to)
            /\ AuthStep(c, x, to) \/ TransStep(c, x, to)
    <3>1. PICK x \in Session, r \in Reply, to \in ReadResults :
            /\ Return(c, x, r, to)
            /\ AuthStep(c, x, to) \/ TransStep(c, x, to)
      BY <2>3
    <3>2. s'[c].stm \in {"AUTH", "TRANSACTION"}
      <4>1. s[c].stm \in {"AUTH", "TRANSACTION"} /\ s[c] \in Session
        BY <2>1 DEF Base, TypeOK, ReadState, CommandStep
      <4>2. x.stm = s[c].stm
        BY <3>1, <4>1 DEF AuthStep, TransStep, Session
      <4> QED BY <1>0, <3>1, <4>1, <4>2, ReturnSession
    <3>3. s'[c].interest = "WRITE" /\ cur' = c /\ \A d \in Conns \ {c} : s'[d] = s[d]
      BY <1>0, <2>1, <3>1, ReturnSession DEF CommandStep
    <3> QED BY <3>2, <3>3
  <2> QED BY <2>1, <2>2, <2>3 DEF CommandStep
<1>6. ASSUME NEW c \in Conns, Jump(c) PROVE FlowInv'
  <2>1. /\ cur = c /\ cur' = NoConn /\ cur' \notin Conns
        /\ s[c].stm \in {"AUTH", "TRANSACTION"}
    BY <1>6, ConstantsOK DEF Jump, Base, ReadState, ConstantsAssumption
  <2>2. CASE pop3_done(c)
    BY <1>0, <2>1, <2>2, OthersSame DEF pop3_done, Blank
  <2>3. CASE ~pop3_done(c)
    <3>1. /\ s' = [s EXCEPT ![c] = [s[c] EXCEPT !.stm = curr_state]]
          /\ curr_state \in {"AUTH", "TRANSACTION", "READING_MAIL", "UPDATE"}
      BY <1>6, <2>3 DEF Jump
    <3>2. /\ s'[c].stm = curr_state /\ s'[c].interest = s[c].interest /\ s'[c].wb = s[c].wb
          /\ \A d \in Conns \ {c} : s'[d] = s[d]
      BY <1>0, <3>1, OthersSame DEF TypeOK, Session
    <3> QED BY <2>1, <3>1, <3>2
  <2> QED BY <2>2, <2>3
<1>7. ASSUME NEW c \in Conns, MailDone(c) PROVE FlowInv'
  <2>1. PICK i \in {"READ", "WRITE"} :
            s' = [s EXCEPT ![c] = [s[c] EXCEPT !.stm = "TRANSACTION", !.wb = <<>>, !.interest = i]]
    BY <1>7 DEF MailDone
  <2>2. s'[c].stm = "TRANSACTION" /\ s'[c].wb = <<>> /\ \A d \in Conns \ {c} : s'[d] = s[d]
    BY <1>0, <2>1, OthersSame DEF TypeOK, Session
  <2> QED BY <1>7, <2>2, ConstantsOK DEF MailDone, Idle, ConstantsAssumption
<1>8. ASSUME NEW c \in Conns, MailFails(c) PROVE FlowInv'
  <2>1. s' = [s EXCEPT ![c] = Blank("CLOSED")] /\ cur' \notin Conns
    BY <1>8, ConstantsOK DEF MailFails, pop3_done, Idle, ConstantsAssumption
  <2> QED BY <1>0, <2>1, OthersSame DEF Blank
<1>9. CASE AcceptFails \/ Deliver
  BY <1>9 DEF AcceptFails, Deliver
<1>10. CASE Halted \/ UNCHANGED vars \/ \E c \in Conns : ClientReads(c)
  BY <1>10 DEF Halted, vars, ClientReads
<1> QED BY <1>1, <1>2, <1>3, <1>4, <1>5, <1>6, <1>7, <1>8, <1>9, <1>10 DEF Next

\* No wake-up is lost: a session with replies in its buffer is watched for writing, for
\* any number of connections, any batch of commands and any size of the buffer.
THEOREM NoLostWakeup == Spec => []FlowControl
<1>1. Init => FlowInv
  BY ConstantsOK DEF Init, FlowInv, FlowControl, Blank, ConstantsAssumption
<1>2. Spec => []FlowInv
  BY <1>1, FlowStep, BaseInvariant, PTL DEF Spec
<1> QED BY <1>2, PTL DEF FlowInv

-----------------------------------------------------------------------------
(* No mail before the login. *)

LoggedIn(c) == s[c].user \in Accounts /\ s[c].pass = s[c].user

\* MailOnlyAfterLogin, the same for the state a read is about to jump to, and the reason
\* why PASS without a user never answers 2: until a user is named every command queued
\* at most one reply, so the buffer has room.
LoginInv ==
    \A c \in Conns :
        /\ Selected(c) => LoggedIn(c)
        /\ cur = c /\ curr_state \in {"TRANSACTION", "READING_MAIL", "UPDATE"} => LoggedIn(c)
        /\ cur = c /\ curr_state = "AUTH" => s[c].stm = "AUTH"
        /\ cur = c /\ s[c].user = NoUser =>
                curr_state \in {"AUTH", "DONE"} /\ Len(s[c].wb) <= MaxBatch - room

\* Every command handler keeps what a curr_state beyond AUTH means.
LEMMA LoginCommand ==
    ASSUME WbSize >= MaxBatch, Base, LoginInv, NEW c \in Conns, Command(c)
    PROVE  LoginInv'
<1>0. /\ TypeOK /\ s[c] \in Session /\ cur = c /\ room \in Nat /\ room > 0
      /\ MaxBatch \in Nat /\ WbSize \in Nat /\ s[c].stm \in {"AUTH", "TRANSACTION"}
      /\ Login[c] \subseteq Users /\ Accounts \subseteq Users /\ NoUser \notin Users
  <2>1. CommandStep(c)
    BY CommandIsStep DEF Base
  <2> QED BY <2>1, ConstantsOK DEF Base, TypeOK, CommandStep, ReadState, ConstantsAssumption
<1>1. CommandStep(c)
  BY CommandIsStep DEF Base
<1>2. CASE \E why \in Stops : Stop(why)
  BY <1>2 DEF Stop, LoginInv, Selected, LoggedIn
<1>3. ASSUME NEW x \in Session, NEW r \in Reply, NEW to \in ReadResults, Return(c, x, r, to)
      PROVE  /\ s'[c].stm = x.stm /\ s'[c].user = x.user /\ s'[c].pass = x.pass
             /\ s'[c].wb = write_to_buffer(x.wb, r)
             /\ Len(s'[c].wb) \in Nat /\ Len(s'[c].wb) <= Len(x.wb) + 1 /\ Len(x.wb) \in Nat
             /\ cur' = cur /\ curr_state' = to /\ room' = room - 1
             /\ \A d \in Conns \ {c} : s'[d] = s[d]
  <2>0. TypeOK
    BY <1>0
  <2>1. x.wb \in Seq(Reply)
    BY DEF Session
  <2>2. write_to_buffer(x.wb, r) \in Seq(Reply) /\ Len(write_to_buffer(x.wb, r)) <= Len(x.wb) + 1
    BY <2>1, BufferType
  <2>3. s'[c].stm = x.stm /\ s'[c].user = x.user
    BY <2>0, <1>3, ReturnSession
  <2>4. s'[c].wb = write_to_buffer(x.wb, r)
    <3> DEFINE y == [x EXCEPT !.interest = "WRITE", !.wb = write_to_buffer(x.wb, r)]
    <3>1. y.wb = write_to_buffer(x.wb, r)
      BY DEF Session
    <3> HIDE DEF y
    <3>2. s' = [s EXCEPT ![c] = y]
      BY <1>3 DEF Return, y
    <3> QED BY <2>0, <3>1, <3>2, OthersSame
  <2>5. s'[c].pass = x.pass
    BY <2>0, <1>3, ReturnSession, Zenon
  <2>6. \A d \in Conns \ {c} : s'[d] = s[d]
    BY <2>0, <1>3, ReturnSession, Zenon
  <2>7. curr_state' = to /\ room' = room - 1
    BY <1>3 DEF Return
  <2>8. Len(x.wb) \in Nat /\ Len(write_to_buffer(x.wb, r)) \in Nat
    BY <2>1, <2>2
  <2>9. cur' = cur
    BY <1>3 DEF Return
  <2> QED BY <2>2, <2>3, <2>8, <2>9, <2>6, <2>7, <2>4, <2>5
<1>4. ASSUME NEW x \in Session, NEW r \in Reply, NEW to \in ReadResults,
             Return(c, x, r, to), curr_state = "AUTH", AuthStep(c, x, to)
      PROVE  LoginInv'
  <2>1. /\ x.stm = s[c].stm /\ x.wb = s[c].wb
        /\ x.user \in Login[c] \cup {s[c].user}
        /\ x.pass = s[c].pass \/ to = "TRANSACTION"
    BY <1>0, <1>4 DEF AuthStep, Session
  <2>2. s[c].stm = "AUTH"
    BY <1>0, <1>4 DEF LoginInv
  <2>3. s[c].user = NoUser => Len(s[c].wb) <= MaxBatch - room
    BY <1>0 DEF LoginInv
  <2>4. Len(s[c].wb) \in Nat
    BY <1>0 DEF Session
  <2>5. to # "READING_MAIL"
    BY <1>0, <1>4, <2>2, <2>3, <2>4 DEF AuthStep
  <2>6. \/ to \in {"AUTH", "DONE"}
        \/ to = "TRANSACTION" /\ x.user \in Accounts /\ x.pass = x.user
    BY <1>4, <2>2, <2>5 DEF AuthStep
  <2>7. x.user = NoUser => s[c].user = NoUser /\ to \in {"AUTH", "DONE"}
    BY <1>0, <2>1, <2>6
  <2>8. x.user = NoUser => Len(s'[c].wb) <= MaxBatch - (room - 1)
    BY <1>0, <1>3, <1>4, <2>1, <2>3, <2>4, <2>7
  <2>9. ASSUME NEW d \in Conns \ {c}
        PROVE  s'[d] = s[d] /\ cur' # d
    BY <1>0, <1>3, <1>4
  <2> QED BY <1>0, <1>3, <1>4, <2>1, <2>2, <2>6, <2>7, <2>8, <2>9 DEF LoginInv, Selected, LoggedIn
<1>5. ASSUME NEW x \in Session, NEW r \in Reply, NEW to \in ReadResults,
             Return(c, x, r, to), curr_state = "TRANSACTION", TransStep(c, x, to)
      PROVE  LoginInv'
  <2>1. LoggedIn(c)
    BY <1>0, <1>5 DEF LoginInv
  <2>2. x.stm = s[c].stm /\ x.user = s[c].user /\ x.pass = s[c].pass
        /\ to \in {s[c].stm, "TRANSACTION", "READING_MAIL", "UPDATE", "ERROR"}
    BY <1>5 DEF TransStep
  <2>3. s'[c].user = s[c].user /\ s'[c].pass = s[c].pass /\ s'[c].stm = s[c].stm
        /\ curr_state' = to
    BY <1>3, <1>5, <2>2
  <2>4. to = "AUTH" => s[c].stm = "AUTH"
    BY <2>2
  <2>5. ASSUME NEW d \in Conns \ {c}
        PROVE  s'[d] = s[d] /\ cur' # d
    BY <1>0, <1>3, <1>5
  <2>6. s'[c].user # NoUser /\ s'[c].pass = s'[c].user /\ s'[c].user \in Accounts
    BY <1>0, <2>1, <2>3 DEF LoggedIn
  <2> QED BY <2>3, <2>4, <2>5, <2>6 DEF LoginInv, Selected, LoggedIn
<1> QED BY <1>1, <1>2, <1>4, <1>5 DEF CommandStep

\* So does every step.
LEMMA LoginStep ==
    ASSUME WbSize >= MaxBatch, Base, FlowInv, LoginInv, [Next]_vars
    PROVE  LoginInv'
<1>0. TypeOK /\ NoConn \notin Conns /\ NoUser \notin Users /\ Accounts \subseteq Users
  BY ConstantsOK DEF Base, ConstantsAssumption
<1>1. ASSUME NEW c \in Conns, pop3_passive_accept(c) PROVE LoginInv'
  BY <1>0, <1>1, OthersSame DEF pop3_passive_accept, Blank, Idle, LoginInv, Selected, LoggedIn
<1>2. ASSUME NEW c \in Conns, client_write(c) PROVE LoginInv'
  <2>0. cur' = NoConn
    BY <1>2 DEF client_write, Idle
  <2>1. CASE pop3_done(c)
    BY <1>0, <2>0, <2>1, OthersSame DEF pop3_done, Blank, LoginInv, Selected, LoggedIn
  <2>2. CASE ~pop3_done(c)
    <3> DEFINE x == Arrived(s[c])
    <3>1. PICK k \in 0..Len(x.wb) :
            s' = [s EXCEPT ![c] = [x EXCEPT !.wb = SubSeq(x.wb, k + 1, Len(x.wb)),
                                   !.interest = IF k = Len(x.wb) THEN "READ" ELSE x.interest]]
      BY <1>2, <2>2 DEF client_write
    <3>2. /\ x \in Session /\ x.user = s[c].user /\ x.pass = s[c].pass
          /\ x.stm = s[c].stm \/ x.stm = "AUTH"
      <4>1. s[c].wb \in Seq(Reply) /\ write_to_buffer(s[c].wb, Ok) \in Seq(Reply)
            /\ s[c] \in Session
        BY <1>0, BufferType, RepliesType DEF TypeOK, Session
      <4>2. CASE s[c].stm = "NULL"
        BY <4>1, <4>2 DEF Arrived, Session, States
      <4>3. CASE s[c].stm # "NULL"
        BY <4>1, <4>3 DEF Arrived
      <4> QED BY <4>2, <4>3
    <3> DEFINE y == [x EXCEPT !.wb = SubSeq(x.wb, k + 1, Len(x.wb)),
                              !.interest = IF k = Len(x.wb) THEN "READ" ELSE x.interest]
    <3>3. y.stm = x.stm /\ y.user = x.user /\ y.pass = x.pass
      BY <3>2 DEF Session
    <3> HIDE DEF y
    <3>4. s' = [s EXCEPT ![c] = y]
      BY <3>1 DEF y
    <3>5. s'[c] = y /\ \A d \in Conns \ {c} : s'[d] = s[d]
      BY <1>0, <3>4, OthersSame
    <3> QED BY <1>0, <2>0, <3>2, <3>3, <3>5 DEF LoginInv, Selected, LoggedIn
  <2> QED BY <2>1, <2>2
<1>3. ASSUME NEW c \in Conns, SocketFails(c) PROVE LoginInv'
  BY <1>0, <1>3, OthersSame
     DEF SocketFails, pop3_done, Blank, Idle, LoginInv, Selected, LoggedIn
<1>4. ASSUME NEW c \in Conns, Recv(c) PROVE LoginInv'
  <2>1. s[c].wb = <<>> /\ MaxBatch - MaxBatch = 0
    BY <1>4, ConstantsOK DEF Recv, FlowInv, FlowControl, ConstantsAssumption
  <2> QED BY <1>0, <1>4, <2>1 DEF Recv, LoginInv, Selected, LoggedIn
<1>5. ASSUME NEW c \in Conns, Command(c) PROVE LoginInv'
  BY <1>5, LoginCommand
<1>6. ASSUME NEW c \in Conns, Jump(c) PROVE LoginInv'
  <2>1. cur = c /\ cur' = NoConn
    BY <1>6 DEF Jump
  <2>2. CASE pop3_done(c)
    BY <1>0, <2>1, <2>2, OthersSame DEF pop3_done, Blank, LoginInv, Selected, LoggedIn
  <2>3. CASE ~pop3_done(c)
    <3>1. /\ s' = [s EXCEPT ![c] = [s[c] EXCEPT !.stm = curr_state]]
          /\ curr_state \in {"AUTH", "TRANSACTION", "READING_MAIL", "UPDATE"}
      BY <1>6, <2>3 DEF Jump
    <3>2. /\ s'[c].stm = curr_state /\ s'[c].user = s[c].user /\ s'[c].pass = s[c].pass
          /\ \A d \in Conns \ {c} : s'[d] = s[d]
      BY <1>0, <3>1, OthersSame DEF TypeOK, Session
    <3> QED BY <1>0, <2>1, <3>1, <3>2 DEF LoginInv, Selected, LoggedIn
  <2> QED BY <2>2, <2>3
<1>7. ASSUME NEW c \in Conns, MailDone(c) PROVE LoginInv'
  <2>1. PICK i \in {"READ", "WRITE"} :
            s' = [s EXCEPT ![c] = [s[c] EXCEPT !.stm = "TRANSACTION", !.wb = <<>>, !.interest = i]]
    BY <1>7 DEF MailDone
  <2>2. /\ s'[c].user = s[c].user /\ s'[c].pass = s[c].pass
        /\ \A d \in Conns \ {c} : s'[d] = s[d]
    BY <1>0, <2>1, OthersSame DEF TypeOK, Session
  <2> QED BY <1>0, <1>7, <2>2 DEF MailDone, Idle, LoginInv, Selected, LoggedIn
<1>8. ASSUME NEW c \in Conns, MailFails(c) PROVE LoginInv'
  <2>1. s' = [s EXCEPT ![c] = Blank("CLOSED")] /\ cur' = NoConn
    BY <1>8 DEF MailFails, pop3_done, Idle
  <2> QED BY <1>0, <2>1, OthersSame DEF Blank, LoginInv, Selected, LoggedIn
<1>9. CASE AcceptFails \/ Deliver
  BY <1>9 DEF AcceptFails, Deliver, LoginInv, Selected, LoggedIn
<1>10. CASE Halted \/ UNCHANGED vars \/ \E c \in Conns : ClientReads(c)
  BY <1>10 DEF Halted, vars, ClientReads, LoginInv, Selected, LoggedIn
<1> QED BY <1>1, <1>2, <1>3, <1>4, <1>5, <1>6, <1>7, <1>8, <1>9, <1>10 DEF Next

\* When the buffer has room for the replies of one read, a handler of the mail commands,
\* a transfer or UPDATE runs only for a session bound to a user of `clients', and that
\* user is the one whose password validate_user accepted last: neither the machine nor
\* the curr_state of a batch of pipelined commands gets there otherwise.
THEOREM LoginBeforeMail == WbSize >= MaxBatch => (Spec => []MailOnlyAfterLogin)
<1> SUFFICES ASSUME WbSize >= MaxBatch PROVE Spec => []MailOnlyAfterLogin
  OBVIOUS
<1>1. Init => FlowInv /\ LoginInv
  BY ConstantsOK
     DEF Init, FlowInv, FlowControl, LoginInv, Selected, LoggedIn, Blank, ConstantsAssumption
<1>2. Base /\ FlowInv /\ LoginInv /\ [Next]_vars => FlowInv' /\ LoginInv'
  BY FlowStep, LoginStep
<1>3. LoginInv => MailOnlyAfterLogin
  BY DEF LoginInv, LoggedIn, MailOnlyAfterLogin, Working
<1> QED BY <1>1, <1>2, <1>3, BaseInvariant, PTL DEF Spec

-----------------------------------------------------------------------------
(* Only the messages named in DELE are removed. *)

\* In a directory nobody else uses the flags of a session mean the files it named: they
\* are positions of the listing it loaded, and while it is in TRANSACTION that listing is
\* still what the directory holds.
Named(q, F) == {q[i] : i \in F}

FlagsMean(x) ==
    /\ x.flags \subseteq 1..Len(x.mails)
    /\ x.marked = Named(x.mails, x.flags)

OwnMails(x) == \A i \in 1..Len(x.mails) : Owner[x.mails[i]] = x.user

Untouched(x) == x.mails = <<>> /\ x.flags = {} /\ x.marked = {}

ListingFresh(x) == x.mails = <<>> \/ x.mails = Loaded(x.user)

\* What holds of the session of c at any time, and what of the read under way.
MarkOf(c) ==
    /\ s[c].user \in Login[c] \cup {NoUser}
    /\ OwnMails(s[c])
    /\ s[c].stm \in {"CLOSED", "NULL", "AUTH"} => Untouched(s[c])
    /\ Alone(s[c].user) =>
        /\ FlagsMean(s[c])
        /\ s[c].stm \in {"TRANSACTION", "READING_MAIL"} => ListingFresh(s[c])

ReadOf(c) ==
    cur = c =>
        /\ room > 0 => curr_state = s[c].stm
        /\ curr_state = "UPDATE" => s[c].stm = "TRANSACTION"
        /\ curr_state = "AUTH" => s[c].stm = "AUTH"

MarkInv == \A c \in Conns : MarkOf(c) /\ ReadOf(c)

\* MarkOf is kept by a step that leaves the files on disk and what the session knows of
\* them alone.
LEMMA SameMark ==
    ASSUME NEW c \in Conns, MarkOf(c), box' = box,
           s'[c].user = s[c].user, s'[c].mails = s[c].mails,
           s'[c].flags = s[c].flags, s'[c].marked = s[c].marked,
           \/ s'[c].stm = s[c].stm
           \/ s'[c].stm \in {"AUTH", "TRANSACTION", "READING_MAIL"} /\ Untouched(s[c])
           \/ s[c].stm = "TRANSACTION" /\ s'[c].stm \in {"READING_MAIL", "UPDATE"}
           \/ s[c].stm = "READING_MAIL" /\ s'[c].stm = "TRANSACTION"
    PROVE  MarkOf(c)'
<1>1. \A u : Loaded(u)' = Loaded(u)
  BY DEF Loaded, Files
<1>2. OwnMails(s'[c]) /\ s'[c].user \in Login[c] \cup {NoUser}
  BY DEF MarkOf, OwnMails
<1>3. s'[c].stm \in {"CLOSED", "NULL", "AUTH"} => Untouched(s'[c])
  BY DEF MarkOf, Untouched
<1>4. Alone(s'[c].user) => FlagsMean(s'[c])
  BY DEF MarkOf, FlagsMean
<1>5. Alone(s'[c].user) /\ s'[c].stm \in {"TRANSACTION", "READING_MAIL"} => ListingFresh(s'[c])
  BY DEF MarkOf, Untouched, ListingFresh
<1> QED BY <1>1, <1>2, <1>3, <1>4, <1>5
        DEF MarkOf, FlagsMean, OwnMails, Untouched, ListingFresh, Alone

\* It is kept for a session that does not move when its directory, if nobody else uses
\* it, does not change.
LEMMA AsideMark ==
    ASSUME NEW c \in Conns, MarkOf(c), s'[c] = s[c],
           Alone(s[c].user) => Files(s[c].user)' = Files(s[c].user)
    PROVE  MarkOf(c)'
<1>1. Alone(s[c].user) => Loaded(s[c].user)' = Loaded(s[c].user)
  BY DEF Loaded
<1>2. Alone(s[c].user)' <=> Alone(s[c].user)
  BY DEF Alone
<1> HIDE DEF Alone
<1> QED BY <1>1, <1>2 DEF MarkOf, FlagsMean, OwnMails, Untouched, ListingFresh

\* A session that is not logged in has nothing marked to account for.
LEMMA BlankMark ==
    ASSUME NEW st, NEW c \in Conns, s'[c] = Blank(st),
           st \notin {"TRANSACTION", "READING_MAIL"}
    PROVE  MarkOf(c)'
BY DEF Blank, MarkOf, FlagsMean, OwnMails, Untouched, Named

\* As long as the files on disk do not change and no read is under way, a step of c has
\* to keep only MarkOf(c).
LEMMA MarkFrame ==
    ASSUME MarkInv, NEW c \in Conns, MarkOf(c)', box' = box, cur' \notin Conns,
           \A d \in Conns \ {c} : s'[d] = s[d]
    PROVE  MarkInv'
<1>1. ASSUME NEW d \in Conns PROVE MarkOf(d)'
  <2>1. CASE d # c
    BY <2>1, SameMark DEF MarkInv
  <2> QED BY <2>1
<1>2. \A d \in Conns : ReadOf(d)'
  BY DEF ReadOf
<1> QED BY <1>1, <1>2 DEF MarkInv

\* A handler of the TRANSACTION table keeps the meaning of the flags.
LEMMA TransKeepsFlags ==
    ASSUME Base, NEW c \in Conns, NEW x \in Session, NEW to, TransStep(c, x, to),
           FlagsMean(s[c]), ListingFresh(s[c])
    PROVE  FlagsMean(x) /\ ListingFresh(x)
<1>1. PICK y \in Session :
        /\ MaybeLoaded(c, y)
        /\ x.mails = y.mails
        /\ \/ x.flags = y.flags /\ x.marked = y.marked
           \/ \E i \in 1..Len(y.mails) :
                /\ x.flags = y.flags \cup {i}
                /\ x.marked = y.marked \cup {y.mails[i]}
           \/ /\ x.flags = {i \in y.flags : i - 1 > max_index(y)}
              /\ x.marked = {}
  BY DEF TransStep
<1>2. s[c] \in Session /\ box \subseteq Mails /\ x.user = s[c].user
  BY DEF Base, TypeOK, TransStep
<1>3. FlagsMean(y) /\ ListingFresh(y) /\ y.user = s[c].user
  <2>1. CASE y = s[c]
    BY <2>1
  <2>2. CASE y = load_mails(s[c])
    <3>1. y = [s[c] EXCEPT !.mails = Loaded(s[c].user), !.orig = y.orig]
      BY <1>2, <2>2, LoadType
    <3>2. y.mails = Loaded(s[c].user) /\ y.user = s[c].user /\ y.flags = s[c].flags
          /\ y.marked = s[c].marked
      BY <1>2, <3>1 DEF Session
    <3>4. CASE s[c].mails = <<>>
      <4>1. s[c].flags = {}
        BY <3>4 DEF FlagsMean
      <4>2. s[c].marked = {}
        BY <4>1 DEF FlagsMean, Named
      <4>3. Named(y.mails, {}) = {}
        BY DEF Named
      <4> QED BY <3>2, <4>1, <4>2, <4>3 DEF FlagsMean, ListingFresh
    <3>5. CASE s[c].mails = Loaded(s[c].user)
      BY <3>2, <3>5 DEF FlagsMean, ListingFresh
    <3> QED BY <3>4, <3>5 DEF ListingFresh
  <2> QED BY <1>1, <2>1, <2>2 DEF MaybeLoaded
<1>4. ListingFresh(x)
  BY <1>1, <1>2, <1>3 DEF ListingFresh
<1>6. CASE x.flags = y.flags /\ x.marked = y.marked
  BY <1>1, <1>3, <1>4, <1>6 DEF FlagsMean
<1>7. CASE \E i \in 1..Len(y.mails) :
                /\ x.flags = y.flags \cup {i}
                /\ x.marked = y.marked \cup {y.mails[i]}
  <2>1. PICK i \in 1..Len(y.mails) :
                /\ x.flags = y.flags \cup {i}
                /\ x.marked = y.marked \cup {y.mails[i]}
    BY <1>7
  <2>2. Named(y.mails, y.flags \cup {i}) = Named(y.mails, y.flags) \cup {y.mails[i]}
    BY DEF Named
  <2>3. x.marked = Named(x.mails, x.flags)
    BY <1>1, <1>3, <2>1, <2>2 DEF FlagsMean
  <2>4. x.flags \subseteq 1..Len(x.mails)
    BY <1>1, <1>3, <2>1 DEF FlagsMean
  <2> QED BY <1>4, <2>3, <2>4 DEF FlagsMean
<1>8. CASE x.flags = {i \in y.flags : i - 1 > max_index(y)} /\ x.marked = {}
  <2>1. y.flags \subseteq 1..Len(y.mails) /\ Len(y.mails) \in Nat /\ Len(<<>>) = 0
    BY <1>3 DEF FlagsMean, Session
  <2>2. ASSUME NEW i \in y.flags PROVE ~(i - 1 > max_index(y))
    <3>1. CASE y.mails = <<>>
      BY <2>1, <2>2, <3>1
    <3>2. CASE y.mails # <<>>
      <4>1. max_index(y) = Len(y.mails) - 1
        BY <3>2 DEF max_index
      <4> HIDE DEF max_index
      <4>2. i \in 1..Len(y.mails)
        BY <2>1, <2>2
      <4> QED BY <2>1, <4>1, <4>2
    <3> QED BY <3>1, <3>2
  <2>3. x.flags = {}
    BY <1>8, <2>2
  <2>4. Named(x.mails, {}) = {}
    BY DEF Named
  <2> QED BY <1>4, <1>8, <2>3, <2>4 DEF FlagsMean
<1> QED BY <1>1, <1>4, <1>6, <1>7, <1>8

\* It leaves the listing the session had, or loads one of its own user.
LEMMA TransKeepsOwn ==
    ASSUME Base, NEW c \in Conns, NEW x, NEW to, TransStep(c, x, to), OwnMails(s[c])
    PROVE  OwnMails(x)
<1>1. s[c] \in Session /\ box \subseteq Mails /\ x.user = s[c].user
  BY DEF Base, TypeOK, TransStep
<1>2. PICK y \in Session : MaybeLoaded(c, y) /\ x.mails = y.mails
  BY DEF TransStep
<1>3. CASE y = load_mails(s[c])
  <2>1. y = [s[c] EXCEPT !.mails = Loaded(s[c].user), !.orig = y.orig]
    BY <1>1, <1>3, LoadType
  <2>2. y.mails = Loaded(s[c].user)
    BY <1>1, <2>1 DEF Session
  <2> QED BY <1>1, <1>2, <2>2, LoadedType DEF OwnMails, Files
<1> QED BY <1>1, <1>2, <1>3 DEF MaybeLoaded, OwnMails

\* The files a session in TRANSACTION removes on its way to UPDATE are those it named.
LEMMA FlaggedAreMarked ==
    ASSUME NEW x \in Session, FlagsMean(x)
    PROVE  delete_mails(x) = x.marked
<1>1. x.flags \cap DOMAIN x.mails = x.flags
  BY DEF FlagsMean, Session
<1> QED BY <1>1 DEF delete_mails, FlagsMean, Named

\* Every step keeps the flags and the marks of a session in tune with the files.
LEMMA MarkStep ==
    ASSUME MaxBatch = 1, Base, MarkInv, [Next]_vars
    PROVE  MarkInv'
<1>0. /\ TypeOK /\ NoConn \notin Conns /\ NoUser \notin Users /\ Owner \in [Mails -> Users]
      /\ Login \in [Conns -> SUBSET Users]
  BY ConstantsOK DEF Base, ConstantsAssumption
<1>2. ASSUME NEW c \in Conns, NEW st, s' = [s EXCEPT ![c] = Blank(st)],
             st \in {"CLOSED", "NULL"}, box' = box, cur' = NoConn
      PROVE  MarkInv'
  <2>1. s'[c] = Blank(st) /\ \A d \in Conns \ {c} : s'[d] = s[d]
    BY <1>0, <1>2, OthersSame
  <2> QED BY <1>0, <1>2, <2>1, BlankMark, MarkFrame
<1>3. ASSUME NEW c \in Conns, pop3_passive_accept(c) PROVE MarkInv'
  BY <1>2, <1>3 DEF pop3_passive_accept, Idle
<1>4. ASSUME NEW c \in Conns, client_write(c) PROVE MarkInv'
  <2>1. CASE pop3_done(c)
    BY <1>2, <1>4, <2>1 DEF client_write, pop3_done, Idle
  <2>2. CASE ~pop3_done(c)
    <3> DEFINE x == Arrived(s[c])
    <3>1. PICK k \in 0..Len(x.wb) :
            s' = [s EXCEPT ![c] = [x EXCEPT !.wb = SubSeq(x.wb, k + 1, Len(x.wb)),
                                   !.interest = IF k = Len(x.wb) THEN "READ" ELSE x.interest]]
      BY <1>4, <2>2 DEF client_write
    <3>2. /\ x \in Session /\ x.user = s[c].user /\ x.mails = s[c].mails
          /\ x.flags = s[c].flags /\ x.marked = s[c].marked
          /\ x.stm = s[c].stm \/ (s[c].stm = "NULL" /\ x.stm = "AUTH")
      <4>1. s[c].wb \in Seq(Reply) /\ write_to_buffer(s[c].wb, Ok) \in Seq(Reply)
            /\ s[c] \in Session
        BY <1>0, BufferType, RepliesType DEF TypeOK, Session
      <4>2. CASE s[c].stm = "NULL"
        BY <4>1, <4>2 DEF Arrived, Session, States
      <4>3. CASE s[c].stm # "NULL"
        BY <4>1, <4>3 DEF Arrived
      <4> QED BY <4>2, <4>3
    <3> DEFINE y == [x EXCEPT !.wb = SubSeq(x.wb, k + 1, Len(x.wb)),
                              !.interest = IF k = Len(x.wb) THEN "READ" ELSE x.interest]
    <3>3. y.stm = x.stm /\ y.user = x.user /\ y.mails = x.mails /\ y.flags = x.flags
          /\ y.marked = x.marked
      BY <3>2 DEF Session
    <3> HIDE DEF y
    <3>4. s' = [s EXCEPT ![c] = y]
      BY <3>1 DEF y
    <3>5. s'[c] = y /\ \A d \in Conns \ {c} : s'[d] = s[d]
      BY <1>0, <3>4, OthersSame
    <3>6. box' = box /\ cur' = NoConn
      BY <1>4, <2>2 DEF client_write, Idle
    <3>7. MarkOf(c)'
      <4>1. /\ s'[c].user = s[c].user /\ s'[c].mails = s[c].mails
            /\ s'[c].flags = s[c].flags /\ s'[c].marked = s[c].marked
            /\ s'[c].stm = s[c].stm \/ (s[c].stm = "NULL" /\ s'[c].stm = "AUTH")
        BY <3>2, <3>3, <3>5
      <4>2. MarkOf(c) /\ (s[c].stm = "NULL" => Untouched(s[c]))
        BY DEF MarkInv, MarkOf
      <4> QED BY <3>6, <4>1, <4>2, SameMark
    <3> QED BY <1>0, <3>5, <3>6, <3>7, MarkFrame
  <2> QED BY <2>1, <2>2
<1>5. ASSUME NEW c \in Conns, SocketFails(c) PROVE MarkInv'
  BY <1>2, <1>5 DEF SocketFails, pop3_done, Idle
<1>6. ASSUME NEW c \in Conns, Recv(c) PROVE MarkInv'
  <2>1. s' = s /\ box' = box /\ cur' = c /\ curr_state' = s[c].stm
        /\ s[c].stm \in {"AUTH", "TRANSACTION"}
    BY <1>6 DEF Recv
  <2>2. \A d \in Conns : MarkOf(d)'
    BY <2>1, SameMark DEF MarkInv
  <2>3. \A d \in Conns : ReadOf(d)'
    BY <2>1 DEF ReadOf
  <2> QED BY <2>2, <2>3 DEF MarkInv
<1>7. ASSUME NEW c \in Conns, Command(c) PROVE MarkInv'
  <2>1. CommandStep(c)
    BY <1>7, CommandIsStep DEF Base
  <2>2. CASE \E why \in Stops : Stop(why)
    <3>1. /\ s' = s /\ box' = box /\ cur' = cur /\ room' = room /\ curr_state' = curr_state
      BY <2>2 DEF Stop
    <3>2. \A d \in Conns : MarkOf(d)'
      BY <3>1, SameMark DEF MarkInv
    <3>3. \A d \in Conns : ReadOf(d)'
      BY <3>1 DEF MarkInv, ReadOf
    <3> QED BY <3>2, <3>3 DEF MarkInv
  <2>3. ASSUME NEW x \in Session, NEW r \in Reply, NEW to \in ReadResults, Return(c, x, r, to),
               \/ curr_state = "AUTH" /\ AuthStep(c, x, to)
               \/ curr_state = "TRANSACTION" /\ TransStep(c, x, to)
        PROVE  MarkInv'
    <3>1. room' = 0 /\ cur = c /\ cur' = c /\ curr_state' = to /\ box' = box
      <4>1. room' = room - 1 /\ cur' = cur /\ curr_state' = to /\ box' = box
        BY <2>3 DEF Return
      <4>2. room \in 0..1 /\ room > 0 /\ cur = c
        BY <1>0, <2>1 DEF CommandStep, TypeOK
      <4> QED BY <4>1, <4>2
    <3>2. curr_state = s[c].stm /\ MarkOf(c)
      BY <2>1, <3>1 DEF CommandStep, MarkInv, ReadOf
    <3>3. /\ s'[c].stm = x.stm /\ s'[c].user = x.user /\ s'[c].mails = x.mails
          /\ s'[c].flags = x.flags /\ s'[c].marked = x.marked
          /\ \A d \in Conns \ {c} : s'[d] = s[d]
      BY <1>0, <2>3, ReturnSession
    <3>4. /\ x.stm = s[c].stm
          /\ x.user \in Login[c] \cup {NoUser}
          /\ OwnMails(x)
          /\ Alone(x.user) => FlagsMean(x)
          /\ x.stm = "AUTH" => Untouched(x)
          /\ Alone(x.user) /\ x.stm = "TRANSACTION" => ListingFresh(x)
          /\ to = "UPDATE" => x.stm = "TRANSACTION"
          /\ to = "AUTH" => x.stm = "AUTH"
          /\ x.stm \in {"AUTH", "TRANSACTION"}
      <4>1. CASE curr_state = "AUTH" /\ AuthStep(c, x, to)
        <5>1. /\ x.stm = "AUTH" /\ x.user \in Login[c] \cup {s[c].user}
              /\ x.mails = s[c].mails /\ x.flags = s[c].flags /\ x.marked = s[c].marked
          BY <1>0, <3>2, <4>1 DEF AuthStep, TypeOK, Session
        <5>2. Untouched(x)
          BY <3>2, <4>1, <5>1 DEF MarkOf, Untouched
        <5>3. FlagsMean(x) /\ OwnMails(x)
          BY <5>2 DEF Untouched, FlagsMean, OwnMails, Named
        <5>4. to # "UPDATE"
          BY <3>2, <4>1 DEF AuthStep
        <5> QED BY <3>2, <4>1, <5>1, <5>2, <5>3, <5>4 DEF MarkOf
      <4>2. CASE curr_state = "TRANSACTION" /\ TransStep(c, x, to)
        <5>1. /\ s[c].user \in Login[c] \cup {NoUser} /\ OwnMails(s[c])
              /\ Alone(s[c].user) => FlagsMean(s[c]) /\ ListingFresh(s[c])
          BY <3>2, <4>2 DEF MarkOf
        <5>2. Alone(s[c].user) => FlagsMean(x) /\ ListingFresh(x)
          BY <4>2, <5>1, TransKeepsFlags
        <5>3. OwnMails(x)
          BY <4>2, <5>1, TransKeepsOwn
        <5> QED BY <3>2, <4>2, <5>1, <5>2, <5>3 DEF TransStep
      <4> QED BY <2>3, <4>1, <4>2
    <3>5. MarkOf(c)'
      <4>1. \A u : Loaded(u)' = Loaded(u)
        BY <3>1 DEF Loaded, Files
      <4>2. OwnMails(s'[c]) /\ s'[c].user \in Login[c] \cup {NoUser}
        BY <3>3, <3>4 DEF OwnMails
      <4>3. s'[c].stm \in {"CLOSED", "NULL", "AUTH"} => Untouched(s'[c])
        BY <3>3, <3>4 DEF Untouched
      <4>4. Alone(s'[c].user) => FlagsMean(s'[c])
        BY <3>3, <3>4 DEF FlagsMean
      <4>5. Alone(s'[c].user) /\ s'[c].stm \in {"TRANSACTION", "READING_MAIL"}
              => ListingFresh(s'[c])
        BY <3>3, <3>4 DEF ListingFresh
      <4> QED BY <4>1, <4>2, <4>3, <4>4, <4>5
              DEF MarkOf, FlagsMean, OwnMails, Untouched, ListingFresh, Alone
    <3>6. \A d \in Conns : MarkOf(d)'
      BY <3>1, <3>3, <3>5, SameMark DEF MarkInv
    <3>7. \A d \in Conns : ReadOf(d)'
      BY <3>1, <3>3, <3>4 DEF ReadOf
    <3> QED BY <3>6, <3>7 DEF MarkInv
  <2> QED BY <2>1, <2>2, <2>3 DEF CommandStep
<1>8. ASSUME NEW c \in Conns, Jump(c) PROVE MarkInv'
  <2>1. cur = c /\ cur' = NoConn /\ s[c].stm \in {"AUTH", "TRANSACTION"}
        /\ s[c] \in Session
    BY <1>8 DEF Jump, Base, ReadState, TypeOK
  <2>2. CASE pop3_done(c) /\ box' = box
    BY <1>2, <2>1, <2>2 DEF pop3_done
  <2>3. CASE /\ s' = [s EXCEPT ![c] = [s[c] EXCEPT !.stm = curr_state]]
             /\ curr_state \in {"AUTH", "TRANSACTION", "READING_MAIL"}
             /\ box' = box
    <3> DEFINE y == [s[c] EXCEPT !.stm = curr_state]
    <3>1. y.stm = curr_state /\ y.user = s[c].user /\ y.mails = s[c].mails
          /\ y.flags = s[c].flags /\ y.marked = s[c].marked
      BY <2>1 DEF Session
    <3> HIDE DEF y
    <3>2. s' = [s EXCEPT ![c] = y]
      BY <2>3 DEF y
    <3>3. s'[c] = y /\ \A d \in Conns \ {c} : s'[d] = s[d]
      BY <1>0, <3>2, OthersSame
    <3>4. curr_state = "AUTH" => s[c].stm = "AUTH"
      BY <2>1 DEF MarkInv, ReadOf
    <3>5. MarkOf(c) /\ (s[c].stm = "AUTH" => Untouched(s[c]))
      BY DEF MarkInv, MarkOf
    <3>6. MarkOf(c)'
      <4>1. /\ s'[c].user = s[c].user /\ s'[c].mails = s[c].mails
            /\ s'[c].flags = s[c].flags /\ s'[c].marked = s[c].marked
            /\ s'[c].stm = curr_state
        BY <3>1, <3>3
      <4> QED BY <2>1, <2>3, <3>4, <3>5, <4>1, SameMark
    <3> QED BY <1>0, <2>1, <2>3, <3>3, <3>6, MarkFrame
  <2>4. CASE /\ curr_state = "UPDATE"
             /\ s' = [s EXCEPT ![c] = [s[c] EXCEPT !.stm = "UPDATE"]]
             /\ box' = box \ delete_mails(s[c])
    <3> DEFINE y == [s[c] EXCEPT !.stm = "UPDATE"]
    <3>1. y.stm = "UPDATE" /\ y.user = s[c].user /\ y.mails = s[c].mails
          /\ y.flags = s[c].flags /\ y.marked = s[c].marked
      BY <2>1 DEF Session
    <3> HIDE DEF y
    <3>2. s' = [s EXCEPT ![c] = y]
      BY <2>4 DEF y
    <3>3. s'[c] = y /\ \A d \in Conns \ {c} : s'[d] = s[d]
      BY <1>0, <3>2, OthersSame
    <3>4. MarkOf(c)
      BY DEF MarkInv
    <3>5. \A m \in delete_mails(s[c]) : Owner[m] = s[c].user
      BY <2>1, <3>4 DEF MarkOf, OwnMails, delete_mails, Session
    <3>6. MarkOf(c)'
      <4>1. /\ s'[c].user = s[c].user /\ s'[c].mails = s[c].mails /\ s'[c].stm = "UPDATE"
            /\ s'[c].flags = s[c].flags /\ s'[c].marked = s[c].marked
        BY <3>1, <3>3
      <4>2. OwnMails(s'[c]) /\ s'[c].user \in Login[c] \cup {NoUser}
        BY <3>4, <4>1 DEF MarkOf, OwnMails
      <4>3. Alone(s'[c].user) => FlagsMean(s'[c])
        BY <3>4, <4>1 DEF MarkOf, FlagsMean
      <4> QED BY <4>1, <4>2, <4>3 DEF MarkOf, FlagsMean, OwnMails, Alone
    <3>7. ASSUME NEW d \in Conns \ {c} PROVE MarkOf(d)'
      <4>1. MarkOf(d) /\ s'[d] = s[d]
        BY <3>3 DEF MarkInv
      <4>2. ASSUME Alone(s[d].user) PROVE Files(s[d].user)' = Files(s[d].user)
        <5>1. CASE s[d].user = NoUser
          BY <1>0, <2>4, <5>1 DEF Files, TypeOK
        <5>2. CASE s[d].user # NoUser
          <6>1. s[c].user # s[d].user
            BY <3>4, <4>1, <4>2, <5>2 DEF MarkOf, Alone
          <6> QED BY <2>4, <3>5, <6>1 DEF Files
        <5> QED BY <5>1, <5>2
      <4> QED BY <4>1, <4>2, AsideMark
    <3>8. \A d \in Conns : ReadOf(d)'
      BY <1>0, <2>1 DEF ReadOf
    <3> QED BY <3>6, <3>7, <3>8 DEF MarkInv
  <2> QED BY <1>8, <2>2, <2>3, <2>4 DEF Jump
<1>9. ASSUME NEW c \in Conns, MailDone(c) PROVE MarkInv'
  <2>1. PICK i \in {"READ", "WRITE"} :
            s' = [s EXCEPT ![c] = [s[c] EXCEPT !.stm = "TRANSACTION", !.wb = <<>>, !.interest = i]]
    BY <1>9 DEF MailDone
  <2>2. /\ s'[c].stm = "TRANSACTION" /\ s'[c].user = s[c].user /\ s'[c].mails = s[c].mails
        /\ s'[c].flags = s[c].flags /\ s'[c].marked = s[c].marked
        /\ \A d \in Conns \ {c} : s'[d] = s[d]
    BY <1>0, <2>1, OthersSame DEF TypeOK, Session
  <2>3. box' = box /\ cur' = NoConn /\ s[c].stm = "READING_MAIL"
    BY <1>9 DEF MailDone, Idle
  <2>4. MarkOf(c)'
    BY <2>2, <2>3, SameMark DEF MarkInv
  <2> QED BY <1>0, <2>2, <2>3, <2>4, MarkFrame
<1>10. ASSUME NEW c \in Conns, MailFails(c) PROVE MarkInv'
  <2>1. s' = [s EXCEPT ![c] = Blank("CLOSED")] /\ cur' = NoConn /\ box' = box
    BY <1>10 DEF MailFails, pop3_done, Idle
  <2> QED BY <1>2, <2>1
<1>11. CASE AcceptFails \/ Halted \/ UNCHANGED vars \/ \E c \in Conns : ClientReads(c)
  <2>1. s' = s /\ box' = box /\ cur' = cur /\ room' = room /\ curr_state' = curr_state
    BY <1>11 DEF AcceptFails, Halted, vars, ClientReads
  <2>2. \A d \in Conns : MarkOf(d)'
    BY <2>1, SameMark DEF MarkInv
  <2>3. \A d \in Conns : ReadOf(d)'
    BY <2>1 DEF MarkInv, ReadOf
  <2> QED BY <2>2, <2>3 DEF MarkInv
<1>12. CASE Deliver
  <2>1. PICK m \in Late : box' = box \cup {m}
    BY <1>12 DEF Deliver
  <2>2. s' = s /\ cur' = cur /\ room' = room /\ curr_state' = curr_state
    BY <1>12 DEF Deliver
  <2>3. ASSUME NEW d \in Conns PROVE MarkOf(d)'
    <3>1. Alone(s[d].user) => Files(s[d].user)' = Files(s[d].user)
      BY <2>1, <2>2 DEF Alone, Files
    <3> QED BY <2>2, <3>1, AsideMark DEF MarkInv
  <2>4. \A d \in Conns : ReadOf(d)'
    BY <2>2 DEF MarkInv, ReadOf
  <2> QED BY <2>3, <2>4 DEF MarkInv
<1> QED BY <1>3, <1>4, <1>5, <1>6, <1>7, <1>8, <1>9, <1>10, <1>11, <1>12 DEF Next

\* Steps that neither take files away nor bring a session to UPDATE.
Calm ==
    /\ box \subseteq box'
    /\ \A d \in Conns : s'[d].stm = "UPDATE" => s[d].stm = "UPDATE"

\* Only the jump of a session to UPDATE is not calm.
LEMMA CalmStep ==
    ASSUME Base, [Next]_vars, \A c \in Conns : Jump(c) => curr_state # "UPDATE"
    PROVE  Calm
<1>0. TypeOK
  BY DEF Base
<1>1. ASSUME NEW c \in Conns, NEW st, s' = [s EXCEPT ![c] = Blank(st)], st # "UPDATE",
             box' = box
      PROVE  Calm
  <2>1. s'[c] = Blank(st) /\ \A d \in Conns \ {c} : s'[d] = s[d]
    BY <1>0, <1>1, OthersSame
  <2> QED BY <1>1, <2>1 DEF Calm, Blank
<1>2. ASSUME NEW c \in Conns, NEW y, s' = [s EXCEPT ![c] = y],
             y.stm \in {s[c].stm, "AUTH", "TRANSACTION", "READING_MAIL"}, box' = box
      PROVE  Calm
  <2>1. s'[c] = y /\ \A d \in Conns \ {c} : s'[d] = s[d]
    BY <1>0, <1>2, OthersSame
  <2> QED BY <1>2, <2>1 DEF Calm
<1>3. ASSUME NEW c \in Conns, pop3_passive_accept(c) \/ SocketFails(c) \/ MailFails(c)
      PROVE  Calm
  BY <1>1, <1>3 DEF pop3_passive_accept, SocketFails, MailFails, pop3_done
<1>4. ASSUME NEW c \in Conns, client_write(c) PROVE Calm
  <2>1. CASE pop3_done(c)
    BY <1>1, <1>4, <2>1 DEF client_write, pop3_done
  <2>2. CASE ~pop3_done(c)
    <3> DEFINE x == Arrived(s[c])
    <3>1. PICK k \in 0..Len(x.wb) :
            s' = [s EXCEPT ![c] = [x EXCEPT !.wb = SubSeq(x.wb, k + 1, Len(x.wb)),
                                   !.interest = IF k = Len(x.wb) THEN "READ" ELSE x.interest]]
      BY <1>4, <2>2 DEF client_write
    <3>2. x \in Session /\ x.stm \in {s[c].stm, "AUTH"}
      <4>1. s[c].wb \in Seq(Reply) /\ write_to_buffer(s[c].wb, Ok) \in Seq(Reply)
            /\ s[c] \in Session
        BY <1>0, BufferType, RepliesType DEF TypeOK, Session
      <4> QED BY <4>1 DEF Arrived, Session, States
    <3> DEFINE y == [x EXCEPT !.wb = SubSeq(x.wb, k + 1, Len(x.wb)),
                              !.interest = IF k = Len(x.wb) THEN "READ" ELSE x.interest]
    <3>3. y.stm = x.stm
      BY <3>2 DEF Session
    <3> HIDE DEF y
    <3>4. s' = [s EXCEPT ![c] = y] /\ box' = box
      BY <1>4, <3>1 DEF y, client_write
    <3> QED BY <1>2, <3>2, <3>3, <3>4
  <2> QED BY <2>1, <2>2
<1>5. ASSUME NEW c \in Conns, Command(c) PROVE Calm
  <2>1. CommandStep(c)
    BY <1>5, CommandIsStep DEF Base
  <2>2. CASE \E why \in Stops : Stop(why)
    BY <2>2 DEF Stop, Calm
  <2>3. ASSUME NEW x \in Session, NEW r \in Reply, NEW to \in ReadResults, Return(c, x, r, to),
               AuthStep(c, x, to) \/ TransStep(c, x, to)
        PROVE  Calm
    <3>1. x.stm = s[c].stm
      BY <1>0, <2>3 DEF AuthStep, TransStep, TypeOK, Session
    <3>2. s'[c].stm = x.stm /\ box' = box /\ \A d \in Conns \ {c} : s'[d] = s[d]
      BY <1>0, <2>3, ReturnSession
    <3> QED BY <3>1, <3>2 DEF Calm
  <2> QED BY <2>1, <2>2, <2>3 DEF CommandStep
<1>6. ASSUME NEW c \in Conns, Jump(c) PROVE Calm
  <2>1. CASE pop3_done(c) /\ box' = box
    BY <1>1, <2>1 DEF pop3_done
  <2>2. CASE /\ s' = [s EXCEPT ![c] = [s[c] EXCEPT !.stm = curr_state]]
             /\ curr_state \in {"AUTH", "TRANSACTION", "READING_MAIL"}
             /\ box' = box
    <3> DEFINE y == [s[c] EXCEPT !.stm = curr_state]
    <3>1. y.stm = curr_state
      BY <1>0 DEF TypeOK, Session
    <3> HIDE DEF y
    <3>2. s' = [s EXCEPT ![c] = y]
      BY <2>2 DEF y
    <3> QED BY <1>2, <2>2, <3>1, <3>2
  <2> QED BY <1>6, <2>1, <2>2 DEF Jump
<1>7. ASSUME NEW c \in Conns, MailDone(c) PROVE Calm
  <2>1. PICK i \in {"READ", "WRITE"} :
            s' = [s EXCEPT ![c] = [s[c] EXCEPT !.stm = "TRANSACTION", !.wb = <<>>, !.interest = i]]
    BY <1>7 DEF MailDone
  <2> DEFINE y == [s[c] EXCEPT !.stm = "TRANSACTION", !.wb = <<>>, !.interest = i]
  <2>2. y.stm = "TRANSACTION"
    BY <1>0 DEF TypeOK, Session
  <2> HIDE DEF y
  <2>3. s' = [s EXCEPT ![c] = y] /\ box' = box
    BY <1>7, <2>1 DEF y, MailDone
  <2> QED BY <1>2, <2>2, <2>3
<1>8. CASE \/ AcceptFails \/ Deliver \/ Halted \/ UNCHANGED vars
           \/ \E c \in Conns : Recv(c) \/ ClientReads(c)
  BY <1>8 DEF AcceptFails, Deliver, Halted, vars, Recv, ClientReads, Calm
<1> QED BY <1>3, <1>4, <1>5, <1>6, <1>7, <1>8 DEF Next

\* What the jump to UPDATE takes away from a directory nobody else uses is what the
\* session marked.
LEMMA RemovalStep ==
    ASSUME Base, MarkInv, [Next]_vars
    PROVE  /\ RemovesOnlyMarked
           /\ \A c \in Conns : Quits(c) /\ Alone(s[c].user) => s[c].marked \cap box' = {}
<1>1. CASE \A c \in Conns : Jump(c) => curr_state # "UPDATE"
  <2>1. Calm
    BY <1>1, CalmStep
  <2> QED BY <2>1 DEF Calm, RemovesOnlyMarked, Quits
<1>2. ASSUME NEW c \in Conns, Jump(c), curr_state = "UPDATE"
      PROVE  /\ RemovesOnlyMarked
             /\ \A d \in Conns : Quits(d) /\ Alone(s[d].user) => s[d].marked \cap box' = {}
  <2>1. TypeOK /\ s[c] \in Session
    BY DEF Base, TypeOK
  <2>2. /\ s' = [s EXCEPT ![c] = [s[c] EXCEPT !.stm = "UPDATE"]]
        /\ box' = box \ delete_mails(s[c])
    BY <1>2 DEF Jump
  <2>3. s[c].stm = "TRANSACTION" /\ MarkOf(c)
    BY <1>2 DEF Jump, MarkInv, ReadOf
  <2>4. Alone(s[c].user) => delete_mails(s[c]) = s[c].marked
    BY <2>1, <2>3, FlaggedAreMarked DEF MarkOf
  <2>5. \A m \in delete_mails(s[c]) : Owner[m] = s[c].user
    BY <2>1, <2>3 DEF MarkOf, OwnMails, delete_mails, Session
  <2> DEFINE y == [s[c] EXCEPT !.stm = "UPDATE"]
  <2>6. y.stm = "UPDATE"
    BY <2>1 DEF Session
  <2> HIDE DEF y
  <2>7. s' = [s EXCEPT ![c] = y]
    BY <2>2 DEF y
  <2>8. s'[c] = y /\ \A d \in Conns \ {c} : s'[d] = s[d]
    BY <2>1, <2>7, OthersSame
  <2>9. Quits(c) /\ \A d \in Conns \ {c} : ~Quits(d)
    BY <2>3, <2>6, <2>8 DEF Quits
  <2>10. RemovesOnlyMarked
    <3> SUFFICES ASSUME NEW m \in box \ box', Alone(Owner[m]) PROVE RemovedByItsQuit(m)
      BY DEF RemovesOnlyMarked
    <3>1. m \in delete_mails(s[c])
      BY <2>2
    <3>2. m \in s[c].marked
      BY <2>4, <2>5, <3>1
    <3> QED BY <2>9, <3>2 DEF RemovedByItsQuit
  <2> QED BY <2>2, <2>4, <2>9, <2>10
<1> QED BY <1>1, <1>2

\* No session has marked anything at the start.
LEMMA MarkInit == Init => MarkInv
BY ConstantsOK
   DEF Init, MarkInv, MarkOf, ReadOf, FlagsMean, OwnMails, Untouched, Named, Blank,
       ConstantsAssumption

\* With one command per read, a file of a directory that one connection alone may name,
\* and to which nothing is delivered, is removed only by the QUIT of the session that
\* named it in DELE, whatever the sessions of other directories do.
THEOREM MarkedRemoval == MaxBatch = 1 => (Spec => OnlyMarkedRemoved)
<1> SUFFICES ASSUME MaxBatch = 1 PROVE Spec => OnlyMarkedRemoved
  OBVIOUS
<1>1. Base /\ MarkInv /\ [Next]_vars => MarkInv'
  BY MarkStep
<1>2. Base /\ MarkInv /\ [Next]_vars => [RemovesOnlyMarked]_vars
  BY RemovalStep
<1> QED BY <1>1, <1>2, MarkInit, BaseInvariant, PTL DEF Spec, OnlyMarkedRemoved

\* Under the same conditions QUIT removes every file the session named and did not RSET.
THEOREM QuitIsComplete == MaxBatch = 1 => (Spec => QuitRemovesMarked)
<1> SUFFICES ASSUME MaxBatch = 1 PROVE Spec => QuitRemovesMarked
  OBVIOUS
<1>1. Base /\ MarkInv /\ [Next]_vars => MarkInv'
  BY MarkStep
<1>2. Base /\ MarkInv /\ [Next]_vars
        => [\A c \in Conns : Quits(c) /\ Alone(s[c].user) => s[c].marked \cap box' = {}]_vars
  BY RemovalStep
<1> QED BY <1>1, <1>2, MarkInit, BaseInvariant, PTL DEF Spec, QuitRemovesMarked

=============================================================================
