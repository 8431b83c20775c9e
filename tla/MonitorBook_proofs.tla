-------------------------- MODULE MonitorBook_proofs --------------------------
(***************************************************************************)
(* Proofs that the list of POP3 users and the array of administrators of   *)
(* Monitor are books of accounts: both implement AccountBook, an order     *)
(* being carried out, refused or garbled by the call that feeds the last   *)
(* byte of its request.                                                    *)
(***************************************************************************)
EXTENDS MonitorParse_proofs, FiniteSetTheorems

-----------------------------------------------------------------------------
(* The clerks of both books. *)

Books == {UserTargets, AdminTargets}

\* The orders and the answers of a book, as the refinement has them.
Orders(targets) == [c \in Conns |-> OrderOf(c, targets)]
Answers(targets) == [c \in Conns |-> AnswerTo(c, targets)]

\* What a step does to the orders and the answers.
Stay(T) == Orders(T)' = Orders(T) /\ Answers(T)' = Answers(T)

Garbling(S, T) ==
    Orders(T)' = [k \in Conns |->
        IF k \in S /\ Orders(T)[k] \in OrdersFor(T) /\ Answers(T)[k] = "none"
        THEN Lost ELSE Orders(T)[k]]

Comes(c, T) ==
    /\ Orders(T)[c] = NoOrder /\ Answers(T)[c] = "none"
    /\ \E o \in OrdersFor(T) \cup {Lost} : Orders(T)' = [Orders(T) EXCEPT ![c] = o]
    /\ Answers(T)' = Answers(T)

Leaves(c, T) ==
    /\ Orders(T)' = [Orders(T) EXCEPT ![c] = NoOrder]
    /\ Answers(T)' = [Answers(T) EXCEPT ![c] = "none"]

IsTold(c, T, what) ==
    /\ \E S \in SUBSET (Conns \ {c}) : Garbling(S, T)
    /\ Answers(T)' = [Answers(T) EXCEPT ![c] = what]

\* The two books are about different requests, and a garbled order is none that was given.
LEMMA OrdersAre ==
    ASSUME NEW T \in Books
    PROVE  /\ NoOrder \notin OrdersFor(T) /\ Lost \notin OrdersFor(T) /\ NoOrder # Lost
           /\ UserTargets # AdminTargets
           /\ \A r : Concerns(r, T) => Adds(r) \/ Removes(r)
           /\ \A r : Order(r).op = "add" <=> Adds(r)
           /\ \A r : Order(r).op = "remove" <=> ~Adds(r)
           /\ \A r : Adds(r) => ~Removes(r)
<1>1. \A r : Order(r).op \in {"add", "remove"}
  BY DEF Order
<1>2. NoOrder.op = "none" /\ Lost.op = "lost"
  BY DEF NoOrder, Lost
<1>3. NoOrder \notin OrdersFor(T) /\ Lost \notin OrdersFor(T) /\ NoOrder # Lost
  BY <1>1, <1>2 DEF OrdersFor
<1>4. UserTargets # AdminTargets
  BY DEF UserTargets, AdminTargets, add_pop3, remove_pop3, add_admin, remove_admin
<1>5. \A r : Concerns(r, T) => Adds(r) \/ Removes(r)
  BY DEF Concerns, Adds, Removes, Books, UserTargets, AdminTargets
<1>6. \A r : Order(r).op = "add" <=> Adds(r)
  BY DEF Order
<1>7. \A r : Order(r).op = "remove" <=> ~Adds(r)
  BY DEF Order
<1>8. \A r : Adds(r) => ~Removes(r)
  BY DEF Adds, Removes, add_admin, add_pop3, remove_admin, remove_pop3
<1> QED BY <1>3, <1>4, <1>5, <1>6, <1>7, <1>8

\* A connection in the same state, with the same request, is the same clerk.
LEMMA ClerkStays ==
    ASSUME NEW T, NEW d \in Conns, conn'[d].st = conn[d].st, conn'[d].status = conn[d].status,
           conn[d].st # "closed" => cli'[d].req = cli[d].req,
           d \in disturbed' <=> d \in disturbed
    PROVE  OrderOf(d, T)' = OrderOf(d, T) /\ AnswerTo(d, T)' = AnswerTo(d, T)
<1>1. OrderOf(d, T)' = OrderOf(d, T)
  BY DEF OrderOf
<1>2. AnswerTo(d, T)' = AnswerTo(d, T)
  BY DEF AnswerTo
<1> QED BY <1>1, <1>2

\* When every connection keeps its state, its status and its request, so do the clerks.
LEMMA AllStay ==
    ASSUME NEW T,
           \A d \in Conns :
                /\ conn'[d].st = conn[d].st /\ conn'[d].status = conn[d].status
                /\ conn[d].st # "closed" => cli'[d].req = cli[d].req
                /\ d \in disturbed' <=> d \in disturbed
    PROVE  Stay(T)
BY ClerkStays DEF Stay, Orders, Answers

\* The order of a request.
OrderFor(r, garbled, T) ==
    IF ~Concerns(r, T) THEN NoOrder
    ELSE IF garbled \/ ~ShortName(r) THEN Lost
    ELSE Order(r)

\* What OrderFor makes of a request that concerns the book, garbled or not.
LEMMA OrderForIs ==
    ASSUME NEW T \in Books, NEW r \in Requests, NEW garbled \in BOOLEAN
    PROVE  /\ OrderFor(r, garbled, T) \in OrdersFor(T) \cup {Lost, NoOrder}
           /\ OrderFor(r, garbled, T) = NoOrder <=> ~Concerns(r, T)
           /\ OrderFor(r, garbled, T) \in OrdersFor(T) =>
                /\ OrderFor(r, garbled, T) = Order(r)
                /\ ~garbled /\ ShortName(r) /\ Concerns(r, T)
<1>1. Concerns(r, T) => Order(r) \in OrdersFor(T)
  BY DEF OrdersFor
<1> QED BY <1>1, OrdersAre DEF OrderFor

\* The order of a clerk is the one of its request, while the connection is open.
LEMMA OrderOfIs ==
    ASSUME NEW T \in Books, NEW c \in Conns
    PROVE  /\ OrderOf(c, T) = IF conn[c].st = "closed" THEN NoOrder
                              ELSE OrderFor(cli[c].req, c \in disturbed, T)
           /\ OrderOf(c, T)' = IF conn'[c].st = "closed" THEN NoOrder
                               ELSE OrderFor(cli'[c].req, c \in disturbed', T)
<1>1. OrderOf(c, T) = IF conn[c].st = "closed" THEN NoOrder
                      ELSE OrderFor(cli[c].req, c \in disturbed, T)
  BY DEF OrderOf, OrderFor
<1>2. OrderOf(c, T)' = IF conn'[c].st = "closed" THEN NoOrder
                       ELSE OrderFor(cli'[c].req, c \in disturbed', T)
  BY DEF OrderOf, OrderFor
<1> QED BY <1>1, <1>2

-----------------------------------------------------------------------------
(* Connections come and go. *)

\* Accepting a connection brings a clerk if its request concerns the book.
LEMMA ClerkComes ==
    ASSUME TypeOK, ParseInv, ParseInv', NEW c \in Conns, NEW T \in Books, monitor_passive_accept(c)
    PROVE  Stay(T) \/ Comes(c, T)
<1>1. conn \in [Conns -> AdminConnection] /\ cli \in [Conns -> Client]
  BY DEF TypeOK
<1>2. /\ conn' = [conn EXCEPT ![c] = Zeroed] /\ cli' = [cli EXCEPT ![c].st = "connected"]
      /\ disturbed' = disturbed /\ cli[c].st = "queued"
  BY DEF monitor_passive_accept, new_admin_connection
<1>3. /\ conn[c].st = "closed" /\ conn'[c].st = "version"
      /\ cli[c].req \in Asks[c] /\ parse_args(cli[c].req) /\ cli'[c].req = cli[c].req
  BY <1>1, <1>2 DEF ParseInv, Local, Zeroed, Client
<1>4. cli'[c].req \in Requests
  BY <1>3 DEF Requests
<1>5. OrderOf(c, T) = NoOrder /\ OrderOf(c, T)' \in OrdersFor(T) \cup {Lost, NoOrder}
  <2>1. OrderOf(c, T)' = OrderFor(cli'[c].req, c \in disturbed', T)
    BY <1>3, OrderOfIs
  <2>2. (c \in disturbed') \in BOOLEAN
    OBVIOUS
  <2>3. OrderFor(cli'[c].req, c \in disturbed', T) \in OrdersFor(T) \cup {Lost, NoOrder}
    BY <1>4, <2>2, OrderForIs
  <2> QED BY <1>3, <2>1, <2>3, OrderOfIs
<1>6. AnswerTo(c, T) = "none" /\ AnswerTo(c, T)' = "none"
  BY <1>3 DEF AnswerTo
<1>7. \A d \in Conns \ {c} : OrderOf(d, T)' = OrderOf(d, T) /\ AnswerTo(d, T)' = AnswerTo(d, T)
  BY <1>1, <1>2, ClerkStays
<1>8. Answers(T)' = Answers(T)
  BY <1>6, <1>7 DEF Answers
<1>9. Orders(T)' = [Orders(T) EXCEPT ![c] = OrderOf(c, T)']
  BY <1>7 DEF Orders
<1>10. Orders(T)[c] = NoOrder /\ Answers(T)[c] = "none"
  BY <1>5, <1>6 DEF Orders, Answers
<1>11. CASE OrderOf(c, T)' = NoOrder
  <2>1. Orders(T)' = Orders(T)
    BY <1>5, <1>7, <1>11 DEF Orders
  <2> QED BY <1>8, <2>1 DEF Stay
<1>12. CASE OrderOf(c, T)' \in OrdersFor(T) \cup {Lost}
  BY <1>8, <1>9, <1>10, <1>12 DEF Comes
<1> QED BY <1>5, <1>11, <1>12

\* Closing a connection takes its clerk away.
LEMMA ClerkLeaves ==
    ASSUME TypeOK, NEW c \in Conns, NEW T \in Books, monitor_end(c),
           \A d \in Conns \ {c} : cli'[d] = cli[d]
    PROVE  Leaves(c, T)
<1>1. conn \in [Conns -> AdminConnection]
  BY DEF TypeOK
<1>2. /\ conn'[c].st = "closed" /\ disturbed' = disturbed \ {c}
      /\ \A d \in Conns \ {c} : conn'[d] = conn[d]
  BY <1>1 DEF monitor_end, Zeroed
<1>3. OrderOf(c, T)' = NoOrder /\ AnswerTo(c, T)' = "none"
  BY <1>2, OrderOfIs DEF AnswerTo
<1>4. \A d \in Conns \ {c} : OrderOf(d, T)' = OrderOf(d, T) /\ AnswerTo(d, T)' = AnswerTo(d, T)
  BY <1>2, ClerkStays
<1> QED BY <1>3, <1>4 DEF Leaves, Orders, Answers

\* The steps of a client, and those of a connection, that are not calls of the parser.
LEMMA ClerksOtherwise ==
    ASSUME TypeOK, ParseInv, ParseInv', NEW T \in Books, NEW c \in Conns,
           \/ Send(c) \/ ClientStep(c) \/ Interrupt(c)
           \/ monitor_passive_accept(c) \/ AcceptFails(c) \/ ReadFails(c) \/ monitor_write(c)
    PROVE  /\ UNCHANGED book
           /\ Stay(T) \/ Comes(c, T) \/ Leaves(c, T)
<1>1. conn \in [Conns -> AdminConnection] /\ cli \in [Conns -> Client]
  BY DEF TypeOK
<1>2. UNCHANGED book
  BY DEF Send, ClientStep, Receive, process_response, Reset, Interrupt,
         monitor_passive_accept, AcceptFails, ReadFails, monitor_write
<1>3. CASE Send(c) \/ process_response(c) \/ Reset(c)
  <2>1. /\ conn[c].st = "closed" /\ conn' = conn /\ disturbed' = disturbed
        /\ \A d \in Conns \ {c} : cli'[d] = cli[d]
    BY <1>1, <1>3 DEF Send, process_response, Reset
  <2> QED BY <1>2, <2>1, AllStay
<1>4. CASE Receive(c) \/ Interrupt(c) \/ AcceptFails(c)
  <2>1. /\ conn' = conn /\ disturbed' = disturbed /\ cli'[c].req = cli[c].req
        /\ \A d \in Conns \ {c} : cli'[d] = cli[d]
    <3>1. CASE Receive(c)
      BY <1>1, <3>1 DEF Receive, Client
    <3>2. CASE Interrupt(c)
      BY <1>1, <3>2 DEF Interrupt, Client
    <3>3. CASE AcceptFails(c)
      BY <1>1, <3>3 DEF AcceptFails, Client
    <3> QED BY <1>4, <3>1, <3>2, <3>3
  <2> QED BY <1>2, <2>1, AllStay
<1>5. CASE monitor_passive_accept(c)
  BY <1>2, <1>5, ClerkComes
<1>6. CASE ReadFails(c)
  BY <1>2, <1>6, ClerkLeaves DEF ReadFails
<1>7. CASE monitor_write(c)
  <2>1. CASE cli[c].st = "gone" /\ monitor_end(c) /\ UNCHANGED cli
    BY <1>2, <2>1, ClerkLeaves
  <2>2. ASSUME NEW k \in 1..Len(conn[c].wb),
               cli' = [cli EXCEPT ![c].inn =
                        IF cli[c].st = "gone" THEN @ ELSE @ \o SubSeq(conn[c].wb, 1, k)],
               IF k = Len(conn[c].wb)
               THEN monitor_end(c)
               ELSE /\ conn' = [conn EXCEPT ![c].wb = SubSeq(@, k + 1, Len(@))]
                    /\ UNCHANGED <<pools, disturbed>>
        PROVE  Stay(T) \/ Leaves(c, T)
    <3>1. \A d \in Conns : cli'[d].req = cli[d].req /\ (d # c => cli'[d] = cli[d])
      BY <1>1, <2>2 DEF Client
    <3>2. CASE monitor_end(c)
      BY <3>1, <3>2, ClerkLeaves
    <3>3. CASE conn' = [conn EXCEPT ![c].wb = SubSeq(@, k + 1, Len(@))] /\ UNCHANGED disturbed
      <4>1. \A d \in Conns : conn'[d].st = conn[d].st /\ conn'[d].status = conn[d].status
        BY <1>1, <3>3 DEF AdminConnection
      <4> QED BY <3>1, <3>3, <4>1, AllStay
    <3> QED BY <2>2, <3>2, <3>3
  <2> QED BY <1>2, <1>7, <2>1, <2>2 DEF monitor_write
<1> QED BY <1>3, <1>4, <1>5, <1>6, <1>7 DEF ClientStep

-----------------------------------------------------------------------------
(* A call of the parser. *)

\* It moves its own connection, which stays open with the request it has.
LEMMA FeedFrame ==
    ASSUME TypeOK, ParseInv, NEW c \in Conns, monitor_parser_feed(c)
    PROVE  /\ conn[c].st \in Reading /\ conn'[c].st \in Reading \cup Replying
           /\ cli'[c].req = cli[c].req
           /\ \A d \in Conns \ {c} : conn'[d] = conn[d] /\ cli'[d] = cli[d]
<1>1. conn \in [Conns -> AdminConnection] /\ cli \in [Conns -> Client] /\ conn[c].st \in Reading
  BY FeedIs, RoomForData DEF TypeOK
<1>2. PICK y \in AdminConnection :
        \/ Parsed(c, y) /\ y.st \in Reading
        \/ monitor_action(c, y)
        \/ \E status \in Statuses : Error(c, y, status)
  BY FeedIs, RoomForData
<1>3. CASE Parsed(c, y) /\ y.st \in Reading
  <2>1. conn' = [conn EXCEPT ![c] = y] /\ cli' = [cli EXCEPT ![c].out = Tail(@)]
    BY <1>3 DEF Parsed
  <2> QED BY <1>1, <1>3, <2>1 DEF Client
<1>4. ASSUME NEW st \in Replying, NEW status, Answer(c, y, st, status)
      PROVE  /\ conn'[c].st \in Replying /\ cli'[c].req = cli[c].req
             /\ \A d \in Conns \ {c} : conn'[d] = conn[d] /\ cli'[d] = cli[d]
  <2>1. PICK out : cli' = [cli EXCEPT ![c].out = out]
    BY <1>4 DEF Answer
  <2>2. conn' = [conn EXCEPT ![c] = [y EXCEPT !.st = st, !.status = status,
                                              !.wb = Reply(status)]]
    BY <1>4 DEF Answer
  <2> QED BY <1>1, <2>1, <2>2 DEF Client, AdminConnection
<1>5. CASE monitor_action(c, y)
  BY <1>1, <1>4, <1>5, ActionForm, Kinds DEF FreedList
<1>6. CASE \E status \in Statuses : Error(c, y, status)
  BY <1>1, <1>4, <1>6, Kinds DEF Error
<1> QED BY <1>2, <1>3, <1>5, <1>6

\* It garbles the orders of others only, and of those that are not answered.
LEMMA FeedDisturbs ==
    ASSUME TypeOK, NEW c \in Conns, monitor_parser_feed(c)
    PROVE  /\ disturbed \subseteq disturbed'
           /\ \A d \in disturbed' : d \in disturbed \/ (d \in Conns \ {c} /\ conn[d].finish_user)
<1>1. CASE parse_data_separator(c)
  BY <1>1 DEF parse_data_separator
<1>2. CASE parse_version(c) \/ parse_token(c) \/ parse_type(c) \/ parser_target(c)
  BY <1>2 DEF parse_version, parse_token, parse_type, parser_target, Error
<1>3. CASE parse_dlen(c) \/ parse_data_text(c) \/ parse_data_account(c)
  BY <1>3 DEF parse_dlen, parse_data_text, parse_data_account
<1> QED BY <1>1, <1>2, <1>3 DEF monitor_parser_feed

\* While monitor_parser_feed runs, other clerks may have their orders garbled, and only
\* the one served is answered.
LEMMA FeedClerks ==
    ASSUME TypeOK, ParseInv, NEW c \in Conns, monitor_parser_feed(c), NEW T \in Books
    PROVE  /\ \E S \in SUBSET (Conns \ {c}) : Garbling(S, T)
           /\ Answers(T)[c] = "none"
           /\ Answers(T)' = [Answers(T) EXCEPT ![c] = AnswerTo(c, T)']
<1> DEFINE S == {d \in Conns \ {c} : d \in disturbed' /\ d \notin disturbed}
<1>1. /\ conn[c].st \in Reading /\ conn'[c].st \in Reading \cup Replying
      /\ cli'[c].req = cli[c].req
      /\ \A d \in Conns \ {c} : conn'[d] = conn[d] /\ cli'[d] = cli[d]
  BY FeedFrame
<1>2. disturbed \subseteq disturbed' /\ (c \in disturbed' <=> c \in disturbed)
  BY FeedDisturbs
<1>3. conn[c].st # "closed" /\ conn'[c].st # "closed" /\ conn[c].st # "finish"
  BY <1>1, Kinds
<1>4. OrderOf(c, T)' = OrderOf(c, T) /\ AnswerTo(c, T) = "none"
  BY <1>1, <1>2, <1>3, OrderOfIs DEF AnswerTo
<1>5. \A d \in Conns \ {c} : AnswerTo(d, T)' = AnswerTo(d, T)
  BY <1>1 DEF AnswerTo
<1>6. ASSUME NEW d \in Conns \ {c}, d \notin S PROVE OrderOf(d, T)' = OrderOf(d, T)
  <2>1. d \in disturbed' <=> d \in disturbed
    BY <1>2, <1>6
  <2> QED BY <1>1, <2>1, ClerkStays
<1>7. ASSUME NEW d \in S
      PROVE  OrderOf(d, T)' = IF OrderOf(d, T) \in OrdersFor(T) /\ AnswerTo(d, T) = "none"
                              THEN Lost ELSE OrderOf(d, T)
  <2>1. /\ d \in Conns /\ conn[d].finish_user /\ conn'[d] = conn[d] /\ cli'[d] = cli[d]
        /\ d \in disturbed' /\ d \notin disturbed
    BY <1>1, FeedDisturbs
  <2>2. Local(d)
    BY <2>1 DEF ParseInv
  <2>3. conn[d].st # "finish"
    BY <2>1, <2>2, Kinds DEF Local, Outcome
  <2>4. AnswerTo(d, T) = "none"
    BY <2>3 DEF AnswerTo
  <2>5. CASE conn[d].st = "closed"
    <3>1. OrderOf(d, T)' = NoOrder /\ OrderOf(d, T) = NoOrder
      BY <2>1, <2>5, OrderOfIs
    <3> QED BY <3>1, OrdersAre
  <2>6. CASE conn[d].st # "closed"
    <3>1. cli[d].req \in Requests
      BY <2>1, <2>2, <2>6 DEF Local, Requests
    <3>2. /\ OrderOf(d, T) = OrderFor(cli[d].req, FALSE, T)
          /\ OrderOf(d, T)' = OrderFor(cli[d].req, TRUE, T)
      BY <2>1, <2>6, OrderOfIs DEF OrderFor
    <3>3. Concerns(cli[d].req, T) => OrderOf(d, T)' = Lost
      BY <3>2 DEF OrderFor
    <3>4. ~Concerns(cli[d].req, T) => OrderOf(d, T)' = NoOrder /\ OrderOf(d, T) = NoOrder
      BY <3>2 DEF OrderFor
    <3>5. OrderOf(d, T) \in OrdersFor(T) \cup {Lost, NoOrder}
      BY <3>1, <3>2, OrderForIs
    <3>6. OrderOf(d, T) = NoOrder <=> ~Concerns(cli[d].req, T)
      BY <3>1, <3>2, OrderForIs
    <3> QED BY <2>4, <3>3, <3>4, <3>5, <3>6, OrdersAre
  <2> QED BY <2>5, <2>6
<1> HIDE DEF S
<1>8. S \in SUBSET (Conns \ {c})
  BY DEF S
<1>9. Garbling(S, T)
  BY <1>4, <1>6, <1>7, <1>8 DEF Garbling, Orders, Answers
<1>10. Answers(T)[c] = "none"
  BY <1>4 DEF Answers
<1>11. Answers(T)' = [Answers(T) EXCEPT ![c] = AnswerTo(c, T)']
  BY <1>5 DEF Answers
<1> QED BY <1>8, <1>9, <1>10, <1>11

\* When it carries out the request, the order of the clerk is garbled, or it is the order of
\* the request, with the name and the secret the parser has read.
LEMMA FeedOrder ==
    ASSUME TypeOK, ParseInv, ParseInv', NEW c \in Conns, monitor_parser_feed(c), NEW T \in Books,
           NEW x \in AdminConnection, NEW status \in Statuses, Answer(c, x, "finish", status)
    PROVE  /\ cli[c].req \in Requests /\ x.type = cli[c].req.type /\ x.target = cli[c].req.target
           /\ conn'[c].st = "finish" /\ conn'[c].status = status /\ cli'[c].req = cli[c].req
           /\ Concerns(cli[c].req, T) =>
                /\ OrderOf(c, T) \in OrdersFor(T) \cup {Lost}
                /\ OrderOf(c, T) \in OrdersFor(T) =>
                    /\ OrderOf(c, T) = Order(cli[c].req)
                    /\ name(x) = cli[c].req.name
                    /\ Adds(x) => secret(x) = cli[c].req.secret
<1> DEFINE r == cli[c].req
<1>1. conn[c].st \in Reading /\ cli'[c].req = r /\ conn[c].st # "closed"
  BY FeedFrame, Kinds
<1>2. r \in Requests
  BY <1>1 DEF ParseInv, Local, Requests
<1>3. conn \in [Conns -> AdminConnection]
  BY DEF TypeOK
<1>4. conn' = [conn EXCEPT ![c] = [x EXCEPT !.st = "finish", !.status = status,
                                            !.wb = Reply(status)]]
  BY DEF Answer
<1>5. /\ conn'[c].st = "finish" /\ conn'[c].status = status /\ conn'[c].token = x.token
      /\ conn'[c].type = x.type /\ conn'[c].target = x.target /\ conn'[c].data = x.data
  BY <1>3, <1>4 DEF AdminConnection
<1>6. Local(c)'
  BY DEF ParseInv
<1>7. Outcome(conn'[c], cli'[c].req, c \notin disturbed')
  BY <1>5, <1>6, Kinds DEF Local
<1>8. /\ x.type = r.type /\ x.target = r.target
      /\ c \notin disturbed' /\ ShortName(r) => Understood(conn'[c]) = Means(r)
  BY <1>1, <1>5, <1>7 DEF Outcome
<1>9. Understood(conn'[c]) = Understood(x)
  BY <1>5 DEF Understood, name, secret, Adds
<1> HIDE DEF r
<1>10. c \in disturbed' <=> c \in disturbed
  BY FeedDisturbs
<1>11. ASSUME Concerns(r, T), c \notin disturbed, ShortName(r)
       PROVE  /\ name(x) = r.name
              /\ Adds(x) => secret(x) = r.secret
  <2>1. Understood(x) = Means(r)
    BY <1>8, <1>9, <1>10, <1>11
  <2>2. name(x) = Means(r).name /\ (Adds(x) => secret(x) = Means(r).secret)
    BY <2>1 DEF Understood
  <2>3. r.type # get /\ (Adds(x) <=> Adds(r))
    BY <1>8, <1>11 DEF Concerns, get, config, Adds
  <2> QED BY <2>2, <2>3 DEF Means
<1>12. OrderOf(c, T) = OrderFor(r, c \in disturbed, T)
  BY <1>1, OrderOfIs DEF r
<1>13. (c \in disturbed) \in BOOLEAN /\ (Adds(x) <=> Adds(r))
  BY <1>8 DEF Adds
<1>14. ASSUME Concerns(r, T)
       PROVE  /\ OrderOf(c, T) \in OrdersFor(T) \cup {Lost}
              /\ OrderOf(c, T) \in OrdersFor(T) =>
                    /\ OrderOf(c, T) = Order(r) /\ c \notin disturbed /\ ShortName(r)
  BY <1>2, <1>12, <1>13, <1>14, OrderForIs
<1> QED BY <1>1, <1>2, <1>5, <1>8, <1>11, <1>14 DEF r

-----------------------------------------------------------------------------
(* A list of accounts is a book. *)

\* Book B has the n names of us, each with its secret of ps.
Lists(B, us, ps, n) ==
    /\ B = [m \in DOMAIN B |-> B[m]] /\ DOMAIN B = {us[k] : k \in 1..n}
    /\ \A k \in 1..n : B[us[k]] = ps[k]

\* Book C is B with one name more, or with one less.
Entered(C, B, u, p) ==
    /\ u \notin DOMAIN B
    /\ C = [m \in DOMAIN B \cup {u} |-> IF m \in DOMAIN B THEN B[m] ELSE p]
Struck(C, B, u) == u \in DOMAIN B /\ C = [m \in DOMAIN B \ {u} |-> B[m]]

Distinct(us, n) == \A i, j \in 1..n : us[i] = us[j] => i = j

\* t is s without its element j, of n.
Without(t, s, j, n) ==
    (\A k \in 1..j - 1 : t[k] = s[k]) /\ \A k \in j..n - 1 : t[k] = s[k + 1]

\* Names stay different when a new one is added or one is taken out.
LEMMA DistinctEntered ==
    ASSUME NEW n \in Nat, NEW us, NEW vs, Distinct(us, n),
           \A k \in 1..n : vs[k] = us[k] /\ us[k] # vs[n + 1]
    PROVE  Distinct(vs, n + 1)
<1>1. \A k \in 1..n + 1 : k \in 1..n \/ k = n + 1
  OBVIOUS
<1> QED BY <1>1 DEF Distinct

\* A list without repetitions has none after one of its elements is removed.
LEMMA DistinctStruck ==
    ASSUME NEW n \in Nat, NEW j \in 1..n, NEW us, NEW vs, Distinct(us, n),
           Without(vs, us, j, n)
    PROVE  Distinct(vs, n - 1)
<1> DEFINE old(k) == IF k < j THEN k ELSE k + 1
<1>1. /\ \A k \in 1..n - 1 : k \in 1..j - 1 \/ k \in j..n - 1
      /\ \A k \in 1..j - 1 : k \in 1..n /\ k < j
      /\ \A k \in j..n - 1 : k + 1 \in 1..n /\ ~(k < j)
  OBVIOUS
<1>2. \A k \in 1..n - 1 : old(k) \in 1..n /\ vs[k] = us[old(k)]
  BY <1>1 DEF Without
<1>3. \A k, l \in 1..n - 1 : old(k) = old(l) => k = l
  OBVIOUS
<1> HIDE DEF old
<1> QED BY <1>2, <1>3 DEF Distinct

\* An account at the end is one that was entered.
LEMMA ListEntered ==
    ASSUME NEW n \in Nat, NEW l, l = n + 1, NEW us, NEW ps, NEW vs, NEW qs, NEW B, NEW C,
           Lists(B, us, ps, n), Lists(C, vs, qs, l),
           \A k \in 1..n : vs[k] = us[k] /\ qs[k] = ps[k] /\ us[k] # vs[l]
    PROVE  Entered(C, B, vs[l], qs[l])
<1>1. \A k \in 1..n + 1 : k \in 1..n \/ k = n + 1
  OBVIOUS
<1>2. n + 1 \in 1..n + 1 /\ \A k \in 1..n : k \in 1..n + 1
  OBVIOUS
<1>3. vs[n + 1] \notin DOMAIN B
  BY DEF Lists
<1>4. DOMAIN C = DOMAIN B \cup {vs[n + 1]}
  BY <1>1, <1>2 DEF Lists
<1>5. ASSUME NEW m \in DOMAIN C
      PROVE  C[m] = IF m \in DOMAIN B THEN B[m] ELSE qs[n + 1]
  <2>1. CASE m \in DOMAIN B
    <3>1. PICK k \in 1..n : m = us[k]
      BY <2>1 DEF Lists
    <3>2. C[vs[k]] = qs[k] /\ B[us[k]] = ps[k]
      BY <1>2 DEF Lists
    <3> QED BY <2>1, <3>1, <3>2
  <2>2. CASE m \notin DOMAIN B
    <3>1. m = vs[n + 1]
      BY <1>4, <2>2
    <3> QED BY <1>2, <2>2, <3>1 DEF Lists
  <2> QED BY <2>1, <2>2
<1> QED BY <1>3, <1>4, <1>5 DEF Lists, Entered

\* The one at position j less is one that was struck.
LEMMA ListStruck ==
    ASSUME NEW n \in Nat, NEW j \in 1..n, NEW l, l = n - 1,
           NEW us, NEW ps, NEW vs, NEW qs, NEW B, NEW C,
           Lists(B, us, ps, n), Lists(C, vs, qs, l), Distinct(us, n),
           Without(vs, us, j, n), Without(qs, ps, j, n)
    PROVE  Struck(C, B, us[j])
<1> DEFINE old(k) == IF k < j THEN k ELSE k + 1
<1>1. /\ \A k \in 1..n - 1 : k \in 1..j - 1 \/ k \in j..n - 1
      /\ \A k \in 1..j - 1 : k \in 1..n /\ k # j /\ k < j
      /\ \A k \in j..n - 1 : k + 1 \in 1..n /\ k + 1 # j /\ ~(k < j)
  OBVIOUS
<1>2. \A k \in 1..n - 1 : old(k) \in 1..n /\ old(k) # j /\ vs[k] = us[old(k)] /\ qs[k] = ps[old(k)]
  BY <1>1 DEF Without
<1>4. ASSUME NEW i \in 1..n, i # j PROVE \E k \in 1..n - 1 : old(k) = i
  <2>1. CASE i < j
    BY <2>1
  <2>2. CASE i > j
    <3>1. i - 1 \in 1..n - 1 /\ ~(i - 1 < j) /\ (i - 1) + 1 = i
      BY <2>2
    <3> QED BY <3>1
  <2> QED BY <1>4, <2>1, <2>2
<1> HIDE DEF old
<1>6. us[j] \in DOMAIN B
  BY DEF Lists
<1>7. DOMAIN C = DOMAIN B \ {us[j]}
  <2>1. ASSUME NEW m \in DOMAIN C PROVE m \in DOMAIN B /\ m # us[j]
    <3>1. PICK k \in 1..n - 1 : m = vs[k]
      BY <2>1 DEF Lists
    <3>2. m = us[old(k)] /\ old(k) \in 1..n /\ old(k) # j
      BY <1>2, <3>1
    <3> QED BY <3>2 DEF Lists, Distinct
  <2>2. ASSUME NEW m \in DOMAIN B, m # us[j] PROVE m \in DOMAIN C
    <3>1. PICK i \in 1..n : m = us[i]
      BY <2>2 DEF Lists
    <3>2. PICK k \in 1..n - 1 : old(k) = i
      BY <1>4, <2>2, <3>1
    <3>3. m = vs[k]
      BY <1>2, <3>1, <3>2
    <3> QED BY <3>3 DEF Lists
  <2> QED BY <2>1, <2>2
<1>8. ASSUME NEW m \in DOMAIN C PROVE C[m] = B[m]
  <2>1. PICK k \in 1..n - 1 : m = vs[k]
    BY <1>8 DEF Lists
  <2>2. C[m] = qs[k] /\ m = us[old(k)] /\ old(k) \in 1..n /\ qs[k] = ps[old(k)]
    BY <1>2, <2>1 DEF Lists
  <2> QED BY <2>2 DEF Lists
<1> QED BY <1>6, <1>7, <1>8 DEF Lists, Struck

-----------------------------------------------------------------------------
(* The POP3 users. *)

\* No two users have one name.
UniqueUsers == \A j, k \in DOMAIN clients : clients[j].user = clients[k].user => j = k

UsersOf(s) == [k \in DOMAIN s |-> s[k].user]
PassesOf(s) == [k \in DOMAIN s |-> s[k].pass]
BookOfUsers(s) == [u \in {s[k].user : k \in DOMAIN s} |->
                        (CHOOSE n \in {s[k] : k \in DOMAIN s} : n.user = u).pass]

\* Users with different names are a book.
LEMMA UsersAreBook ==
    ASSUME NEW s \in Seq([user : String, pass : String]), Distinct(UsersOf(s), Len(s))
    PROVE  Lists(BookOfUsers(s), UsersOf(s), PassesOf(s), Len(s))
<1>1. DOMAIN s = 1..Len(s) /\ Len(s) \in Nat
  OBVIOUS
<1>2. \A k \in 1..Len(s) : UsersOf(s)[k] = s[k].user /\ PassesOf(s)[k] = s[k].pass
  BY <1>1 DEF UsersOf, PassesOf
<1>3. DOMAIN BookOfUsers(s) = {s[k].user : k \in 1..Len(s)}
  BY <1>1 DEF BookOfUsers
<1>4. DOMAIN BookOfUsers(s) = {UsersOf(s)[k] : k \in 1..Len(s)}
  BY <1>2, <1>3
<1>5. ASSUME NEW k \in 1..Len(s) PROVE BookOfUsers(s)[s[k].user] = s[k].pass
  <2> DEFINE n == CHOOSE m \in {s[i] : i \in DOMAIN s} : m.user = s[k].user
  <2>1. s[k] \in {s[i] : i \in DOMAIN s} /\ s[k].user = s[k].user
    BY <1>1
  <2>2. n \in {s[i] : i \in DOMAIN s} /\ n.user = s[k].user
    BY <2>1
  <2>3. BookOfUsers(s)[s[k].user] = n.pass
    BY <1>1 DEF BookOfUsers
  <2> HIDE DEF n
  <2>4. PICK i \in 1..Len(s) : n = s[i]
    BY <1>1, <2>2
  <2>5. i = k
    BY <1>2, <2>2, <2>4 DEF Distinct
  <2> QED BY <2>3, <2>4, <2>5
<1>6. BookOfUsers(s) = [m \in DOMAIN BookOfUsers(s) |-> BookOfUsers(s)[m]]
  BY DEF BookOfUsers
<1> QED BY <1>2, <1>4, <1>5, <1>6 DEF Lists

\* UniqueUsers as a statement about the sequence of names.
LEMMA UniqueIsDistinct ==
    ASSUME TypeOK PROVE UniqueUsers <=> Distinct(UsersOf(clients), Len(clients))
<1>1. DOMAIN clients = 1..Len(clients)
  BY DEF TypeOK
<1> QED BY <1>1 DEF UniqueUsers, Distinct, UsersOf

\* register_user enters one.
LEMMA UsersEntered ==
    ASSUME NEW s \in Seq([user : String, pass : String]), Distinct(UsersOf(s), Len(s)),
           NEW a \in [user : String, pass : String], \A k \in DOMAIN s : s[k].user # a.user,
           NEW t, t = Append(s, a)
    PROVE  /\ Distinct(UsersOf(t), Len(t))
           /\ Entered(BookOfUsers(t), BookOfUsers(s), a.user, a.pass)
<1> DEFINE n == Len(s)
<1>1. /\ n \in Nat /\ DOMAIN s = 1..n
      /\ t \in Seq([user : String, pass : String]) /\ Len(t) = n + 1 /\ t[n + 1] = a
      /\ \A k \in 1..n : t[k] = s[k]
  OBVIOUS
<1>2. DOMAIN t = 1..n + 1
  BY <1>1
<1> HIDE DEF n
<1>3. (\A k \in 1..n : k \in 1..n + 1) /\ n + 1 \in 1..n + 1
  BY <1>1
<1>4. /\ \A k \in 1..n : UsersOf(t)[k] = UsersOf(s)[k] /\ PassesOf(t)[k] = PassesOf(s)[k]
      /\ UsersOf(t)[n + 1] = a.user /\ PassesOf(t)[n + 1] = a.pass
      /\ \A k \in 1..n : UsersOf(s)[k] # a.user
  BY <1>1, <1>2, <1>3 DEF UsersOf, PassesOf
<1>5. Distinct(UsersOf(t), n + 1)
  <2> DEFINE us == UsersOf(s)
             vs == UsersOf(t)
  <2>1. Distinct(us, n) /\ n \in Nat
    BY <1>1 DEF n
  <2>2. \A k \in 1..n : vs[k] = us[k] /\ us[k] # vs[n + 1]
    BY <1>4
  <2> HIDE DEF us, vs
  <2>3. Distinct(vs, n + 1)
    BY <2>1, <2>2, DistinctEntered
  <2> QED BY <2>3 DEF vs
<1>6. Lists(BookOfUsers(s), UsersOf(s), PassesOf(s), n)
  BY UsersAreBook DEF n
<1>7. Lists(BookOfUsers(t), UsersOf(t), PassesOf(t), n + 1)
  BY <1>1, <1>5, UsersAreBook
<1> DEFINE us == UsersOf(s)
           ps == PassesOf(s)
           vs == UsersOf(t)
           qs == PassesOf(t)
           B == BookOfUsers(s)
           C == BookOfUsers(t)
           l == n + 1
<1>8. /\ n \in Nat /\ vs[l] = a.user /\ qs[l] = a.pass /\ l = n + 1
      /\ \A k \in 1..n : vs[k] = us[k] /\ qs[k] = ps[k] /\ us[k] # vs[l]
  BY <1>1, <1>4
<1>9. Lists(B, us, ps, n) /\ Lists(C, vs, qs, l)
  BY <1>6, <1>7
<1>10. Distinct(vs, Len(t))
  BY <1>1, <1>5
<1> HIDE DEF us, ps, vs, qs, B, C, l
<1>11. Entered(C, B, vs[l], qs[l])
  BY <1>8, <1>9, ListEntered
<1>12. Entered(C, B, a.user, a.pass)
  BY <1>8, <1>11
<1> QED BY <1>10, <1>12 DEF B, C, vs

\* A sequence without its element j.
LEMMA TakenOut ==
    ASSUME NEW S, NEW s \in Seq(S), NEW j \in 1..Len(s), NEW t,
           t = SubSeq(s, 1, j - 1) \o SubSeq(s, j + 1, Len(s))
    PROVE  t \in Seq(S) /\ Len(t) = Len(s) - 1 /\ Without(t, s, j, Len(s))
<1> DEFINE n == Len(s)
           p == SubSeq(s, 1, j - 1)
           q == SubSeq(s, j + 1, n)
<1>1. n \in Nat /\ j \in 1..n /\ \A k \in 1..n : s[k] \in S
  OBVIOUS
<1>2. 1 \in Int /\ j - 1 \in Int /\ j + 1 \in Int /\ n \in Int
  BY <1>1
<1>3. (\A i \in 1..j - 1 : s[i] \in S) /\ \A i \in j + 1..n : s[i] \in S
  BY <1>1
<1>4. /\ p \in Seq(S) /\ Len(p) = IF 1 <= j - 1 THEN j - 1 - 1 + 1 ELSE 0
      /\ \A i \in 1..j - 1 - 1 + 1 : p[i] = s[1 + i - 1]
  BY <1>2, <1>3, SubSeqProperties
<1>5. /\ q \in Seq(S) /\ Len(q) = IF j + 1 <= n THEN n - (j + 1) + 1 ELSE 0
      /\ \A i \in 1..n - (j + 1) + 1 : q[i] = s[(j + 1) + i - 1]
  BY <1>2, <1>3, SubSeqProperties
<1>6. t = p \o q
  OBVIOUS
<1> HIDE DEF p, q
<1>7. /\ t \in Seq(S) /\ Len(t) = Len(p) + Len(q)
      /\ \A k \in 1..Len(p) + Len(q) : t[k] = IF k <= Len(p) THEN p[k] ELSE q[k - Len(p)]
  <2>1. p \in Seq(S) /\ q \in Seq(S)
    BY <1>4, <1>5
  <2>2. /\ p \o q \in Seq(S) /\ Len(p \o q) = Len(p) + Len(q)
        /\ \A k \in 1..Len(p) + Len(q) :
              (p \o q)[k] = IF k <= Len(p) THEN p[k] ELSE q[k - Len(p)]
    BY <2>1, ConcatProperties, Zenon
  <2> QED BY <1>6, <2>2, Zenon
<1> HIDE DEF n
<1>8. Len(p) = j - 1
  BY <1>1, <1>4
<1>9. Len(q) = n - j
  BY <1>1, <1>5
<1>10. Len(t) = n - 1
  BY <1>1, <1>7, <1>8, <1>9
<1>11. ASSUME NEW k \in 1..j - 1 PROVE t[k] = s[k]
  <2>1. k \in 1..Len(p) + Len(q) /\ k <= Len(p) /\ k \in 1..j - 1 - 1 + 1 /\ 1 + k - 1 = k
    BY <1>1, <1>8, <1>9
  <2>2. t[k] = p[k]
    BY <1>7, <2>1
  <2>3. p[k] = s[1 + k - 1]
    BY <1>4, <2>1
  <2> QED BY <2>1, <2>2, <2>3
<1>12. ASSUME NEW k \in j..n - 1 PROVE t[k] = s[k + 1]
  <2> DEFINE i == k - j + 1
  <2>1. /\ k \in 1..Len(p) + Len(q) /\ ~(k <= Len(p)) /\ k - Len(p) = i
        /\ i \in 1..n - (j + 1) + 1 /\ (j + 1) + i - 1 = k + 1
    BY <1>1, <1>8, <1>9
  <2> HIDE DEF i
  <2>2. t[k] = q[i]
    BY <1>7, <2>1
  <2>3. q[i] = s[(j + 1) + i - 1]
    BY <1>5, <2>1
  <2> QED BY <2>1, <2>2, <2>3
<1> QED BY <1>7, <1>10, <1>11, <1>12 DEF n, Without

\* unregister_user strikes one.
LEMMA UsersStruck ==
    ASSUME NEW s \in Seq([user : String, pass : String]), Distinct(UsersOf(s), Len(s)),
           NEW j \in DOMAIN s, NEW t,
           t = SubSeq(s, 1, j - 1) \o SubSeq(s, j + 1, Len(s))
    PROVE  /\ Distinct(UsersOf(t), Len(t))
           /\ Struck(BookOfUsers(t), BookOfUsers(s), s[j].user)
<1> DEFINE n == Len(s)
<1>1. n \in Nat /\ DOMAIN s = 1..n /\ j \in 1..n
  OBVIOUS
<1>5. /\ t \in Seq([user : String, pass : String]) /\ Len(t) = n - 1
      /\ \A k \in 1..j - 1 : t[k] = s[k]
      /\ \A k \in j..n - 1 : t[k] = s[k + 1]
  <2> DEFINE S == [user : String, pass : String]
  <2>1. s \in Seq(S) /\ j \in 1..Len(s) /\ t = SubSeq(s, 1, j - 1) \o SubSeq(s, j + 1, Len(s))
    BY <1>1
  <2> HIDE DEF S
  <2>2. t \in Seq(S) /\ Len(t) = Len(s) - 1 /\ Without(t, s, j, Len(s))
    BY <2>1, TakenOut
  <2> QED BY <2>2 DEF S, Without
<1> HIDE DEF n
<1>7. ASSUME NEW k \in 1..j - 1 PROVE t[k] = s[k] /\ k \in 1..n /\ k \in 1..n - 1
  BY <1>1, <1>5
<1>8. ASSUME NEW k \in j..n - 1 PROVE t[k] = s[k + 1] /\ k + 1 \in 1..n /\ k \in 1..n - 1
  BY <1>1, <1>5, SMTT(30)
<1>9. DOMAIN t = 1..n - 1
  BY <1>5
<1>10. /\ \A k \in 1..j - 1 : UsersOf(t)[k] = UsersOf(s)[k] /\ PassesOf(t)[k] = PassesOf(s)[k]
       /\ \A k \in j..n - 1 : UsersOf(t)[k] = UsersOf(s)[k + 1] /\ PassesOf(t)[k] = PassesOf(s)[k + 1]
       /\ UsersOf(s)[j] = s[j].user
  BY <1>1, <1>7, <1>8, <1>9 DEF UsersOf, PassesOf
<1>11. Distinct(UsersOf(t), n - 1)
  BY <1>1, <1>10, DistinctStruck DEF n, Without
<1>12. Lists(BookOfUsers(s), UsersOf(s), PassesOf(s), n)
  BY UsersAreBook DEF n
<1>13. Lists(BookOfUsers(t), UsersOf(t), PassesOf(t), n - 1)
  BY <1>5, <1>11, UsersAreBook
<1> DEFINE us == UsersOf(s)
           ps == PassesOf(s)
           vs == UsersOf(t)
           qs == PassesOf(t)
           B == BookOfUsers(s)
           C == BookOfUsers(t)
           l == n - 1
<1>14. /\ n \in Nat /\ j \in 1..n /\ l = n - 1 /\ us[j] = s[j].user /\ Distinct(us, n)
       /\ Without(vs, us, j, n) /\ Without(qs, ps, j, n)
  BY <1>1, <1>10 DEF n, Without
<1>15. Lists(B, us, ps, n) /\ Lists(C, vs, qs, l)
  BY <1>12, <1>13
<1>16. Distinct(vs, Len(t))
  BY <1>5, <1>11
<1> HIDE DEF us, ps, vs, qs, B, C, l
<1>17. Struck(C, B, us[j])
  BY <1>14, <1>15, ListStruck
<1>18. Struck(C, B, s[j].user)
  BY <1>14, <1>17
<1> QED BY <1>16, <1>18 DEF B, C, vs

\* A request about users is refused for its token, enters a user or strikes one.
LEMMA UserAction ==
    ASSUME NEW c \in Conns, NEW x, monitor_action(c, x)
    PROVE  \/ FreedList /\ UNCHANGED clients
           \/ Answer(c, x, "finish", invalid_auth) /\ UNCHANGED clients
           \/ ~Concerns(x, UserTargets) /\ UNCHANGED clients
           \/ Concerns(x, UserTargets) /\ x.target = add_pop3 /\ register_user(c, x)
           \/ Concerns(x, UserTargets) /\ x.target = remove_pop3 /\ unregister_user(c, x)
BY DEF monitor_action, Concerns, UserTargets, get, config, config_maildir, config_buf_size,
       add_admin, remove_admin, add_pop3, remove_pop3, book, FreedList

\* register_user and unregister_user, on the list and on the book.
LEMMA UsersMove ==
    ASSUME TypeOK, UniqueUsers, NEW c \in Conns, NEW x \in AdminConnection
    PROVE  /\ register_user(c, x) =>
                \/ HasUser(name(x)) /\ UNCHANGED clients /\ Refusal(c, x)
                \/ /\ Distinct(UsersOf(clients'), Len(clients')) /\ Success(c, x)
                   /\ Entered(BookOfUsers(clients'), BookOfUsers(clients), name(x), secret(x))
           /\ unregister_user(c, x) =>
                \/ ~HasUser(name(x)) /\ UNCHANGED clients /\ Refusal(c, x)
                \/ /\ Distinct(UsersOf(clients'), Len(clients')) /\ Success(c, x)
                   /\ Struck(BookOfUsers(clients'), BookOfUsers(clients), name(x))
<1> DEFINE s == clients
           t == clients'
           a == [user |-> name(x), pass |-> secret(x)]
<1>1. s \in Seq([user : String, pass : String]) /\ Distinct(UsersOf(s), Len(s))
  BY UniqueIsDistinct DEF TypeOK
<1>2. a \in [user : String, pass : String] /\ a.user = name(x) /\ a.pass = secret(x)
  BY NamesType
<1>3. ASSUME register_user(c, x), ~HasUser(name(x))
      PROVE  /\ Distinct(UsersOf(t), Len(t)) /\ Success(c, x)
             /\ Entered(BookOfUsers(t), BookOfUsers(s), name(x), secret(x))
  <2>1. t = Append(s, a) /\ Success(c, x)
    BY <1>3 DEF register_user
  <2>2. \A k \in DOMAIN s : s[k].user # a.user
    BY <1>2, <1>3 DEF HasUser
  <2> HIDE DEF s, t, a
  <2>3. Distinct(UsersOf(t), Len(t)) /\ Entered(BookOfUsers(t), BookOfUsers(s), a.user, a.pass)
    BY <1>1, <1>2, <2>1, <2>2, UsersEntered
  <2> QED BY <1>2, <2>1, <2>3
<1>4. ASSUME unregister_user(c, x), HasUser(name(x))
      PROVE  /\ Distinct(UsersOf(t), Len(t)) /\ Success(c, x)
             /\ Struck(BookOfUsers(t), BookOfUsers(s), name(x))
  <2>1. PICK k \in DOMAIN s :
            s[k].user = name(x) /\ t = SubSeq(s, 1, k - 1) \o SubSeq(s, k + 1, Len(s))
    BY <1>4 DEF unregister_user
  <2>2. Success(c, x)
    BY <1>4 DEF unregister_user
  <2> HIDE DEF s, t
  <2>3. Distinct(UsersOf(t), Len(t)) /\ Struck(BookOfUsers(t), BookOfUsers(s), s[k].user)
    BY <1>1, <2>1, UsersStruck
  <2> QED BY <2>1, <2>2, <2>3
<1>5. register_user(c, x) /\ HasUser(name(x)) => UNCHANGED clients /\ Refusal(c, x)
  BY DEF register_user
<1>6. unregister_user(c, x) /\ ~HasUser(name(x)) => UNCHANGED clients /\ Refusal(c, x)
  BY DEF unregister_user
<1> QED BY <1>3, <1>4, <1>5, <1>6

\* The orders and answers of the refinement are those of the clerks.
LEMMA UsersClerks ==
    /\ Orders(UserTargets) = [k \in Conns |-> OrderOf(k, UserTargets)]
    /\ Orders(UserTargets)' = [k \in Conns |-> OrderOf(k, UserTargets)]'
    /\ Answers(UserTargets) = [k \in Conns |-> AnswerTo(k, UserTargets)]
    /\ Answers(UserTargets)' = [k \in Conns |-> AnswerTo(k, UserTargets)]'
    /\ \A S : Garbling(S, UserTargets) => Users!Garbled(S)
    /\ \A c \in Conns : \A what : IsTold(c, UserTargets, what) => Users!Tell(c, what)
<1>1. /\ Orders(UserTargets) = [k \in Conns |-> OrderOf(k, UserTargets)]
      /\ Orders(UserTargets)' = [k \in Conns |-> OrderOf(k, UserTargets)]'
      /\ Answers(UserTargets) = [k \in Conns |-> AnswerTo(k, UserTargets)]
      /\ Answers(UserTargets)' = [k \in Conns |-> AnswerTo(k, UserTargets)]'
  BY OrdersAre DEF Books, Orders, Answers
<1>2. ASSUME NEW S, Garbling(S, UserTargets) PROVE Users!Garbled(S)
  BY <1>1, <1>2 DEF Garbling, Users!Garbled
<1>3. ASSUME NEW c \in Conns, NEW what, IsTold(c, UserTargets, what) PROVE Users!Tell(c, what)
  BY <1>1, <1>2, <1>3 DEF IsTold, Users!Tell
<1> QED BY <1>1, <1>2, <1>3

\* While the book stays, clerks come, leave and have their orders garbled.
LEMMA UsersSame ==
    ASSUME NEW c \in Conns, UserBook' = UserBook
    PROVE  /\ Stay(UserTargets) => Users!vars' = Users!vars
           /\ Comes(c, UserTargets) => Users!Next
           /\ Leaves(c, UserTargets) => Users!Next
           /\ (\E S \in SUBSET Conns : Garbling(S, UserTargets))
                    /\ Answers(UserTargets)' = Answers(UserTargets) => Users!Next
<1>1. Stay(UserTargets) => Users!vars' = Users!vars
  BY UsersClerks DEF Stay, Users!vars
<1>2. Comes(c, UserTargets) => Users!Come(c)
  BY UsersClerks DEF Comes, Users!Come
<1>3. Leaves(c, UserTargets) => Users!Leave(c)
  BY UsersClerks DEF Leaves, Users!Leave
<1>4. ASSUME NEW S \in SUBSET Conns, Garbling(S, UserTargets), Answers(UserTargets)' = Answers(UserTargets)
      PROVE  Users!Garble
  BY <1>4, UsersClerks DEF Users!Garble
<1> QED BY <1>1, <1>2, <1>3, <1>4 DEF Users!Next

\* An order that came through enters or strikes the name it says, or is refused for a reason.
LEMMA UsersCarried ==
    ASSUME NEW c \in Conns, NEW o \in OrdersFor(UserTargets), Orders(UserTargets)[c] = o,
           Answers(UserTargets)[c] = "none",
           \/ /\ o.op = "add" /\ Entered(UserBook', UserBook, o.name, o.secret)
              /\ ~Users!Full /\ IsTold(c, UserTargets, "done")
           \/ /\ o.op = "remove" /\ Struck(UserBook', UserBook, o.name)
              /\ IsTold(c, UserTargets, "done")
           \/ /\ o.op = "add" /\ (o.name \in DOMAIN UserBook \/ Users!Full)
              /\ UserBook' = UserBook /\ IsTold(c, UserTargets, "refused")
           \/ /\ o.op = "remove" /\ o.name \notin DOMAIN UserBook
              /\ UserBook' = UserBook /\ IsTold(c, UserTargets, "refused")
    PROVE  Users!Next
<1> DEFINE O == [k \in Conns |-> OrderOf(k, UserTargets)]
           A == [k \in Conns |-> AnswerTo(k, UserTargets)]
<1>1. O[c] = o /\ A[c] = "none"
  BY UsersClerks
<1>2. \A what : IsTold(c, UserTargets, what) => Users!Tell(c, what)
  BY UsersClerks
<1>3. Users!Waiting(c, o.op)
  BY <1>1 DEF Users!Waiting
<1>4. CASE /\ o.op = "add" /\ Entered(UserBook', UserBook, o.name, o.secret)
           /\ ~Users!Full /\ IsTold(c, UserTargets, "done")
  <2>1. Users!Enter(c)
    BY <1>1, <1>2, <1>3, <1>4 DEF Users!Enter, Users!Names, Entered
  <2> QED BY <2>1 DEF Users!Next
<1>5. CASE o.op = "remove" /\ Struck(UserBook', UserBook, o.name) /\ IsTold(c, UserTargets, "done")
  <2>1. Users!Strike(c)
    BY <1>1, <1>2, <1>3, <1>5 DEF Users!Strike, Users!Names, Struck
  <2> QED BY <2>1 DEF Users!Next
<1>6. CASE /\ o.op = "add" /\ (o.name \in DOMAIN UserBook \/ Users!Full)
           /\ UserBook' = UserBook /\ IsTold(c, UserTargets, "refused")
  <2>1. Users!Refuse(c)
    BY <1>1, <1>2, <1>3, <1>6 DEF Users!Refuse, Users!Names
  <2> QED BY <2>1 DEF Users!Next
<1>7. CASE /\ o.op = "remove" /\ o.name \notin DOMAIN UserBook
           /\ UserBook' = UserBook /\ IsTold(c, UserTargets, "refused")
  <2>1. Users!Refuse(c)
    BY <1>1, <1>2, <1>3, <1>7 DEF Users!Refuse, Users!Names
  <2> QED BY <2>1 DEF Users!Next
<1> QED BY <1>4, <1>5, <1>6, <1>7

\* A garbled one enters or strikes one name, or is refused.
LEMMA UsersMisread ==
    ASSUME NEW c \in Conns, Orders(UserTargets)[c] = Lost, Answers(UserTargets)[c] = "none",
           \/ /\ \E u, p : Entered(UserBook', UserBook, u, p) \/ Struck(UserBook', UserBook, u)
              /\ IsTold(c, UserTargets, "done")
           \/ UserBook' = UserBook /\ IsTold(c, UserTargets, "refused")
    PROVE  Users!Next
<1> DEFINE O == [k \in Conns |-> OrderOf(k, UserTargets)]
           A == [k \in Conns |-> AnswerTo(k, UserTargets)]
<1>1. O[c] = Lost /\ A[c] = "none"
  BY UsersClerks
<1>2. \A what : IsTold(c, UserTargets, what) => Users!Tell(c, what)
  BY UsersClerks
<1>3. CASE UserBook' = UserBook /\ IsTold(c, UserTargets, "refused")
  <2>1. Users!Misread(c)
    BY <1>1, <1>2, <1>3 DEF Users!Misread
  <2> QED BY <2>1 DEF Users!Next
<1>4. ASSUME NEW u, NEW p, IsTold(c, UserTargets, "done"),
             Entered(UserBook', UserBook, u, p) \/ Struck(UserBook', UserBook, u)
      PROVE  Users!Next
  <2>1. /\ u \in DOMAIN UserBook \cup DOMAIN UserBook'
        /\ \A m \in (DOMAIN UserBook \cup DOMAIN UserBook') \ {u} :
            m \in DOMAIN UserBook /\ m \in DOMAIN UserBook' /\ UserBook'[m] = UserBook[m]
    BY <1>4 DEF Entered, Struck
  <2>2. Users!Misread(c)
    BY <1>1, <1>2, <1>4, <2>1 DEF Users!Misread, Users!Names
  <2> QED BY <2>2 DEF Users!Next
<1> QED BY <1>3, <1>4

\* What the clerk whose request is carried out is told, and what its order was.
LEMMA FeedTold ==
    ASSUME TypeOK, ParseInv, ParseInv', NEW c \in Conns, monitor_parser_feed(c), NEW T \in Books,
           NEW x \in AdminConnection, NEW status \in Statuses, Answer(c, x, "finish", status)
    PROVE  /\ Concerns(x, T) <=> Concerns(cli[c].req, T)
           /\ cli[c].req \in Requests /\ x.type = cli[c].req.type /\ x.target = cli[c].req.target
           /\ ~Concerns(x, T) \/ status = invalid_auth => AnswerTo(c, T)' = "none"
           /\ Concerns(x, T) /\ status = success => IsTold(c, T, "done")
           /\ Concerns(x, T) /\ status = invalid_data => IsTold(c, T, "refused")
           /\ Concerns(x, T) =>
                \/ Orders(T)[c] = Lost
                \/ /\ Orders(T)[c] = Order(cli[c].req) /\ Order(cli[c].req) \in OrdersFor(T)
                   /\ Order(cli[c].req).name = name(x)
                   /\ Adds(x) => /\ Order(cli[c].req).op = "add"
                                 /\ Order(cli[c].req).secret = secret(x)
                   /\ ~Adds(x) => Order(cli[c].req).op = "remove"
<1> DEFINE r == cli[c].req
<1>1. /\ r \in Requests /\ x.type = r.type /\ x.target = r.target
      /\ conn'[c].st = "finish" /\ conn'[c].status = status /\ cli'[c].req = r
  BY FeedOrder
<1>2. Concerns(r, T) =>
        /\ OrderOf(c, T) \in OrdersFor(T) \cup {Lost}
        /\ OrderOf(c, T) \in OrdersFor(T) =>
            /\ OrderOf(c, T) = Order(r)
            /\ name(x) = r.name
            /\ Adds(x) => secret(x) = r.secret
  BY FeedOrder
<1>3. (Concerns(x, T) <=> Concerns(r, T)) /\ (Adds(x) <=> Adds(r))
  BY <1>1 DEF Concerns, Adds
<1>4. AnswerTo(c, T)' = IF ~Concerns(r, T) THEN "none" ELSE IF status = success THEN "done"
                        ELSE IF status = invalid_data THEN "refused" ELSE "none"
  BY <1>1 DEF AnswerTo
<1>5. success # invalid_data /\ invalid_auth # success /\ invalid_auth # invalid_data
  BY DEF success, invalid_data, invalid_auth
<1>6. /\ \E S \in SUBSET (Conns \ {c}) : Garbling(S, T)
      /\ Answers(T)' = [Answers(T) EXCEPT ![c] = AnswerTo(c, T)']
  BY FeedClerks
<1>7. \A what : AnswerTo(c, T)' = what => IsTold(c, T, what)
  BY <1>6 DEF IsTold
<1>8. Orders(T)[c] = OrderOf(c, T)
  BY DEF Orders
<1>9. /\ Order(r).name = r.name /\ (Adds(r) => Order(r).op = "add" /\ Order(r).secret = r.secret)
      /\ (~Adds(r) => Order(r).op = "remove")
  BY DEF Order
<1> QED BY <1>1, <1>2, <1>3, <1>4, <1>5, <1>7, <1>8, <1>9

\* The calls of the parser are steps of the book of users.
LEMMA UsersFeed ==
    ASSUME TypeOK, ParseInv, ParseInv', UniqueUsers, NEW c \in Conns, monitor_parser_feed(c)
    PROVE  UniqueUsers' /\ Users!Next
<1> DEFINE T == UserTargets
<1>1. /\ T \in Books /\ Answers(T)[c] = "none"
      /\ Answers(T)' = [Answers(T) EXCEPT ![c] = AnswerTo(c, T)']
      /\ \E S \in SUBSET Conns : Garbling(S, T)
  BY FeedClerks DEF Books
<1>2. UserBook = BookOfUsers(clients) /\ UserBook' = BookOfUsers(clients')
  BY DEF UserBook, BookOfUsers
<1> HIDE DEF T
<1>3. ASSUME AnswerTo(c, T)' = "none", UNCHANGED clients PROVE UniqueUsers' /\ Users!Next
  <2>1. Answers(T)' = Answers(T)
    BY <1>1, <1>3 DEF Answers
  <2>2. UserBook' = UserBook
    BY <1>2, <1>3
  <2>3. UniqueUsers'
    BY <1>3 DEF UniqueUsers
  <2> QED BY <1>1, <2>1, <2>2, <2>3, UsersSame DEF T
<1>4. PICK x \in AdminConnection :
        \/ Parsed(c, x) /\ x.st \in Reading
        \/ monitor_action(c, x)
        \/ \E status \in Statuses : Error(c, x, status)
  BY FeedIs, RoomForData
<1>5. conn \in [Conns -> AdminConnection]
  BY DEF TypeOK
<1>6. CASE Parsed(c, x) /\ x.st \in Reading
  <2>1. conn' = [conn EXCEPT ![c] = x] /\ UNCHANGED clients
    BY <1>6 DEF Parsed, book
  <2>2. conn'[c].st # "finish"
    BY <1>5, <1>6, <2>1, Kinds
  <2>3. AnswerTo(c, T)' = "none"
    BY <2>2 DEF AnswerTo
  <2> QED BY <1>3, <2>1, <2>3
<1>7. CASE \E status \in Statuses : Error(c, x, status)
  <2>1. PICK status \in Statuses : Error(c, x, status)
    BY <1>7
  <2>2. /\ conn' = [conn EXCEPT ![c] = [x EXCEPT !.st = "error", !.status = status,
                                                 !.wb = Reply(status)]]
        /\ UNCHANGED clients
    BY <2>1 DEF Error, Answer, book
  <2>3. conn'[c].st # "finish"
    BY <1>5, <2>2 DEF AdminConnection
  <2>4. AnswerTo(c, T)' = "none"
    BY <2>3 DEF AnswerTo
  <2> QED BY <1>3, <2>2, <2>4
<1>8. CASE monitor_action(c, x)
  <2>1. CASE FreedList /\ UNCHANGED clients
    <3>1. conn'[c].st # "finish"
      BY <2>1, FeedFrame, Kinds DEF FreedList
    <3>2. AnswerTo(c, T)' = "none"
      BY <3>1 DEF AnswerTo
    <3> QED BY <1>3, <2>1, <3>2
  <2>2. /\ success \in Statuses /\ invalid_data \in Statuses /\ invalid_auth \in Statuses
        /\ Success(c, x) => Answer(c, x, "finish", success)
        /\ Refusal(c, x) => Answer(c, x, "finish", invalid_data)
    BY DEF Statuses, success, invalid_data, invalid_auth, Success, Refusal
  <2>3. CASE Answer(c, x, "finish", invalid_auth) /\ UNCHANGED clients
    <3>1. AnswerTo(c, T)' = "none"
      BY <1>1, <2>2, <2>3, FeedTold
    <3> QED BY <1>3, <2>3, <3>1
  <2>4. CASE ~Concerns(x, UserTargets) /\ UNCHANGED clients
    <3>1. CASE FreedList
      BY <2>1, <2>4, <3>1
    <3>2. ASSUME NEW status \in Statuses, Answer(c, x, "finish", status)
          PROVE  AnswerTo(c, T)' = "none"
      BY <1>1, <2>4, <3>2, FeedTold DEF T
    <3> QED BY <1>3, <1>8, <2>4, <3>1, <3>2, ActionForm
  <2> DEFINE o == Order(cli[c].req)
             B == BookOfUsers(clients)
             C == BookOfUsers(clients')
  <2>5. UniqueUsers /\ UNCHANGED clients => UniqueUsers' /\ C = B
    BY DEF UniqueUsers
  <2>6. Distinct(UsersOf(clients'), Len(clients')) => UniqueUsers'
    <3>1. TypeOK'
      BY TypeStep, RoomForData DEF Next, ServerStep
    <3>2. DOMAIN clients' = 1..Len(clients')
      BY <3>1 DEF TypeOK
    <3> QED BY <3>2 DEF UniqueUsers, Distinct, UsersOf
  <2>7. HasUser(name(x)) <=> name(x) \in DOMAIN B
    BY DEF HasUser, BookOfUsers
  <2>8. ~Users!Full
    BY DEF Users!Full
  <2>9. CASE Concerns(x, UserTargets) /\ x.target = add_pop3 /\ register_user(c, x)
    <3>1. Adds(x)
      BY <2>9 DEF Concerns, Adds
    <3>2. CASE HasUser(name(x)) /\ UNCHANGED clients /\ Refusal(c, x)
      <4>1. IsTold(c, T, "refused")
        BY <1>1, <2>2, <2>9, <3>2, FeedTold DEF T
      <4>2. \/ Orders(T)[c] = Lost
            \/ Orders(T)[c] = o /\ o \in OrdersFor(T) /\ o.name = name(x) /\ o.op = "add"
        BY <1>1, <2>2, <2>9, <3>1, <3>2, FeedTold DEF T
      <4> HIDE DEF o, B, C
      <4>3. C = B /\ UniqueUsers' /\ name(x) \in DOMAIN B
        BY <2>5, <2>7, <3>2
      <4> QED BY <1>1, <1>2, <4>1, <4>2, <4>3, UsersCarried, UsersMisread DEF T, B, C
    <3>3. CASE /\ Distinct(UsersOf(clients'), Len(clients')) /\ Success(c, x)
               /\ Entered(C, B, name(x), secret(x))
      <4>1. IsTold(c, T, "done")
        BY <1>1, <2>2, <2>9, <3>3, FeedTold DEF T
      <4>2. \/ Orders(T)[c] = Lost
            \/ /\ Orders(T)[c] = o /\ o \in OrdersFor(T) /\ o.name = name(x) /\ o.op = "add"
               /\ o.secret = secret(x)
        BY <1>1, <2>2, <2>9, <3>1, <3>3, FeedTold DEF T
      <4> HIDE DEF o, B, C
      <4> QED BY <1>1, <1>2, <2>6, <2>8, <3>3, <4>1, <4>2, UsersCarried, UsersMisread DEF T, B, C
    <3> QED BY <2>9, <3>2, <3>3, UsersMove
  <2>10. CASE Concerns(x, UserTargets) /\ x.target = remove_pop3 /\ unregister_user(c, x)
    <3>1. ~Adds(x)
      BY <2>10 DEF Concerns, Adds, remove_pop3, add_admin, add_pop3
    <3>2. CASE ~HasUser(name(x)) /\ UNCHANGED clients /\ Refusal(c, x)
      <4>1. IsTold(c, T, "refused")
        BY <1>1, <2>2, <2>10, <3>2, FeedTold DEF T
      <4>2. \/ Orders(T)[c] = Lost
            \/ Orders(T)[c] = o /\ o \in OrdersFor(T) /\ o.name = name(x) /\ o.op = "remove"
        BY <1>1, <2>2, <2>10, <3>1, <3>2, FeedTold DEF T
      <4> HIDE DEF o, B, C
      <4>3. C = B /\ UniqueUsers' /\ name(x) \notin DOMAIN B
        BY <2>5, <2>7, <3>2
      <4> QED BY <1>1, <1>2, <4>1, <4>2, <4>3, UsersCarried, UsersMisread DEF T, B, C
    <3>3. CASE /\ Distinct(UsersOf(clients'), Len(clients')) /\ Success(c, x)
               /\ Struck(C, B, name(x))
      <4>1. IsTold(c, T, "done")
        BY <1>1, <2>2, <2>10, <3>3, FeedTold DEF T
      <4>2. \/ Orders(T)[c] = Lost
            \/ Orders(T)[c] = o /\ o \in OrdersFor(T) /\ o.name = name(x) /\ o.op = "remove"
        BY <1>1, <2>2, <2>10, <3>1, <3>3, FeedTold DEF T
      <4> HIDE DEF o, B, C
      <4> QED BY <1>1, <1>2, <2>6, <3>3, <4>1, <4>2, UsersCarried, UsersMisread DEF T, B, C
    <3> QED BY <2>10, <3>2, <3>3, UsersMove
  <2> QED BY <1>8, <2>1, <2>3, <2>4, <2>9, <2>10, UserAction
<1> QED BY <1>4, <1>6, <1>7, <1>8

\* A step is one of the book of users, or leaves it and its clerks as they are.
LEMMA UsersStep ==
    ASSUME TypeOK, ParseInv, ParseInv', UniqueUsers, [Next]_vars
    PROVE  UniqueUsers' /\ [Users!Next]_(Users!vars)
<1>1. CASE validate_user \/ Done \/ UNCHANGED vars
  <2>1. conn' = conn /\ cli' = cli /\ disturbed' = disturbed /\ clients' = clients
    BY <1>1 DEF validate_user, Done, vars, book
  <2> QED BY <2>1 DEF UniqueUsers, Users!vars, UserBook, OrderOf, AnswerTo
<1>2. ASSUME NEW c \in Conns,
             \/ Send(c) \/ ClientStep(c) \/ Interrupt(c)
             \/ monitor_passive_accept(c) \/ AcceptFails(c) \/ ReadFails(c) \/ monitor_write(c)
      PROVE  UniqueUsers' /\ [Users!Next]_(Users!vars)
  <2>1. UserTargets \in Books
    BY DEF Books
  <2>2. UNCHANGED book /\ (Stay(UserTargets) \/ Comes(c, UserTargets) \/ Leaves(c, UserTargets))
    BY <1>2, <2>1, ClerksOtherwise
  <2>3. clients' = clients
    BY <2>2 DEF book
  <2>4. UserBook' = UserBook /\ UniqueUsers'
    BY <2>3 DEF UserBook, UniqueUsers
  <2> QED BY <2>2, <2>4, UsersSame
<1> QED BY <1>1, <1>2, UsersFeed DEF Next, ServerStep

\* The list of POP3 users is a book of accounts, however the requests of the connections are
\* mixed: a user comes with register_user and goes with unregister_user.
THEOREM UsersImplementBookHolds == Spec => UsersImplementBook
<1>1. Init => UniqueUsers /\ Users!Init
  <2> SUFFICES ASSUME Init PROVE UniqueUsers /\ Users!Init
    OBVIOUS
  <2>1. UniqueUsers
    BY DEF Init, UniqueUsers
  <2>2. \A c \in Conns : conn[c].st = "closed"
    BY DEF Init, Zeroed
  <2> QED BY <2>1, <2>2 DEF Users!Init, OrderOf, AnswerTo
<1>2. TypeOK /\ ParseInv /\ ParseInv' /\ UniqueUsers /\ [Next]_vars =>
        UniqueUsers' /\ [Users!Next]_(Users!vars)
  BY UsersStep
<1>3. Spec => []UniqueUsers
  BY <1>1, <1>2, TypeCorrect, ParseInvHolds, PTL DEF Spec
<1>4. Spec => Users!Spec
  BY <1>1, <1>2, <1>3, TypeCorrect, ParseInvHolds, PTL DEF Spec, Users!Spec
<1> QED BY <1>4 DEF UsersImplementBook

-----------------------------------------------------------------------------
(* The administrators. *)

AdminsOf(s) == [k \in DOMAIN s |-> s[k].user]
TokensOf(s) == [k \in DOMAIN s |-> s[k].token]
BookOfAdmins(s) == [u \in {s[k].user : k \in DOMAIN s} |->
                        (CHOOSE n \in {s[k] : k \in DOMAIN s} : n.user = u).token]

\* Administrators with different names are a book.
LEMMA AdminsAreBook ==
    ASSUME NEW s \in Seq(Account), Distinct(AdminsOf(s), Len(s))
    PROVE  Lists(BookOfAdmins(s), AdminsOf(s), TokensOf(s), Len(s))
<1>1. DOMAIN s = 1..Len(s) /\ Len(s) \in Nat
  OBVIOUS
<1>2. \A k \in 1..Len(s) : AdminsOf(s)[k] = s[k].user /\ TokensOf(s)[k] = s[k].token
  BY <1>1 DEF AdminsOf, TokensOf
<1>3. DOMAIN BookOfAdmins(s) = {s[k].user : k \in 1..Len(s)}
  BY <1>1 DEF BookOfAdmins
<1>4. DOMAIN BookOfAdmins(s) = {AdminsOf(s)[k] : k \in 1..Len(s)}
  BY <1>2, <1>3
<1>5. ASSUME NEW k \in 1..Len(s) PROVE BookOfAdmins(s)[s[k].user] = s[k].token
  <2> DEFINE n == CHOOSE m \in {s[i] : i \in DOMAIN s} : m.user = s[k].user
  <2>1. s[k] \in {s[i] : i \in DOMAIN s} /\ s[k].user = s[k].user
    BY <1>1
  <2>2. n \in {s[i] : i \in DOMAIN s} /\ n.user = s[k].user
    BY <2>1
  <2>3. BookOfAdmins(s)[s[k].user] = n.token
    BY <1>1 DEF BookOfAdmins
  <2> HIDE DEF n
  <2>4. PICK i \in 1..Len(s) : n = s[i]
    BY <1>1, <2>2
  <2>5. i = k
    BY <1>2, <2>2, <2>4 DEF Distinct
  <2> QED BY <2>3, <2>4, <2>5
<1>6. BookOfAdmins(s) = [m \in DOMAIN BookOfAdmins(s) |-> BookOfAdmins(s)[m]]
  BY DEF BookOfAdmins
<1> QED BY <1>2, <1>4, <1>5, <1>6 DEF Lists

\* OneTokenPerAdmin as a statement about the sequence of names.
LEMMA OneTokenIsDistinct ==
    ASSUME TypeOK PROVE OneTokenPerAdmin <=> Distinct(AdminsOf(admins), Len(admins))
<1>1. DOMAIN admins = 1..Len(admins)
  BY DEF TypeOK
<1> QED BY <1>1 DEF OneTokenPerAdmin, Distinct, AdminsOf

\* A book has as many names as its list has accounts, so both are full at the same time.
LEMMA ListSize ==
    ASSUME NEW n \in Nat, NEW us, NEW ps, NEW B, Lists(B, us, ps, n), Distinct(us, n)
    PROVE  IsFiniteSet(DOMAIN B) /\ Cardinality(DOMAIN B) = n
<1> DEFINE f == [k \in 1..n |-> us[k]]
<1>1. DOMAIN B = {us[k] : k \in 1..n}
  BY DEF Lists
<1>2. f \in [1..n -> DOMAIN B]
  BY <1>1
<1>3. \A i, j \in 1..n : f[i] = f[j] => i = j
  BY DEF Distinct
<1>4. \A m \in DOMAIN B : \E k \in 1..n : f[k] = m
  BY <1>1
<1> HIDE DEF f
<1>5. f \in Bijection(1..n, DOMAIN B)
  BY <1>2, <1>3, <1>4 DEF Bijection, Injection, Surjection, IsInjective
<1>6. ExistsBijection(1..n, DOMAIN B)
  BY <1>5 DEF ExistsBijection
<1>7. IsFiniteSet(1..n) /\ Cardinality(1..n) = n
  BY FS_Interval
<1> QED BY <1>6, <1>7, FS_Bijection

\* add_new_admin enters one.
LEMMA AdminsEntered ==
    ASSUME NEW s \in Seq(Account), Distinct(AdminsOf(s), Len(s)),
           NEW a \in Account, \A k \in DOMAIN s : s[k].user # a.user,
           NEW t, t = Append(s, a)
    PROVE  Entered(BookOfAdmins(t), BookOfAdmins(s), a.user, a.token)
<1> DEFINE n == Len(s)
<1>1. /\ n \in Nat /\ DOMAIN s = 1..n
      /\ t \in Seq(Account) /\ Len(t) = n + 1 /\ t[n + 1] = a
      /\ \A k \in 1..n : t[k] = s[k]
  OBVIOUS
<1>2. DOMAIN t = 1..n + 1
  BY <1>1
<1> HIDE DEF n
<1>3. (\A k \in 1..n : k \in 1..n + 1) /\ n + 1 \in 1..n + 1
  BY <1>1
<1>4. /\ \A k \in 1..n : AdminsOf(t)[k] = AdminsOf(s)[k] /\ TokensOf(t)[k] = TokensOf(s)[k]
      /\ AdminsOf(t)[n + 1] = a.user /\ TokensOf(t)[n + 1] = a.token
      /\ \A k \in 1..n : AdminsOf(s)[k] # a.user
  BY <1>1, <1>2, <1>3 DEF AdminsOf, TokensOf
<1>5. Distinct(AdminsOf(t), n + 1)
  <2> DEFINE us == AdminsOf(s)
             vs == AdminsOf(t)
  <2>1. Distinct(us, n) /\ n \in Nat
    BY <1>1 DEF n
  <2>2. \A k \in 1..n : vs[k] = us[k] /\ us[k] # vs[n + 1]
    BY <1>4
  <2> HIDE DEF us, vs
  <2>3. Distinct(vs, n + 1)
    BY <2>1, <2>2, DistinctEntered
  <2> QED BY <2>3 DEF vs
<1>6. Lists(BookOfAdmins(s), AdminsOf(s), TokensOf(s), n)
  BY AdminsAreBook DEF n
<1>7. Lists(BookOfAdmins(t), AdminsOf(t), TokensOf(t), n + 1)
  BY <1>1, <1>5, AdminsAreBook
<1> DEFINE us == AdminsOf(s)
           ps == TokensOf(s)
           vs == AdminsOf(t)
           qs == TokensOf(t)
           B == BookOfAdmins(s)
           C == BookOfAdmins(t)
           l == n + 1
<1>8. /\ n \in Nat /\ vs[l] = a.user /\ qs[l] = a.token /\ l = n + 1
      /\ \A k \in 1..n : vs[k] = us[k] /\ qs[k] = ps[k] /\ us[k] # vs[l]
  BY <1>1, <1>4
<1>9. Lists(B, us, ps, n) /\ Lists(C, vs, qs, l)
  BY <1>6, <1>7
<1> HIDE DEF us, ps, vs, qs, B, C, l
<1>10. Entered(C, B, vs[l], qs[l])
  BY <1>8, <1>9, ListEntered
<1>11. Entered(C, B, a.user, a.token)
  BY <1>8, <1>10
<1> QED BY <1>11 DEF B, C

\* remove_admin strikes the last one.
LEMMA AdminsStruck ==
    ASSUME NEW s \in Seq(Account), Distinct(AdminsOf(s), Len(s)), Len(s) >= 1,
           NEW t, t = SubSeq(s, 1, Len(s) - 1)
    PROVE  Struck(BookOfAdmins(t), BookOfAdmins(s), s[Len(s)].user)
<1> DEFINE n == Len(s)
           m == n - 1
<1>1. n \in Nat /\ n >= 1 /\ DOMAIN s = 1..n /\ m \in Nat /\ m <= n
  OBVIOUS
<1>2. t = SubSeq(s, 1, m) /\ \A k \in 1..m : k \in 1..n
  BY <1>1
<1> HIDE DEF m
<1>3. t \in Seq(Account) /\ Len(t) = m /\ DOMAIN t = 1..m /\ \A k \in 1..m : t[k] = s[k]
  <2>1. 1 \in Int /\ m \in Int /\ \A k \in 1..m : s[k] \in Account
    BY <1>1, <1>2
  <2>2. /\ t \in Seq(Account) /\ Len(t) = IF 1 <= m THEN m - 1 + 1 ELSE 0
        /\ \A k \in 1..m - 1 + 1 : t[k] = s[1 + k - 1]
    BY <1>2, <2>1, SubSeqProperties
  <2>3. m - 1 + 1 = m /\ \A k \in 1..m : 1 + k - 1 = k
    BY <1>1
  <2>4. \A l : l = (IF 1 <= m THEN m - 1 + 1 ELSE 0) => l = m
    BY <1>1
  <2>5. Len(t) = m
    BY <2>2, <2>4, Zenon
  <2> QED BY <2>2, <2>3, <2>5
<1>4. m = n - 1 /\ n \in 1..n
  BY <1>1 DEF m
<1> HIDE DEF n
<1>5. /\ \A k \in 1..m : AdminsOf(t)[k] = AdminsOf(s)[k] /\ TokensOf(t)[k] = TokensOf(s)[k]
      /\ AdminsOf(s)[n] = s[n].user
  BY <1>1, <1>2, <1>3, <1>4 DEF AdminsOf, TokensOf
<1>6. \A k \in n..n - 1 : FALSE
  BY <1>1
<1>7. /\ Without(AdminsOf(t), AdminsOf(s), n, n) /\ Without(TokensOf(t), TokensOf(s), n, n)
  BY <1>4, <1>5, <1>6 DEF Without
<1>8. Distinct(AdminsOf(s), n)
  BY DEF n
<1>9. Distinct(AdminsOf(t), m)
  BY <1>1, <1>4, <1>7, <1>8, DistinctStruck
<1>10. Lists(BookOfAdmins(s), AdminsOf(s), TokensOf(s), n)
  BY AdminsAreBook DEF n
<1>11. Lists(BookOfAdmins(t), AdminsOf(t), TokensOf(t), m)
  BY <1>3, <1>9, AdminsAreBook
<1>12. Struck(BookOfAdmins(t), BookOfAdmins(s), AdminsOf(s)[n])
  BY <1>1, <1>4, <1>7, <1>8, <1>10, <1>11, ListStruck
<1> QED BY <1>5, <1>12 DEF n

\* A request about administrators is refused for its token, enters one or strikes one.
LEMMA AdminAction ==
    ASSUME NEW c \in Conns, NEW x, monitor_action(c, x)
    PROVE  \/ FreedList /\ UNCHANGED admins
           \/ Answer(c, x, "finish", invalid_auth) /\ UNCHANGED admins
           \/ ~Concerns(x, AdminTargets) /\ UNCHANGED admins
           \/ Concerns(x, AdminTargets) /\ x.target = add_admin /\ add_new_admin(c, x)
           \/ Concerns(x, AdminTargets) /\ x.target = remove_admin /\ RemoveAdmin(c, x)
BY DEF monitor_action, Concerns, AdminTargets, get, config, config_maildir, config_buf_size,
       add_admin, remove_admin, add_pop3, remove_pop3, book, FreedList

\* add_new_admin and RemoveAdmin, on the list and on the book.
LEMMA AdminsMoveBook ==
    ASSUME TypeOK, OneTokenPerAdmin, NEW c \in Conns, NEW x \in AdminConnection
    PROVE  /\ add_new_admin(c, x) =>
                \/ /\ UNCHANGED admins /\ Refusal(c, x)
                   /\ \/ Len(admins) >= MAX_ADMIN \/ Len(secret(x)) # TOKEN_SIZE
                      \/ HasAdmin(name(x))
                \/ /\ Len(admins) < MAX_ADMIN /\ Success(c, x)
                   /\ Entered(BookOfAdmins(admins'), BookOfAdmins(admins), name(x), secret(x))
           /\ RemoveAdmin(c, x) =>
                \/ UNCHANGED admins /\ Refusal(c, x) /\ ~HasAdmin(name(x))
                \/ /\ Success(c, x) /\ HasAdmin(name(x))
                   /\ Struck(BookOfAdmins(admins'), BookOfAdmins(admins),
                             admins[Len(admins)].user)
<1> DEFINE s == admins
           t == admins'
           a == [user |-> AdminName(name(x), secret(x)), token |-> secret(x)]
<1>1. /\ s \in Seq(Account) /\ Distinct(AdminsOf(s), Len(s))
      /\ Len(s) \in Nat /\ DOMAIN s = 1..Len(s) /\ MAX_ADMIN \in Nat
  BY OneTokenIsDistinct, Sizes DEF TypeOK
<1>2. a \in Account /\ a.user = name(x) /\ a.token = secret(x)
  BY NamesType, AdminNameIsName DEF Account
<1>3. ASSUME add_new_admin(c, x), Len(s) < MAX_ADMIN, ~HasAdmin(name(x)),
             Len(secret(x)) = TOKEN_SIZE
      PROVE  /\ Success(c, x)
             /\ Entered(BookOfAdmins(t), BookOfAdmins(s), name(x), secret(x))
  <2>1. t = Append(s, a) /\ Success(c, x)
    BY <1>3 DEF add_new_admin
  <2>2. \A k \in DOMAIN s : s[k].user # a.user
    BY <1>2, <1>3 DEF HasAdmin
  <2> HIDE DEF s, t, a
  <2>3. Entered(BookOfAdmins(t), BookOfAdmins(s), a.user, a.token)
    BY <1>1, <1>2, <2>1, <2>2, AdminsEntered
  <2> QED BY <1>2, <2>1, <2>3
<1>4. add_new_admin(c, x) =>
        \/ Len(s) < MAX_ADMIN /\ ~HasAdmin(name(x)) /\ Len(secret(x)) = TOKEN_SIZE
        \/ /\ UNCHANGED admins /\ Refusal(c, x)
           /\ Len(s) >= MAX_ADMIN \/ Len(secret(x)) # TOKEN_SIZE \/ HasAdmin(name(x))
  BY <1>1 DEF add_new_admin
<1>5. ASSUME RemoveAdmin(c, x), HasAdmin(name(x))
      PROVE  Success(c, x) /\ Struck(BookOfAdmins(t), BookOfAdmins(s), s[Len(s)].user)
  <2>1. t = SubSeq(s, 1, Len(s) - 1) /\ Success(c, x)
    BY <1>5 DEF RemoveAdmin
  <2>2. Len(s) >= 1
    BY <1>1, <1>5 DEF HasAdmin
  <2> HIDE DEF s, t
  <2>3. Struck(BookOfAdmins(t), BookOfAdmins(s), s[Len(s)].user)
    BY <1>1, <2>1, <2>2, AdminsStruck
  <2> QED BY <2>1, <2>3
<1>6. RemoveAdmin(c, x) /\ ~HasAdmin(name(x)) => UNCHANGED admins /\ Refusal(c, x)
  BY DEF RemoveAdmin
<1> QED BY <1>1, <1>3, <1>4, <1>5, <1>6

\* The orders and answers of the refinement are those of the clerks.
LEMMA AdminsClerks ==
    /\ Orders(AdminTargets) = [k \in Conns |-> OrderOf(k, AdminTargets)]
    /\ Orders(AdminTargets)' = [k \in Conns |-> OrderOf(k, AdminTargets)]'
    /\ Answers(AdminTargets) = [k \in Conns |-> AnswerTo(k, AdminTargets)]
    /\ Answers(AdminTargets)' = [k \in Conns |-> AnswerTo(k, AdminTargets)]'
    /\ \A S : Garbling(S, AdminTargets) => Administrators!Garbled(S)
    /\ \A c \in Conns : \A what : IsTold(c, AdminTargets, what) => Administrators!Tell(c, what)
<1>1. /\ Orders(AdminTargets) = [k \in Conns |-> OrderOf(k, AdminTargets)]
      /\ Orders(AdminTargets)' = [k \in Conns |-> OrderOf(k, AdminTargets)]'
      /\ Answers(AdminTargets) = [k \in Conns |-> AnswerTo(k, AdminTargets)]
      /\ Answers(AdminTargets)' = [k \in Conns |-> AnswerTo(k, AdminTargets)]'
  BY OrdersAre DEF Books, Orders, Answers
<1>2. ASSUME NEW S, Garbling(S, AdminTargets) PROVE Administrators!Garbled(S)
  BY <1>1, <1>2 DEF Garbling, Administrators!Garbled
<1>3. ASSUME NEW c \in Conns, NEW what, IsTold(c, AdminTargets, what) PROVE Administrators!Tell(c, what)
  BY <1>1, <1>2, <1>3 DEF IsTold, Administrators!Tell
<1> QED BY <1>1, <1>2, <1>3

\* While the book stays, clerks come, leave and have their orders garbled.
LEMMA AdminsSame ==
    ASSUME NEW c \in Conns, AdminBook' = AdminBook
    PROVE  /\ Stay(AdminTargets) => Administrators!vars' = Administrators!vars
           /\ Comes(c, AdminTargets) => Administrators!Next
           /\ Leaves(c, AdminTargets) => Administrators!Next
           /\ (\E S \in SUBSET Conns : Garbling(S, AdminTargets))
                    /\ Answers(AdminTargets)' = Answers(AdminTargets) => Administrators!Next
<1>1. Stay(AdminTargets) => Administrators!vars' = Administrators!vars
  BY AdminsClerks DEF Stay, Administrators!vars
<1>2. Comes(c, AdminTargets) => Administrators!Come(c)
  BY AdminsClerks DEF Comes, Administrators!Come
<1>3. Leaves(c, AdminTargets) => Administrators!Leave(c)
  BY AdminsClerks DEF Leaves, Administrators!Leave
<1>4. ASSUME NEW S \in SUBSET Conns, Garbling(S, AdminTargets), Answers(AdminTargets)' = Answers(AdminTargets)
      PROVE  Administrators!Garble
  BY <1>4, AdminsClerks DEF Administrators!Garble
<1> QED BY <1>1, <1>2, <1>3, <1>4 DEF Administrators!Next

\* An order that came through enters or strikes the name it says, or is refused for a reason.
LEMMA AdminsCarried ==
    ASSUME NEW c \in Conns, NEW o \in OrdersFor(AdminTargets), Orders(AdminTargets)[c] = o,
           Answers(AdminTargets)[c] = "none",
           \/ /\ o.op = "add" /\ Entered(AdminBook', AdminBook, o.name, o.secret)
              /\ ~Administrators!Full /\ IsTold(c, AdminTargets, "done")
           \/ /\ o.op = "remove" /\ Struck(AdminBook', AdminBook, o.name)
              /\ IsTold(c, AdminTargets, "done")
           \/ /\ o.op = "add" /\ (o.name \in DOMAIN AdminBook \/ Administrators!Full)
              /\ AdminBook' = AdminBook /\ IsTold(c, AdminTargets, "refused")
           \/ /\ o.op = "remove" /\ o.name \notin DOMAIN AdminBook
              /\ AdminBook' = AdminBook /\ IsTold(c, AdminTargets, "refused")
    PROVE  Administrators!Next
<1> DEFINE O == [k \in Conns |-> OrderOf(k, AdminTargets)]
           A == [k \in Conns |-> AnswerTo(k, AdminTargets)]
<1>1. O[c] = o /\ A[c] = "none"
  BY AdminsClerks
<1>2. \A what : IsTold(c, AdminTargets, what) => Administrators!Tell(c, what)
  BY AdminsClerks
<1>3. Administrators!Waiting(c, o.op)
  BY <1>1 DEF Administrators!Waiting
<1>4. CASE /\ o.op = "add" /\ Entered(AdminBook', AdminBook, o.name, o.secret)
           /\ ~Administrators!Full /\ IsTold(c, AdminTargets, "done")
  <2>1. Administrators!Enter(c)
    BY <1>1, <1>2, <1>3, <1>4 DEF Administrators!Enter, Administrators!Names, Entered
  <2> QED BY <2>1 DEF Administrators!Next
<1>5. CASE o.op = "remove" /\ Struck(AdminBook', AdminBook, o.name) /\ IsTold(c, AdminTargets, "done")
  <2>1. Administrators!Strike(c)
    BY <1>1, <1>2, <1>3, <1>5 DEF Administrators!Strike, Administrators!Names, Struck
  <2> QED BY <2>1 DEF Administrators!Next
<1>6. CASE /\ o.op = "add" /\ (o.name \in DOMAIN AdminBook \/ Administrators!Full)
           /\ AdminBook' = AdminBook /\ IsTold(c, AdminTargets, "refused")
  <2>1. Administrators!Refuse(c)
    BY <1>1, <1>2, <1>3, <1>6 DEF Administrators!Refuse, Administrators!Names
  <2> QED BY <2>1 DEF Administrators!Next
<1>7. CASE /\ o.op = "remove" /\ o.name \notin DOMAIN AdminBook
           /\ AdminBook' = AdminBook /\ IsTold(c, AdminTargets, "refused")
  <2>1. Administrators!Refuse(c)
    BY <1>1, <1>2, <1>3, <1>7 DEF Administrators!Refuse, Administrators!Names
  <2> QED BY <2>1 DEF Administrators!Next
<1> QED BY <1>4, <1>5, <1>6, <1>7

\* A garbled one enters or strikes one name, or is refused.
LEMMA AdminsMisread ==
    ASSUME NEW c \in Conns, Orders(AdminTargets)[c] = Lost, Answers(AdminTargets)[c] = "none",
           \/ /\ \E u, p : Entered(AdminBook', AdminBook, u, p) \/ Struck(AdminBook', AdminBook, u)
              /\ IsTold(c, AdminTargets, "done")
           \/ AdminBook' = AdminBook /\ IsTold(c, AdminTargets, "refused")
    PROVE  Administrators!Next
<1> DEFINE O == [k \in Conns |-> OrderOf(k, AdminTargets)]
           A == [k \in Conns |-> AnswerTo(k, AdminTargets)]
<1>1. O[c] = Lost /\ A[c] = "none"
  BY AdminsClerks
<1>2. \A what : IsTold(c, AdminTargets, what) => Administrators!Tell(c, what)
  BY AdminsClerks
<1>3. CASE AdminBook' = AdminBook /\ IsTold(c, AdminTargets, "refused")
  <2>1. Administrators!Misread(c)
    BY <1>1, <1>2, <1>3 DEF Administrators!Misread
  <2> QED BY <2>1 DEF Administrators!Next
<1>4. ASSUME NEW u, NEW p, IsTold(c, AdminTargets, "done"),
             Entered(AdminBook', AdminBook, u, p) \/ Struck(AdminBook', AdminBook, u)
      PROVE  Administrators!Next
  <2>1. /\ u \in DOMAIN AdminBook \cup DOMAIN AdminBook'
        /\ \A m \in (DOMAIN AdminBook \cup DOMAIN AdminBook') \ {u} :
            m \in DOMAIN AdminBook /\ m \in DOMAIN AdminBook' /\ AdminBook'[m] = AdminBook[m]
    BY <1>4 DEF Entered, Struck
  <2>2. Administrators!Misread(c)
    BY <1>1, <1>2, <1>4, <2>1 DEF Administrators!Misread, Administrators!Names
  <2> QED BY <2>2 DEF Administrators!Next
<1> QED BY <1>3, <1>4

\* The last administrator is the one that remove_admin is asked to remove.
RemovesLast ==
    \A c \in Conns :
        LET r == cli[c].req
        IN  /\ conn[c].st \in Reading /\ conn'[c].st = "finish"
            /\ r.type = config /\ r.target = remove_admin /\ HasAdmin(r.name) =>
                    admins[Len(admins)].user = r.name

\* The calls of the parser are steps of the book of administrators, as long as it is.
LEMMA AdminsFeed ==
    ASSUME TypeOK, ParseInv, ParseInv', OneTokenPerAdmin, RemovesLast, NEW c \in Conns,
           monitor_parser_feed(c)
    PROVE  Administrators!Next
<1> DEFINE T == AdminTargets
<1>1. /\ T \in Books /\ Answers(T)[c] = "none"
      /\ Answers(T)' = [Answers(T) EXCEPT ![c] = AnswerTo(c, T)']
      /\ \E S \in SUBSET Conns : Garbling(S, T)
  BY FeedClerks DEF Books
<1>2. AdminBook = BookOfAdmins(admins) /\ AdminBook' = BookOfAdmins(admins')
  BY DEF AdminBook, BookOfAdmins
<1> HIDE DEF T
<1>3. ASSUME AnswerTo(c, T)' = "none", UNCHANGED admins PROVE Administrators!Next
  <2>1. Answers(T)' = Answers(T)
    BY <1>1, <1>3 DEF Answers
  <2>2. AdminBook' = AdminBook
    BY <1>2, <1>3
  <2> QED BY <1>1, <2>1, <2>2, AdminsSame DEF T
<1>4. PICK x \in AdminConnection :
        \/ Parsed(c, x) /\ x.st \in Reading
        \/ monitor_action(c, x)
        \/ \E status \in Statuses : Error(c, x, status)
  BY FeedIs, RoomForData
<1>5. conn \in [Conns -> AdminConnection]
  BY DEF TypeOK
<1>6. CASE Parsed(c, x) /\ x.st \in Reading
  <2>1. conn' = [conn EXCEPT ![c] = x] /\ UNCHANGED admins
    BY <1>6 DEF Parsed, book
  <2>2. conn'[c].st # "finish"
    BY <1>5, <1>6, <2>1, Kinds
  <2>3. AnswerTo(c, T)' = "none"
    BY <2>2 DEF AnswerTo
  <2> QED BY <1>3, <2>1, <2>3
<1>7. CASE \E status \in Statuses : Error(c, x, status)
  <2>1. PICK status \in Statuses : Error(c, x, status)
    BY <1>7
  <2>2. /\ conn' = [conn EXCEPT ![c] = [x EXCEPT !.st = "error", !.status = status,
                                                 !.wb = Reply(status)]]
        /\ UNCHANGED admins
    BY <2>1 DEF Error, Answer, book
  <2>3. conn'[c].st # "finish"
    BY <1>5, <2>2 DEF AdminConnection
  <2>4. AnswerTo(c, T)' = "none"
    BY <2>3 DEF AnswerTo
  <2> QED BY <1>3, <2>2, <2>4
<1>8. CASE monitor_action(c, x)
  <2>1. CASE FreedList /\ UNCHANGED admins
    <3>1. conn'[c].st # "finish"
      BY <2>1, FeedFrame, Kinds DEF FreedList
    <3>2. AnswerTo(c, T)' = "none"
      BY <3>1 DEF AnswerTo
    <3> QED BY <1>3, <2>1, <3>2
  <2>2. /\ success \in Statuses /\ invalid_data \in Statuses /\ invalid_auth \in Statuses
        /\ Success(c, x) => Answer(c, x, "finish", success)
        /\ Refusal(c, x) => Answer(c, x, "finish", invalid_data)
    BY DEF Statuses, success, invalid_data, invalid_auth, Success, Refusal
  <2>3. CASE Answer(c, x, "finish", invalid_auth) /\ UNCHANGED admins
    <3>1. AnswerTo(c, T)' = "none"
      BY <1>1, <2>2, <2>3, FeedTold
    <3> QED BY <1>3, <2>3, <3>1
  <2>4. CASE ~Concerns(x, AdminTargets) /\ UNCHANGED admins
    <3>1. CASE FreedList
      BY <2>1, <2>4, <3>1
    <3>2. ASSUME NEW status \in Statuses, Answer(c, x, "finish", status)
          PROVE  AnswerTo(c, T)' = "none"
      BY <1>1, <2>4, <3>2, FeedTold DEF T
    <3> QED BY <1>3, <1>8, <2>4, <3>1, <3>2, ActionForm
  <2> DEFINE o == Order(cli[c].req)
             B == BookOfAdmins(admins)
             C == BookOfAdmins(admins')
  <2>5. HasAdmin(name(x)) <=> name(x) \in DOMAIN B
    BY DEF HasAdmin, BookOfAdmins
  <2>6. /\ Len(admins) >= MAX_ADMIN => Administrators!Full
        /\ Len(admins) < MAX_ADMIN => ~Administrators!Full
    <3>1. /\ admins \in Seq(Account) /\ Len(admins) \in Nat
          /\ MAX_ADMIN \in Nat /\ MAX_ADMIN # 0
      BY Sizes, ConstantsOK DEF TypeOK, ConstantsAssumption
    <3>2. Distinct(AdminsOf(admins), Len(admins))
      BY OneTokenIsDistinct
    <3>3. Cardinality(DOMAIN B) = Len(admins)
      BY <3>1, <3>2, AdminsAreBook, ListSize
    <3>4. Cardinality(Administrators!Names) = Len(admins)
      BY <1>2, <3>3 DEF Administrators!Names
    <3>5. Administrators!Full <=> Len(admins) >= MAX_ADMIN
      BY <3>1, <3>4 DEF Administrators!Full, Administrators!Cardinality, Cardinality,
                        Administrators!IsFiniteSet, IsFiniteSet
    <3> QED BY <3>1, <3>5
  <2>7. CASE Concerns(x, AdminTargets) /\ x.target = add_admin /\ add_new_admin(c, x)
    <3>1. Adds(x)
      BY <2>7 DEF Concerns, Adds
    <3>2. CASE /\ UNCHANGED admins /\ Refusal(c, x)
               /\ \/ Len(admins) >= MAX_ADMIN \/ Len(secret(x)) # TOKEN_SIZE
                  \/ HasAdmin(name(x))
      <4>1. IsTold(c, T, "refused")
        BY <1>1, <2>2, <2>7, <3>2, FeedTold DEF T
      <4>2. \/ Orders(T)[c] = Lost
            \/ /\ Orders(T)[c] = o /\ o \in OrdersFor(T) /\ o.name = name(x) /\ o.op = "add"
               /\ o.secret = secret(x)
        BY <1>1, <2>2, <2>7, <3>1, <3>2, FeedTold DEF T
      <4>3. o.secret = secret(x) => Len(secret(x)) = TOKEN_SIZE
        <5>1. /\ cli[c].req \in Requests /\ x.type = cli[c].req.type
              /\ x.target = cli[c].req.target
          BY <1>1, <2>2, <3>2, FeedTold
        <5>2. parse_args(cli[c].req) /\ cli[c].req.type = config /\ cli[c].req.target = add_admin
          BY <2>7, <5>1 DEF Requests, Concerns
        <5>3. Len(cli[c].req.secret) = TOKEN_SIZE
          BY <5>2 DEF parse_args
        <5>4. o.secret = cli[c].req.secret
          BY <5>2 DEF Order, Adds
        <5> QED BY <5>3, <5>4
      <4> HIDE DEF o, B, C
      <4>4. C = B
        BY <3>2 DEF B, C
      <4>5. CASE Orders(T)[c] = Lost
        BY <1>1, <1>2, <4>1, <4>4, <4>5, AdminsMisread DEF T, B, C
      <4>6. CASE /\ Orders(T)[c] = o /\ o \in OrdersFor(T) /\ o.name = name(x) /\ o.op = "add"
                 /\ o.secret = secret(x)
        <5>1. o.name \in DOMAIN B \/ Administrators!Full
          BY <2>5, <2>6, <3>2, <4>3, <4>6
        <5> QED BY <1>1, <1>2, <4>1, <4>4, <4>6, <5>1, AdminsCarried DEF T, B, C
      <4> QED BY <4>2, <4>5, <4>6
    <3>3. CASE /\ Len(admins) < MAX_ADMIN /\ Success(c, x)
               /\ Entered(C, B, name(x), secret(x))
      <4>1. IsTold(c, T, "done")
        BY <1>1, <2>2, <2>7, <3>3, FeedTold DEF T
      <4>2. \/ Orders(T)[c] = Lost
            \/ /\ Orders(T)[c] = o /\ o \in OrdersFor(T) /\ o.name = name(x) /\ o.op = "add"
               /\ o.secret = secret(x)
        BY <1>1, <2>2, <2>7, <3>1, <3>3, FeedTold DEF T
      <4> HIDE DEF o, B, C
      <4> QED BY <1>1, <1>2, <2>6, <3>3, <4>1, <4>2, AdminsCarried, AdminsMisread DEF T, B, C
    <3> QED BY <2>7, <3>2, <3>3, AdminsMoveBook
  <2>8. CASE Concerns(x, AdminTargets) /\ x.target = remove_admin /\ RemoveAdmin(c, x)
    <3>1. ~Adds(x)
      BY <2>8 DEF Concerns, Adds, remove_admin, add_admin, add_pop3
    <3>2. CASE UNCHANGED admins /\ Refusal(c, x) /\ ~HasAdmin(name(x))
      <4>1. IsTold(c, T, "refused")
        BY <1>1, <2>2, <2>8, <3>2, FeedTold DEF T
      <4>2. \/ Orders(T)[c] = Lost
            \/ Orders(T)[c] = o /\ o \in OrdersFor(T) /\ o.name = name(x) /\ o.op = "remove"
        BY <1>1, <2>2, <2>8, <3>1, <3>2, FeedTold DEF T
      <4> HIDE DEF o, B, C
      <4>3. C = B /\ name(x) \notin DOMAIN B
        BY <2>5, <3>2 DEF B, C
      <4> QED BY <1>1, <1>2, <4>1, <4>2, <4>3, AdminsCarried, AdminsMisread DEF T, B, C
    <3>3. CASE Success(c, x) /\ HasAdmin(name(x)) /\ Struck(C, B, admins[Len(admins)].user)
      <4>1. IsTold(c, T, "done")
        BY <1>1, <2>2, <2>8, <3>3, FeedTold DEF T
      <4>2. \/ Orders(T)[c] = Lost
            \/ Orders(T)[c] = o /\ o \in OrdersFor(T) /\ o.name = name(x) /\ o.op = "remove"
        BY <1>1, <2>2, <2>8, <3>1, <3>3, FeedTold DEF T
      <4>3. o.name = name(x) => admins[Len(admins)].user = name(x)
        <5>1. /\ x.type = cli[c].req.type /\ x.target = cli[c].req.target
              /\ conn'[c].st = "finish" /\ conn[c].st \in Reading
          BY <1>1, <2>2, <3>3, FeedOrder, FeedFrame
        <5>2. cli[c].req.type = config /\ cli[c].req.target = remove_admin
          BY <2>8, <5>1 DEF Concerns
        <5>3. o.name = cli[c].req.name
          BY DEF Order
        <5> HIDE DEF o
        <5> QED BY <3>3, <5>1, <5>2, <5>3 DEF RemovesLast
      <4> HIDE DEF o, B, C
      <4> QED BY <1>1, <1>2, <3>3, <4>1, <4>2, <4>3, AdminsCarried, AdminsMisread DEF T, B, C
    <3> QED BY <2>8, <3>2, <3>3, AdminsMoveBook
  <2> QED BY <1>8, <2>1, <2>3, <2>4, <2>7, <2>8, AdminAction
<1> QED BY <1>4, <1>6, <1>7, <1>8

\* A step is one of the book of administrators, or leaves it and its clerks as they are.
LEMMA AdminsBookStep ==
    ASSUME TypeOK, ParseInv, ParseInv', OneTokenPerAdmin, [Next]_vars, [RemovesLast]_vars
    PROVE  [Administrators!Next]_(Administrators!vars)
<1>1. CASE validate_user \/ Done \/ UNCHANGED vars
  <2>1. conn' = conn /\ cli' = cli /\ disturbed' = disturbed /\ admins' = admins
    BY <1>1 DEF validate_user, Done, vars, book
  <2> QED BY <2>1 DEF Administrators!vars, AdminBook, OrderOf, AnswerTo
<1>2. ASSUME NEW c \in Conns,
             \/ Send(c) \/ ClientStep(c) \/ Interrupt(c)
             \/ monitor_passive_accept(c) \/ AcceptFails(c) \/ ReadFails(c) \/ monitor_write(c)
      PROVE  [Administrators!Next]_(Administrators!vars)
  <2>1. AdminTargets \in Books
    BY DEF Books
  <2>2. UNCHANGED book /\ (Stay(AdminTargets) \/ Comes(c, AdminTargets) \/ Leaves(c, AdminTargets))
    BY <1>2, <2>1, ClerksOtherwise
  <2>3. AdminBook' = AdminBook
    BY <2>2 DEF AdminBook, book
  <2> QED BY <2>2, <2>3, AdminsSame
<1>3. ASSUME NEW c \in Conns, monitor_parser_feed(c), ~UNCHANGED vars
      PROVE  [Administrators!Next]_(Administrators!vars)
  <2>1. RemovesLast
    BY <1>3
  <2> QED BY <1>3, <2>1, AdminsFeed
<1> QED BY <1>1, <1>2, <1>3 DEF Next, ServerStep

\* The administrators are a book of accounts that holds MAX_ADMIN names as long as each one
\* that is removed is the last: add_admin enters the name and the token of the request that
\* asked for it while there is a place and the name is new, what is refused changes nothing,
\* and nothing but remove_admin with the name of another than the last breaks the book.
THEOREM AdminsImplementBookHolds == Spec /\ [][RemovesLast]_vars => AdminsImplementBook
<1>1. Init => Administrators!Init
  <2> SUFFICES ASSUME Init PROVE Administrators!Init
    OBVIOUS
  <2>1. \A c \in Conns : conn[c].st = "closed"
    BY DEF Init, Zeroed
  <2>2. \A c \in Conns : OrderOf(c, AdminTargets) = NoOrder
    BY <2>1 DEF OrderOf
  <2> QED BY <2>1, <2>2 DEF Administrators!Init, AnswerTo, NoOrder
<1>2. TypeOK /\ ParseInv /\ ParseInv' /\ OneTokenPerAdmin /\ [Next]_vars /\ [RemovesLast]_vars =>
        [Administrators!Next]_(Administrators!vars)
  BY AdminsBookStep
<1>3. Spec /\ [][RemovesLast]_vars => Administrators!Spec
  BY <1>1, <1>2, TypeCorrect, ParseInvHolds, OneTokenPerAdminHolds, PTL
     DEF Spec, Administrators!Spec
<1> QED BY <1>3 DEF AdminsImplementBook

=============================================================================
