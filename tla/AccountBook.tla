---------------------------- MODULE AccountBook ----------------------------
(***************************************************************************)
(* What the monitor protocol promises about a book of accounts, the POP3   *)
(* users or the administrators: a clerk's order enters one name or strikes *)
(* one name, at once, or is refused for a reason, and the clerk is told    *)
(* which.  Nothing else changes the book.  An order that was garbled on    *)
(* its way (Lost) may enter or strike some other name, a single one.       *)
(***************************************************************************)
EXTENDS FiniteSets, Naturals

CONSTANTS
    Clerks,
    Orders,     \* records [op : {"add", "remove"}, name, secret]
    Lost,       \* the order that was garbled
    NoOrder,
    Limit,      \* the most names the book holds, 0 when there is no limit
    Keep        \* names that are never struck

VARIABLES
    book,       \* book[n]: the secret of name n
    order,      \* order[k]: what clerk k asked for, or NoOrder
    answer      \* answer[k]: "none", "done" or "refused"

vars == <<book, order, answer>>

Names == DOMAIN book
Full == Limit # 0 /\ Cardinality(Names) >= Limit

Init ==
    /\ order = [k \in Clerks |-> NoOrder]
    /\ answer = [k \in Clerks |-> "none"]

Waiting(k, op) == order[k] \in Orders /\ order[k].op = op /\ answer[k] = "none"

\* Orders that are still unanswered may be garbled while another one is carried out.
Garbled(S) ==
    order' = [k \in Clerks |-> IF k \in S /\ order[k] \in Orders /\ answer[k] = "none"
                               THEN Lost ELSE order[k]]

Tell(k, what) ==
    /\ answer' = [answer EXCEPT ![k] = what]
    /\ \E S \in SUBSET (Clerks \ {k}) : Garbled(S)

\* A clerk comes with an order, and leaves.
Come(k) ==
    /\ order[k] = NoOrder /\ answer[k] = "none"
    /\ \E o \in Orders \cup {Lost} : order' = [order EXCEPT ![k] = o]
    /\ UNCHANGED <<book, answer>>

Leave(k) ==
    /\ order' = [order EXCEPT ![k] = NoOrder]
    /\ answer' = [answer EXCEPT ![k] = "none"]
    /\ UNCHANGED book

Garble == (\E S \in SUBSET Clerks : Garbled(S)) /\ UNCHANGED <<book, answer>>

Enter(k) ==
    /\ Waiting(k, "add")
    /\ order[k].name \notin Names /\ ~Full
    /\ book' = [n \in Names \cup {order[k].name} |->
                    IF n \in Names THEN book[n] ELSE order[k].secret]
    /\ Tell(k, "done")

Strike(k) ==
    /\ Waiting(k, "remove")
    /\ order[k].name \in Names \ Keep
    /\ book' = [n \in Names \ {order[k].name} |-> book[n]]
    /\ Tell(k, "done")

Refuse(k) ==
    /\ \/ Waiting(k, "add") /\ (order[k].name \in Names \/ Full)
       \/ Waiting(k, "remove") /\ order[k].name \notin Names \ Keep
    /\ Tell(k, "refused")
    /\ UNCHANGED book

\* A garbled order: one name at most comes or goes, and a refusal changes nothing.
Misread(k) ==
    /\ order[k] = Lost /\ answer[k] = "none"
    /\ \/ Tell(k, "refused") /\ UNCHANGED book
       \/ /\ Tell(k, "done")
          /\ \E n \in Names \cup DOMAIN book' :
                \A m \in (Names \cup DOMAIN book') \ {n} :
                    m \in Names /\ m \in DOMAIN book' /\ book'[m] = book[m]

Next ==
    \/ Garble
    \/ \E k \in Clerks :
        Come(k) \/ Leave(k) \/ Enter(k) \/ Strike(k) \/ Refuse(k) \/ Misread(k)

Spec == Init /\ [][Next]_vars
=============================================================================
