-------------------------- MODULE Selector_proofs --------------------------
(***************************************************************************)
(* Theorems of Selector, for a table that has an item for every descriptor *)
(* the kernel gives out (Roomy).  With more of them ItemsInTable fails.    *)
(***************************************************************************)
EXTENDS Selector, TLAPS, WellFoundedInduction

\* A non-empty set of descriptors has a largest element.
LEMMA Largest ==
    ASSUME NEW T, T \subseteq Nat, T # {}, NEW b \in Nat, \A x \in T : x <= b
    PROVE  \E m \in T : \A x \in T : x <= m
<1> DEFINE D == {b - x : x \in T}
<1>1. D \subseteq Nat
  OBVIOUS
<1>2. D # {}
  <2>1. PICK x \in T : TRUE
    OBVIOUS
  <2>2. b - x \in D
    OBVIOUS
  <2> QED BY <2>2
<1>3. PICK d \in D : \A y \in D : <<y, d>> \notin OpToRel(<, Nat)
  <2> HIDE DEF D
  <2> QED BY <1>1, <1>2, NatLessThanWellFounded, WFMin
<1>4. \A y \in D : ~(y < d)
  <2> HIDE DEF D
  <2> QED BY <1>1, <1>3 DEF OpToRel
<1>5. PICK m \in T : d = b - m
  OBVIOUS
<1>6. ASSUME NEW x \in T
      PROVE  x <= m
  <2>1. b - x \in D
    OBVIOUS
  <2>2. ~(b - x < b - m)
    BY <2>1, <1>4, <1>5
  <2> QED BY <2>2
<1> QED BY <1>6

\* A non-empty set of descriptors has a smallest element.
LEMMA Smallest ==
    ASSUME NEW T, T \subseteq Nat, T # {}
    PROVE  \E m \in T : \A x \in T : m <= x
<1>1. PICK m \in T : \A y \in T : <<y, m>> \notin OpToRel(<, Nat)
  BY NatLessThanWellFounded, WFMin
<1>2. \A y \in T : ~(y < m)
  BY <1>1 DEF OpToRel
<1> QED BY <1>2
-----------------------------------------------------------------------------
(* The table. *)

\* The table selector_new allocates has an item for every descriptor.
Roomy == next_capacity(MAX_SOCKS) \in Nat /\ MaxFd < next_capacity(MAX_SOCKS)

Tables == [fds : [Fds -> Item], fd_size : Nat, max_fd : Fds,
           master_r : SUBSET Fds, master_w : SUBSET Fds]

\* max_fd and the master sets agree with the items.
TableInv(t) ==
    /\ t \in Tables
    /\ t.fd_size = next_capacity(MAX_SOCKS)
    /\ \A f \in Fds : ~Used(t, f) => t.fds[f] = Unused
    /\ \A f \in Fds : Used(t, f) => f <= t.max_fd
    /\ \A f \in Fds : f \in t.master_r <=> "READ" \in t.fds[f].interest
    /\ \A f \in Fds : f \in t.master_w <=> "WRITE" \in t.fds[f].interest

\* What SelectorAssumption says of the descriptors.
LEMMA Constants ==
    /\ MaxFd \in Nat /\ Fds \subseteq Nat /\ 0 \in Fds /\ MaxFd \in Fds
    /\ Passive \subseteq Fds /\ Other \subseteq Fds
    /\ Unused \in Item
BY SelectorOK DEF SelectorAssumption, Fds, Unused, Item, Ops

\* items_max_fd is the largest descriptor in use of those it looks at.
LEMMA MaxFdIsLargest ==
    ASSUME NEW t \in Tables
    PROVE  /\ items_max_fd(t) \in Fds
           /\ \A f \in Fds : f <= t.max_fd /\ Used(t, f) => f <= items_max_fd(t)
<1> DEFINE used == {f \in Fds : f <= t.max_fd /\ Used(t, f)}
<1>1. CASE used = {}
  BY <1>1, Constants DEF items_max_fd
<1>2. CASE used # {}
  <2>1. \A x \in used : x <= MaxFd
    BY Constants DEF Fds
  <2>2. \E m \in used : \A x \in used : x <= m
    <3>1. used \subseteq Nat
      BY Constants
    <3> HIDE DEF used
    <3> QED BY <1>2, <2>1, <3>1, Constants, Largest
  <2>3. items_max_fd(t) = CHOOSE m \in used : \A g \in used : g <= m
    BY <1>2 DEF items_max_fd
  <2>4. items_max_fd(t) \in used /\ \A x \in used : x <= items_max_fd(t)
    <3> HIDE DEF used
    <3> QED BY <2>2, <2>3
  <2> QED BY <2>4
<1> QED BY <1>1, <1>2

\* items_update_fdset_for_fd changes the master sets at f only.
LEMMA UpdateSets ==
    ASSUME NEW t \in Tables, NEW f \in Fds
    PROVE  LET g == items_update_fdset_for_fd(t, f)
           IN  /\ g \in Tables
               /\ g.fds = t.fds /\ g.fd_size = t.fd_size /\ g.max_fd = t.max_fd
               /\ \A x \in Fds \ {f} : /\ x \in g.master_r <=> x \in t.master_r
                                       /\ x \in g.master_w <=> x \in t.master_w
               /\ f \in g.master_r <=> "READ" \in t.fds[f].interest
               /\ f \in g.master_w <=> "WRITE" \in t.fds[f].interest
BY DEF items_update_fdset_for_fd, Tables

\* g is the table t with a new item for f, or t itself if f is in use.
Registered(t, f, h, ops, d, g) ==
    /\ TableInv(g)
    /\ g.fds = IF Used(t, f) THEN t.fds
               ELSE [t.fds EXCEPT ![f] = [handler |-> h, interest |-> ops, data |-> d]]

\* selector_register fills a free item, or leaves the table as it is.
LEMMA RegisterKeeps ==
    ASSUME Roomy, NEW t, TableInv(t), NEW f \in Fds, NEW h \in {"passive", "pop3", "mail", "monitor"},
           NEW ops \in SUBSET Ops, NEW d \in Fds,
           NEW g \in selector_register(t, f, h, ops, d)
    PROVE  Registered(t, f, h, ops, d, g)
<1> USE DEF Registered
<1>1. t \in Tables /\ t.fd_size \in Nat /\ f < t.fd_size /\ f # t.fd_size
  BY Constants DEF TableInv, Roomy, Fds
<1>2. g = IF Used(t, f) THEN t ELSE Fill(t, f, h, ops, d)
  BY <1>1, Constants DEF selector_register
<1>3. CASE Used(t, f)
  BY <1>2, <1>3
<1>4. CASE ~Used(t, f)
  <2> DEFINE item == [handler |-> h, interest |-> ops, data |-> d]
             u == [t EXCEPT !.fds[f] = item, !.max_fd = IF f > @ THEN f ELSE @]
  <2>1. item \in Item
    BY DEF Item
  <2>2. /\ u \in Tables /\ u.fds = [t.fds EXCEPT ![f] = item] /\ u.fd_size = t.fd_size
        /\ u.max_fd = IF f > t.max_fd THEN f ELSE t.max_fd
        /\ u.master_r = t.master_r /\ u.master_w = t.master_w
    BY <1>1, <2>1 DEF Tables
  <2>3. g = items_update_fdset_for_fd(u, f)
    BY <1>2, <1>4 DEF Fill
  <2>4. /\ g \in Tables /\ g.fds = u.fds /\ g.fd_size = u.fd_size /\ g.max_fd = u.max_fd
        /\ \A x \in Fds \ {f} : /\ x \in g.master_r <=> x \in u.master_r
                                /\ x \in g.master_w <=> x \in u.master_w
        /\ f \in g.master_r <=> "READ" \in u.fds[f].interest
        /\ f \in g.master_w <=> "WRITE" \in u.fds[f].interest
    <3> HIDE DEF u
    <3> QED BY <2>2, <2>3, UpdateSets
  <2>5. \A x \in Fds : g.fds[x] = IF x = f THEN item ELSE t.fds[x]
    BY <1>1, <2>2, <2>4 DEF Tables
  <2>6. t.max_fd \in Nat /\ f \in Nat
    BY <1>1, Constants DEF Tables
  <2>7. \A x \in Fds : x \in Nat
    BY Constants
  <2> HIDE DEF u
  <2>8. \A x \in Fds : Used(g, x) => x <= g.max_fd
    BY <2>2, <2>4, <2>5, <2>6, <2>7 DEF TableInv, Used
  <2>9. \A x \in Fds : ~Used(g, x) => g.fds[x] = Unused
    BY <2>5 DEF TableInv, Used
  <2> QED BY <1>4, <2>2, <2>4, <2>5, <2>8, <2>9 DEF TableInv
<1> QED BY <1>3, <1>4

\* selector_unregister_fd leaves the item unused, whether it was used or not.
LEMMA UnregisterKeeps ==
    ASSUME NEW t, TableInv(t), NEW f \in Fds
    PROVE  LET g == selector_unregister_fd(t, f)
           IN  TableInv(g) /\ g.fds = [t.fds EXCEPT ![f] = Unused]
<1> DEFINE a == [t EXCEPT !.fds[f].interest = {}]
           b == items_update_fdset_for_fd(a, f)
           e == [b EXCEPT !.fds[f] = Unused]
           g == [e EXCEPT !.max_fd = items_max_fd(e)]
<1>1. t \in Tables
  BY DEF TableInv
<1>2. CASE ~Used(t, f)
  BY <1>1, <1>2 DEF selector_unregister_fd, TableInv, Tables
<1>3. CASE Used(t, f)
  <2>1. /\ a \in Tables /\ a.fd_size = t.fd_size /\ a.max_fd = t.max_fd
        /\ a.master_r = t.master_r /\ a.master_w = t.master_w
        /\ a.fds = [t.fds EXCEPT ![f].interest = {}]
    <3>1. [t.fds[f] EXCEPT !.interest = {}] \in Item
      BY <1>1 DEF Tables, Item
    <3>2. a = [t EXCEPT !.fds = [t.fds EXCEPT ![f] = [t.fds[f] EXCEPT !.interest = {}]]]
      BY <1>1 DEF Tables
    <3>3. [t.fds EXCEPT ![f] = [t.fds[f] EXCEPT !.interest = {}]] \in [Fds -> Item]
      BY <1>1, <3>1 DEF Tables
    <3> HIDE DEF a
    <3> QED BY <1>1, <3>2, <3>3 DEF Tables
  <2>2. a.fds[f].interest = {} /\ \A x \in Fds \ {f} : a.fds[x] = t.fds[x]
    BY <1>1, <2>1 DEF Tables, Item
  <2>3. /\ b \in Tables /\ b.fds = a.fds /\ b.fd_size = a.fd_size /\ b.max_fd = a.max_fd
        /\ \A x \in Fds \ {f} : /\ x \in b.master_r <=> x \in a.master_r
                                /\ x \in b.master_w <=> x \in a.master_w
        /\ f \in b.master_r <=> "READ" \in a.fds[f].interest
        /\ f \in b.master_w <=> "WRITE" \in a.fds[f].interest
    <3> HIDE DEF a
    <3> QED BY <2>1, UpdateSets
  <2>4. /\ e \in Tables /\ e.fd_size = b.fd_size /\ e.max_fd = b.max_fd
        /\ e.master_r = b.master_r /\ e.master_w = b.master_w
        /\ e.fds = [b.fds EXCEPT ![f] = Unused]
    <3> HIDE DEF b
    <3> QED BY <2>3, Constants DEF Tables
  <2>5. /\ items_max_fd(e) \in Fds
        /\ \A x \in Fds : x <= e.max_fd /\ Used(e, x) => x <= items_max_fd(e)
    <3> HIDE DEF e
    <3> QED BY <2>4, MaxFdIsLargest
  <2>6. /\ g \in Tables /\ g.fd_size = e.fd_size /\ g.max_fd = items_max_fd(e)
        /\ g.master_r = e.master_r /\ g.master_w = e.master_w /\ g.fds = e.fds
    <3> HIDE DEF e
    <3> QED BY <2>4, <2>5 DEF Tables
  <2>7. \A x \in Fds : g.fds[x] = IF x = f THEN Unused ELSE t.fds[x]
    <3> HIDE DEF g, e, b, a
    <3> QED BY <1>1, <2>2, <2>3, <2>4, <2>6 DEF Tables
  <2>8. g.fds = [t.fds EXCEPT ![f] = Unused]
    <3> HIDE DEF g, e, b, a
    <3> QED BY <1>1, <2>6, <2>7, Constants DEF Tables
  <2>9. TableInv(g)
    <3>1. Unused.interest = {} /\ Unused.handler = "unused"
      BY DEF Unused
    <3> HIDE DEF g, e, b, a
    <3>2. \A x \in Fds : ~Used(g, x) => g.fds[x] = Unused
      BY <2>7 DEF TableInv, Used
    <3>3. \A x \in Fds : Used(g, x) => x <= g.max_fd
      <4>1. ASSUME NEW x \in Fds, Used(g, x) PROVE x # f /\ g.fds[x] = t.fds[x]
        BY <2>7, <3>1, <4>1 DEF Used
      <4>2. ASSUME NEW x \in Fds, Used(g, x) PROVE Used(t, x)
        BY <4>1, <4>2 DEF Used
      <4>3. e.max_fd = t.max_fd /\ g.max_fd = items_max_fd(e) /\ g.fds = e.fds
        BY <2>1, <2>3, <2>4, <2>6
      <4>4. \A x \in Fds : Used(t, x) => x <= t.max_fd
        BY DEF TableInv
      <4>5. ASSUME NEW x \in Fds, Used(g, x) PROVE x <= g.max_fd
        <5>1. Used(e, x)
          BY <4>3, <4>5 DEF Used
        <5>2. x <= e.max_fd
          BY <4>2, <4>3, <4>4, <4>5
        <5> QED BY <2>5, <4>3, <5>1, <5>2
      <4> QED BY <4>5
    <3>4. g.master_r = b.master_r /\ g.master_w = b.master_w
      BY <2>4, <2>6
    <3>5. g.fds[f].interest = {} /\ f \notin g.master_r /\ f \notin g.master_w
      BY <2>2, <2>3, <2>7, <3>1, <3>4
    <3>6. \A x \in Fds \ {f} : g.fds[x] = t.fds[x]
      BY <2>7
    <3>7. \A x \in Fds \ {f} : /\ x \in g.master_r <=> x \in t.master_r
                               /\ x \in g.master_w <=> x \in t.master_w
      BY <2>1, <2>3, <3>4
    <3>8. \A x \in Fds : x \in g.master_r <=> "READ" \in g.fds[x].interest
      BY <3>5, <3>6, <3>7 DEF TableInv
    <3>9. \A x \in Fds : x \in g.master_w <=> "WRITE" \in g.fds[x].interest
      BY <3>5, <3>6, <3>7 DEF TableInv
    <3> QED BY <2>1, <2>3, <2>4, <2>6, <3>2, <3>3, <3>8, <3>9 DEF TableInv
  <2>10. selector_unregister_fd(t, f) = g
    BY <1>3 DEF selector_unregister_fd
  <2> HIDE DEF g
  <2> QED BY <2>8, <2>9, <2>10
<1> QED BY <1>2, <1>3

\* The items of two tables have the same owners.
SameItems(t, g) ==
    \A x \in Fds : g.fds[x].handler = t.fds[x].handler /\ g.fds[x].data = t.fds[x].data

\* selector_set_interest changes no owner, and the master sets follow.
LEMMA SetInterestKeeps ==
    ASSUME NEW t, TableInv(t), NEW f \in Fds, NEW ops \in SUBSET Ops
    PROVE  LET g == selector_set_interest(t, f, ops)
           IN  TableInv(g) /\ SameItems(t, g)
<1> DEFINE a == [t EXCEPT !.fds[f].interest = ops]
           g == items_update_fdset_for_fd(a, f)
<1>1. t \in Tables
  BY DEF TableInv
<1>2. CASE ~Used(t, f)
  BY <1>2 DEF selector_set_interest, SameItems
<1>3. CASE Used(t, f)
  <2>1. /\ a \in Tables /\ a.fd_size = t.fd_size /\ a.max_fd = t.max_fd
        /\ a.master_r = t.master_r /\ a.master_w = t.master_w
        /\ a.fds = [t.fds EXCEPT ![f].interest = ops]
    <3> DEFINE h == [t.fds EXCEPT ![f].interest = ops]
    <3>1. t.fds \in [Fds -> Item]
      BY <1>1 DEF Tables
    <3>2. h \in [Fds -> Item] /\ a = [t EXCEPT !.fds = h]
      BY <3>1 DEF Item
    <3> HIDE DEF a, h
    <3>3. /\ a \in Tables /\ a.fd_size = t.fd_size /\ a.max_fd = t.max_fd
          /\ a.master_r = t.master_r /\ a.master_w = t.master_w /\ a.fds = h
      BY <1>1, <3>2 DEF Tables
    <3> QED BY <3>3 DEF h
  <2>2. /\ \A x \in Fds \ {f} : a.fds[x] = t.fds[x]
        /\ a.fds[f].handler = t.fds[f].handler /\ a.fds[f].data = t.fds[f].data
    BY <1>1, <2>1, SMTT(30) DEF Tables, Item
  <2>3. /\ g \in Tables /\ g.fds = a.fds /\ g.fd_size = a.fd_size /\ g.max_fd = a.max_fd
        /\ \A x \in Fds \ {f} : /\ x \in g.master_r <=> x \in a.master_r
                                /\ x \in g.master_w <=> x \in a.master_w
        /\ f \in g.master_r <=> "READ" \in a.fds[f].interest
        /\ f \in g.master_w <=> "WRITE" \in a.fds[f].interest
    <3> HIDE DEF a
    <3> QED BY <2>1, UpdateSets
  <2>4. selector_set_interest(t, f, ops) = g
    BY <1>3 DEF selector_set_interest
  <2> HIDE DEF g, a
  <2>5. SameItems(t, g)
    BY <2>2, <2>3 DEF SameItems
  <2>6. \A x \in Fds : ~Used(g, x) => g.fds[x] = Unused
    BY <1>3, <2>2, <2>3 DEF TableInv, Used
  <2>7. \A x \in Fds : Used(g, x) => x <= g.max_fd
    BY <2>1, <2>2, <2>3 DEF TableInv, Used
  <2>8. \A x \in Fds : /\ x \in g.master_r <=> "READ" \in g.fds[x].interest
                       /\ x \in g.master_w <=> "WRITE" \in g.fds[x].interest
    BY <2>1, <2>2, <2>3 DEF TableInv
  <2>9. TableInv(g)
    BY <2>1, <2>3, <2>6, <2>7, <2>8 DEF TableInv
  <2> QED BY <2>4, <2>5, <2>9
<1> QED BY <1>2, <1>3
-----------------------------------------------------------------------------
(* The inductive invariant. *)

\* The items, the descriptors and the sessions agree with one another.
Owners ==
    /\ open \subseteq Fds /\ selected \in [Fds -> Fds] /\ transfer \subseteq Sessions
    /\ Passive \cup Other \subseteq open
    /\ \A f \in Fds : Used(sel, f) => f \in open \ Other
    /\ \A f \in Fds : sel.fds[f].handler = "passive" <=> f \in Passive
    /\ \A f \in Fds : sel.fds[f].handler \in {"pop3", "monitor"} => sel.fds[f].data = f
    /\ \A f \in Fds : sel.fds[f].handler = "mail" =>
            sel.fds[f].data \in transfer /\ selected[sel.fds[f].data] = f
    /\ \A c \in transfer :
            sel.fds[selected[c]].handler = "mail" /\ sel.fds[selected[c]].data = c
    /\ \A c \in Fds : selected[c] # 0 =>
            /\ selected[c] \in open
            /\ \/ sel.fds[selected[c]].handler = "unused"
               \/ sel.fds[selected[c]].handler = "mail" /\ sel.fds[selected[c]].data = c

InLoop == pc \in {"read", "write"}

\* The listening sockets come first, so the sockets accepted in an iteration have
\* numbers that select() did not report: nothing was closed before they are accepted.
LoopInv ==
    /\ pc \in {"select", "read", "write", "dead", "destroy"}
    /\ i \in Fds /\ n \in Fds /\ i <= n
    /\ pc = "destroy" => i = 0
    /\ slave_r \subseteq Fds /\ slave_w \subseteq Fds
    /\ seen \subseteq {f \in Fds : Used(sel, f)}
    /\ InLoop /\ (\E p \in Passive : i <= p) => slave_r \cup slave_w \subseteq seen
    /\ InLoop => \A f \in (slave_r \cup slave_w) \ seen :
                    sel.fds[f].handler \notin {"passive", "pop3", "monitor"}

IInv == TableInv(sel) /\ Owners /\ LoopInv

\* The loop variables of handle_iteration stay within the descriptors.
LEMMA AdvanceKeeps ==
    ASSUME i \in Fds, n \in Fds, i <= n, slave_r \subseteq Fds, slave_w \subseteq Fds, Advance
    PROVE  /\ pc' \in {"select", "read", "write", "destroy"} /\ (pc' = "destroy" => i' = 0)
           /\ i' \in Fds /\ n' \in Fds /\ i' <= n'
           /\ slave_r' \subseteq Fds /\ slave_w' \subseteq Fds
           /\ InLoop' => i <= i' /\ slave_r' = slave_r /\ slave_w' = slave_w
<1> USE DEF InLoop
<1>1. CASE pc = "read" /\ pc' = "write" /\ UNCHANGED <<i, n, slave_r, slave_w>>
  BY <1>1, Constants
<1>2. CASE /\ pc = "write" /\ i < n /\ pc' = "read" /\ i' = i + 1
           /\ UNCHANGED <<n, slave_r, slave_w>>
  BY <1>2, Constants DEF Fds
<1>3. CASE /\ pc = "write" /\ i = n
           /\ pc' = (IF done THEN "destroy" ELSE "select")
           /\ i' = 0 /\ n' = 0 /\ slave_r' = {} /\ slave_w' = {}
  BY <1>3, Constants
<1> QED BY <1>1, <1>2, <1>3 DEF Advance

\* A callback of a connection comes after those of the listening sockets.
LEMMA SessionsComeLast ==
    ASSUME Owners, i \in Fds, sel.fds[i].handler \in {"pop3", "mail", "monitor"}
    PROVE  ~\E p \in Passive : i <= p
<1>1. i \in Fds \ (Passive \cup Other)
  BY DEF Owners, Used
<1>2. \A p \in Passive : p < i
  BY <1>1, SelectorOK DEF SelectorAssumption
<1> QED BY <1>2, Constants

\* The loop goes on after a callback of a session, which registers no socket.
LEMMA LoopAfterSession ==
    ASSUME LoopInv, TableInv(sel'), ~\E p \in Passive : i <= p, InLoop, Advance,
           seen' = {f \in seen : Used(sel', f)},
           \A f \in Fds : sel'.fds[f].handler \in {sel.fds[f].handler, "unused", "mail"}
    PROVE  LoopInv'
<1>1. /\ pc' \in {"select", "read", "write", "destroy"} /\ (pc' = "destroy" => i' = 0)
      /\ i' \in Fds /\ n' \in Fds /\ i' <= n'
      /\ slave_r' \subseteq Fds /\ slave_w' \subseteq Fds
      /\ InLoop' => i <= i' /\ slave_r' = slave_r /\ slave_w' = slave_w
  BY AdvanceKeeps DEF LoopInv
<1>2. seen' \subseteq {f \in Fds : Used(sel', f)}
  BY DEF LoopInv
<1>3. InLoop' => ~\E p \in Passive : i' <= p
  BY <1>1, Constants DEF LoopInv, InLoop
<1>4. ASSUME InLoop', NEW f \in (slave_r' \cup slave_w') \ seen'
      PROVE  sel'.fds[f].handler \notin {"passive", "pop3", "monitor"}
  <2>1. f \in Fds /\ f \in slave_r \cup slave_w
    BY <1>1, <1>4
  <2>2. CASE f \in seen
    BY <1>4, <2>2 DEF Used
  <2>3. CASE f \notin seen
    BY <2>1, <2>3 DEF LoopInv
  <2> QED BY <2>2, <2>3
<1> QED BY <1>1, <1>2, <1>3, <1>4 DEF LoopInv

\* The loop goes on after a listening socket, whose callback unregisters nothing.
LEMMA LoopAfterAccept ==
    ASSUME LoopInv, InLoop, i \in Passive, Advance, seen' = {x \in seen : Used(sel', x)},
           \A x \in Fds : Used(sel, x) => Used(sel', x)
    PROVE  LoopInv'
<1>1. slave_r \cup slave_w \subseteq seen
  BY Constants DEF LoopInv, Fds
<1>2. seen' = seen
  BY DEF LoopInv
<1>3. /\ pc' \in {"select", "read", "write", "destroy"} /\ (pc' = "destroy" => i' = 0)
      /\ i' \in Fds /\ n' \in Fds /\ i' <= n'
      /\ slave_r' \subseteq Fds /\ slave_w' \subseteq Fds
      /\ InLoop' => i <= i' /\ slave_r' = slave_r /\ slave_w' = slave_w
  BY AdvanceKeeps DEF LoopInv
<1>4. seen' \subseteq {x \in Fds : Used(sel', x)}
  BY DEF LoopInv
<1> QED BY <1>1, <1>2, <1>3, <1>4 DEF LoopInv

\* A test that fails leaves the loop as it was, one test further.
LEMMA LoopAfterSkip == ASSUME LoopInv, Skip PROVE LoopInv'
<1>1. Advance /\ UNCHANGED <<sel, seen>> /\ InLoop
  BY DEF Skip, InLoop
<1>2. /\ pc' \in {"select", "read", "write", "destroy"} /\ (pc' = "destroy" => i' = 0)
      /\ i' \in Fds /\ n' \in Fds /\ i' <= n'
      /\ slave_r' \subseteq Fds /\ slave_w' \subseteq Fds
      /\ InLoop' => i <= i' /\ slave_r' = slave_r /\ slave_w' = slave_w
  BY <1>1, AdvanceKeeps DEF LoopInv
<1>3. seen' \subseteq {f \in Fds : Used(sel', f)}
  BY <1>1 DEF LoopInv, Used
<1>4. InLoop' /\ (\E p \in Passive : i' <= p) => slave_r' \cup slave_w' \subseteq seen'
  BY <1>1, <1>2, Constants DEF LoopInv
<1>5. InLoop' => \A f \in (slave_r' \cup slave_w') \ seen' :
                    sel'.fds[f].handler \notin {"passive", "pop3", "monitor"}
  BY <1>1, <1>2 DEF LoopInv
<1> QED BY <1>2, <1>3, <1>4, <1>5 DEF LoopInv

\* An iteration starts with readiness of items in use.
LEMMA LoopAfterSelect ==
    ASSUME TableInv(sel), selector_select \/ Timeout PROVE LoopInv'
<1>1. /\ sel' = sel /\ pc' = "read" /\ i' = 0 /\ n' = sel.max_fd
      /\ seen' = {f \in Fds : Used(sel, f)}
      /\ slave_r' \subseteq sel.master_r /\ slave_w' \subseteq sel.master_w
  BY DEF selector_select, Timeout, Reported
<1>2. /\ sel.master_r \subseteq Fds /\ sel.master_w \subseteq Fds /\ sel.max_fd \in Fds
  BY DEF TableInv, Tables
<1>3. \A f \in Fds : f \in sel.master_r \cup sel.master_w => Used(sel, f)
  BY DEF TableInv, Used, Unused
<1>4. slave_r' \cup slave_w' \subseteq seen'
  BY <1>1, <1>2, <1>3
<1>5. 0 \in Fds /\ 0 <= sel.max_fd
  BY <1>2, Constants DEF Fds
<1>6. seen' \subseteq {f \in Fds : Used(sel', f)}
  BY <1>1
<1>7. slave_r' \subseteq Fds /\ slave_w' \subseteq Fds
  BY <1>1, <1>2
<1> QED BY <1>1, <1>2, <1>4, <1>5, <1>6, <1>7 DEF LoopInv

\* What a callback finds: its descriptor is in use and select() is not being called.
LEMMA KeyFacts ==
    ASSUME Owners, LoopInv, NEW op \in Ops, Ready(op), sel.fds[i].handler # "unused"
    PROVE  InLoop /\ i \in Fds /\ i \in open
<1>1. InLoop /\ i \in Fds /\ i \in slave_r \cup slave_w
  BY DEF Ready, InLoop, Ops, LoopInv
<1> QED BY <1>1 DEF LoopInv, Owners, Used

-----------------------------------------------------------------------------
(* What the kinds of callback do to the owners of the items. *)

\* The kernel's number is that of a free item, and not 0.
LEMMA LowestIsFree ==
    ASSUME Owners, Free # {}
    PROVE  Lowest \in Fds /\ Lowest \notin open /\ ~Used(sel, Lowest) /\ Lowest # 0
<1>1. Free \subseteq Nat
  BY Constants DEF Free
<1>2. \E f \in Free : \A g \in Free : f <= g
  <2> HIDE DEF Free
  <2> QED BY <1>1, Smallest
<1>3. Lowest \in Free
  BY <1>2 DEF Lowest
<1>4. 0 \in open
  BY SelectorOK DEF SelectorAssumption, Owners
<1> QED BY <1>3, <1>4 DEF Free, Owners

\* Only interests change.
LEMMA OwnersAfterInterest ==
    ASSUME Owners, SameItems(sel, sel'), UNCHANGED <<open, selected, transfer>>
    PROVE  Owners'
<1>1. \A x \in Fds : Used(sel', x) <=> Used(sel, x)
  BY DEF SameItems, Used
<1>2. Sessions' = Sessions
  BY DEF SameItems, Sessions
<1>3. \A c \in Fds : selected[c] \in Fds
  BY DEF Owners
<1> QED BY <1>1, <1>2, <1>3 DEF Owners, SameItems, Sessions

\* A socket is accepted.
LEMMA OwnersAfterAccept ==
    ASSUME Owners, Free # {},
           \A x \in Fds :
                sel'.fds[x] = IF x = Lowest
                              THEN [handler |-> "pop3", interest |-> {"WRITE"}, data |-> Lowest]
                              ELSE sel.fds[x],
           open' = open \cup {Lowest}, selected' = [selected EXCEPT ![Lowest] = 0],
           transfer' = transfer
    PROVE  Owners'
<1>1. Lowest \in Fds /\ Lowest \notin open /\ sel.fds[Lowest].handler = "unused"
  BY LowestIsFree DEF Used
<1>2. sel'.fds[Lowest].handler = "pop3" /\ sel'.fds[Lowest].data = Lowest
  BY <1>1
<1>3. \A x \in Fds : x # Lowest => sel'.fds[x] = sel.fds[x]
  OBVIOUS
<1>4. Lowest \notin Sessions /\ Sessions' = Sessions \cup {Lowest}
  BY <1>1, <1>2, <1>3 DEF Sessions
<1>5. Lowest \notin transfer
  BY <1>4 DEF Owners
<1>6. \A c \in Fds : selected'[c] = IF c = Lowest THEN 0 ELSE selected[c]
  BY DEF Owners
<1>7. \A c \in Fds : selected[c] \in Fds
  BY DEF Owners
<1>8. \A c \in Fds : selected[c] # 0 => selected[c] # Lowest
  BY <1>1 DEF Owners
<1>9. open' \subseteq Fds /\ selected' \in [Fds -> Fds] /\ transfer' \subseteq Sessions'
      /\ Passive \cup Other \subseteq open'
  BY <1>1, <1>4, Constants DEF Owners
<1>10. \A f \in Fds : Used(sel', f) => f \in open' \ Other
  BY <1>1, <1>3 DEF Owners, Used
<1>11. \A f \in Fds : sel'.fds[f].handler = "passive" <=> f \in Passive
  BY <1>1, <1>2, <1>3 DEF Owners
<1>12. \A f \in Fds : sel'.fds[f].handler \in {"pop3", "monitor"} => sel'.fds[f].data = f
  BY <1>2, <1>3 DEF Owners
<1>13. transfer \subseteq Fds
  BY DEF Owners, Sessions
<1>14. \A f \in Fds : sel'.fds[f].handler = "mail" =>
            sel'.fds[f].data \in transfer' /\ selected'[sel'.fds[f].data] = f
  BY <1>2, <1>3, <1>5, <1>6, <1>13 DEF Owners
<1>15. \A c \in transfer' :
            sel'.fds[selected'[c]].handler = "mail" /\ sel'.fds[selected'[c]].data = c
  BY <1>1, <1>3, <1>5, <1>6, <1>7, <1>13 DEF Owners
<1>16. \A c \in Fds : selected'[c] # 0 =>
            /\ selected'[c] \in open'
            /\ \/ sel'.fds[selected'[c]].handler = "unused"
               \/ sel'.fds[selected'[c]].handler = "mail" /\ sel'.fds[selected'[c]].data = c
  BY <1>3, <1>6, <1>7, <1>8 DEF Owners
<1> QED BY <1>9, <1>10, <1>11, <1>12, <1>14, <1>15, <1>16 DEF Owners

\* A connection of the monitor is accepted.
LEMMA OwnersAfterAdmin ==
    ASSUME Owners, Free # {},
           \A x \in Fds :
                sel'.fds[x] = IF x = Lowest
                              THEN [handler |-> "monitor", interest |-> {"READ"},
                                    data |-> Lowest]
                              ELSE sel.fds[x],
           open' = open \cup {Lowest}, UNCHANGED <<selected, transfer>>
    PROVE  Owners'
<1>1. Lowest \in Fds /\ Lowest \notin open /\ sel.fds[Lowest].handler = "unused"
  BY LowestIsFree DEF Used
<1>2. sel'.fds[Lowest].handler = "monitor" /\ sel'.fds[Lowest].data = Lowest
  BY <1>1
<1>3. \A x \in Fds : x # Lowest => sel'.fds[x] = sel.fds[x]
  OBVIOUS
<1>4. Sessions' = Sessions
  BY <1>1, <1>2, <1>3 DEF Sessions
<1>5. \A c \in Fds : selected[c] \in Fds /\ (selected[c] # 0 => selected[c] # Lowest)
  BY <1>1 DEF Owners
<1>6. transfer \subseteq Fds
  BY DEF Owners, Sessions
<1>7. \A c \in transfer : selected[c] # Lowest
  BY <1>1, <1>6 DEF Owners
<1>8. /\ open' \subseteq Fds /\ selected' \in [Fds -> Fds] /\ transfer' \subseteq Sessions'
      /\ Passive \cup Other \subseteq open'
  BY <1>1, <1>4 DEF Owners
<1>9. \A f \in Fds : Used(sel', f) => f \in open' \ Other
  BY <1>1, <1>3 DEF Owners, Used
<1>10. \A f \in Fds : sel'.fds[f].handler = "passive" <=> f \in Passive
  BY <1>1, <1>2, <1>3 DEF Owners
<1>11. \A f \in Fds : sel'.fds[f].handler \in {"pop3", "monitor"} => sel'.fds[f].data = f
  BY <1>2, <1>3 DEF Owners
<1>12. \A f \in Fds : sel'.fds[f].handler = "mail" =>
            sel'.fds[f].data \in transfer' /\ selected'[sel'.fds[f].data] = f
  BY <1>2, <1>3 DEF Owners
<1>13. \A c \in transfer' :
            sel'.fds[selected'[c]].handler = "mail" /\ sel'.fds[selected'[c]].data = c
  BY <1>3, <1>5, <1>6, <1>7 DEF Owners
<1>14. \A c \in Fds : selected'[c] # 0 =>
            /\ selected'[c] \in open'
            /\ \/ sel'.fds[selected'[c]].handler = "unused"
               \/ sel'.fds[selected'[c]].handler = "mail" /\ sel'.fds[selected'[c]].data = c
  BY <1>3, <1>5 DEF Owners
<1> QED BY <1>8, <1>9, <1>10, <1>11, <1>12, <1>13, <1>14 DEF Owners

\* A connection of the monitor ends.
LEMMA OwnersAfterEnd ==
    ASSUME Owners, NEW c \in Admins,
           \A x \in Fds : sel'.fds[x] = IF x = c THEN Unused ELSE sel.fds[x],
           open' = open \ {c}, UNCHANGED <<selected, transfer>>
    PROVE  Owners'
<1>1. Unused.handler = "unused"
  BY DEF Unused
<1>2. c \in Fds /\ sel.fds[c].handler = "monitor" /\ transfer \subseteq Fds
  BY DEF Admins, Owners, Sessions
<1>3. c \notin Passive \cup Other
  BY <1>2 DEF Owners, Used
<1>4. Sessions' = Sessions
  BY <1>1, <1>2 DEF Sessions
<1>5. \A d \in Fds : selected[d] \in Fds /\ (selected[d] # 0 => selected[d] # c)
  BY <1>2 DEF Owners
<1>6. \A d \in transfer : selected[d] # c
  BY <1>2 DEF Owners
<1>7. /\ open' \subseteq Fds /\ selected' \in [Fds -> Fds] /\ transfer' \subseteq Sessions'
      /\ Passive \cup Other \subseteq open'
  BY <1>3, <1>4 DEF Owners
<1>8. \A f \in Fds : Used(sel', f) => f \in open' \ Other
  BY <1>1 DEF Owners, Used
<1>9. \A f \in Fds : sel'.fds[f].handler = "passive" <=> f \in Passive
  BY <1>1, <1>2, <1>3 DEF Owners
<1>10. \A f \in Fds : sel'.fds[f].handler \in {"pop3", "monitor"} => sel'.fds[f].data = f
  BY <1>1 DEF Owners
<1>11. \A f \in Fds : sel'.fds[f].handler = "mail" =>
            sel'.fds[f].data \in transfer' /\ selected'[sel'.fds[f].data] = f
  BY <1>1 DEF Owners
<1>12. \A d \in transfer' :
            sel'.fds[selected'[d]].handler = "mail" /\ sel'.fds[selected'[d]].data = d
  BY <1>2, <1>5, <1>6 DEF Owners
<1>13. \A d \in Fds : selected'[d] # 0 =>
            /\ selected'[d] \in open'
            /\ \/ sel'.fds[selected'[d]].handler = "unused"
               \/ sel'.fds[selected'[d]].handler = "mail" /\ sel'.fds[selected'[d]].data = d
  BY <1>5 DEF Owners
<1> QED BY <1>7, <1>8, <1>9, <1>10, <1>11, <1>12, <1>13 DEF Owners

\* A session opens a message file.
LEMMA OwnersAfterRetr ==
    ASSUME Owners, Free # {}, NEW c \in Sessions, c \notin transfer,
           \A x \in Fds :
                /\ x # Lowest => /\ sel'.fds[x].handler = sel.fds[x].handler
                                 /\ sel'.fds[x].data = sel.fds[x].data
                /\ x = Lowest => sel'.fds[x].handler = "mail" /\ sel'.fds[x].data = c,
           open' = open \cup {Lowest}, selected' = [selected EXCEPT ![c] = Lowest],
           transfer' = transfer \cup {c}
    PROVE  Owners'
<1>1. /\ Lowest \in Fds /\ Lowest \notin open /\ Lowest # 0
      /\ sel.fds[Lowest].handler = "unused"
  BY LowestIsFree DEF Used
<1>2. c \in Fds /\ c # Lowest /\ transfer \subseteq Fds /\ sel.fds[c].handler = "pop3"
  BY <1>1 DEF Sessions, Owners
<1>3. Sessions' = Sessions
  BY <1>1 DEF Sessions
<1>4. \A x \in Fds : selected[x] \in Fds /\ selected'[x] = IF x = c THEN Lowest ELSE selected[x]
  BY DEF Owners
<1>5. \A x \in Fds : selected[x] # 0 => selected[x] # Lowest
  BY <1>1 DEF Owners
<1>6. open' \subseteq Fds /\ selected' \in [Fds -> Fds] /\ transfer' \subseteq Sessions'
      /\ Passive \cup Other \subseteq open'
  BY <1>1, <1>2, <1>3 DEF Owners
<1>7. \A f \in Fds : Used(sel', f) => f \in open' \ Other
  BY <1>1 DEF Owners, Used
<1>8. \A f \in Fds : sel'.fds[f].handler = "passive" <=> f \in Passive
  BY <1>1 DEF Owners
<1>9. \A f \in Fds : sel'.fds[f].handler \in {"pop3", "monitor"} => sel'.fds[f].data = f
  BY <1>1 DEF Owners
<1>10. \A f \in Fds : sel'.fds[f].handler = "mail" =>
            sel'.fds[f].data \in transfer' /\ selected'[sel'.fds[f].data] = f
  BY <1>1, <1>2, <1>4 DEF Owners
<1>11. \A d \in transfer' :
            sel'.fds[selected'[d]].handler = "mail" /\ sel'.fds[selected'[d]].data = d
  BY <1>1, <1>2, <1>4 DEF Owners
<1>12. \A d \in Fds : selected'[d] # 0 =>
            /\ selected'[d] \in open'
            /\ \/ sel'.fds[selected'[d]].handler = "unused"
               \/ sel'.fds[selected'[d]].handler = "mail" /\ sel'.fds[selected'[d]].data = d
  BY <1>1, <1>2, <1>4, <1>5 DEF Owners
<1> QED BY <1>6, <1>7, <1>8, <1>9, <1>10, <1>11, <1>12 DEF Owners

\* No two sessions have the same message file, and no socket is one.
LEMMA FilesApart ==
    ASSUME Owners
    PROVE  /\ \A c, d \in transfer : c # d => selected[c] # selected[d]
           /\ \A c \in Fds, d \in Sessions : selected[c] # 0 => selected[c] # d
           /\ \A c \in transfer : selected[c] # 0
           /\ \A d \in Sessions : d \in open /\ d \notin Passive \cup Other
<1>1. \A c, d \in transfer : c # d => selected[c] # selected[d]
  BY DEF Owners
<1>2. \A c \in Fds, d \in Sessions : selected[c] # 0 => selected[c] # d
  BY DEF Owners, Sessions
<1>3. \A d \in Sessions : d \in open /\ d \notin Passive \cup Other
  BY DEF Owners, Sessions, Used
<1>4. ~Used(sel, 0)
  BY SelectorOK, Constants DEF SelectorAssumption, Owners
<1>5. \A c \in transfer : selected[c] # 0
  BY <1>4 DEF Owners, Used
<1> QED BY <1>1, <1>2, <1>3, <1>5

\* A session ends.
LEMMA OwnersAfterDone ==
    ASSUME Owners, NEW c \in Sessions,
           \A x \in Fds : sel'.fds[x] = IF x = c \/ (selected[c] # 0 /\ x = selected[c])
                                        THEN Unused ELSE sel.fds[x],
           open' = open \ {c}, selected' = [selected EXCEPT ![c] = 0],
           transfer' = transfer \ {c}
    PROVE  Owners'
<1>1. Unused.handler = "unused"
  BY DEF Unused
<1>2. c \in Fds /\ transfer \subseteq Fds /\ sel.fds[c].handler = "pop3"
  BY DEF Sessions, Owners
<1>3. c \in open /\ c \notin Passive \cup Other
  BY FilesApart
<1>4. \A x \in Fds : selected[x] \in Fds /\ selected'[x] = IF x = c THEN 0 ELSE selected[x]
  BY DEF Owners
<1>5. \A d \in Sessions : selected[c] # 0 => selected[c] # d
  BY <1>2, FilesApart
<1>6. Sessions' = Sessions \ {c}
  BY <1>1, <1>2, <1>5 DEF Sessions
<1>7. open' \subseteq Fds /\ selected' \in [Fds -> Fds] /\ transfer' \subseteq Sessions'
      /\ Passive \cup Other \subseteq open'
  BY <1>2, <1>3, <1>6, Constants DEF Owners
<1>8. \A f \in Fds : Used(sel', f) => f \in open' \ Other
  BY <1>1 DEF Owners, Used
<1>9. \A f \in Fds : sel'.fds[f].handler = "passive" <=> f \in Passive
  BY <1>1, <1>2, <1>3 DEF Owners
<1>10. \A f \in Fds : sel'.fds[f].handler \in {"pop3", "monitor"} => sel'.fds[f].data = f
  BY <1>1 DEF Owners
<1>11. \A f \in Fds : sel'.fds[f].handler = "mail" =>
            sel'.fds[f].data \in transfer' /\ selected'[sel'.fds[f].data] = f
  <2>1. SUFFICES ASSUME NEW f \in Fds, sel'.fds[f].handler = "mail"
                 PROVE  sel'.fds[f].data \in transfer' /\ selected'[sel'.fds[f].data] = f
    OBVIOUS
  <2>2. sel'.fds[f] = sel.fds[f] /\ ~(selected[c] # 0 /\ f = selected[c])
    BY <1>1, <2>1
  <2>3. sel.fds[f].data \in transfer /\ selected[sel.fds[f].data] = f
    BY <2>1, <2>2 DEF Owners
  <2>4. sel.fds[f].data # c
    BY <2>2, <2>3, FilesApart
  <2> QED BY <1>2, <1>4, <2>2, <2>3, <2>4
<1>12. \A d \in transfer' :
            sel'.fds[selected'[d]].handler = "mail" /\ sel'.fds[selected'[d]].data = d
  <2>1. SUFFICES ASSUME NEW d \in transfer'
                 PROVE  sel'.fds[selected'[d]].handler = "mail"
                        /\ sel'.fds[selected'[d]].data = d
    OBVIOUS
  <2>2. d \in transfer /\ d # c /\ selected'[d] = selected[d] /\ selected[d] \in Fds
    BY <1>2, <1>4, <2>1
  <2>3. sel.fds[selected[d]].handler = "mail" /\ sel.fds[selected[d]].data = d
    BY <2>2 DEF Owners
  <2>4. selected[d] # c
    BY <1>2, <2>3
  <2>5. selected[c] # 0 => selected[d] # selected[c]
    BY <1>2, <2>2, <2>3 DEF Owners
  <2> QED BY <2>2, <2>3, <2>4, <2>5
<1>13. \A d \in Fds : selected'[d] # 0 =>
            /\ selected'[d] \in open'
            /\ \/ sel'.fds[selected'[d]].handler = "unused"
               \/ sel'.fds[selected'[d]].handler = "mail" /\ sel'.fds[selected'[d]].data = d
  <2>1. SUFFICES ASSUME NEW d \in Fds, selected'[d] # 0
                 PROVE  /\ selected'[d] \in open'
                        /\ \/ sel'.fds[selected'[d]].handler = "unused"
                           \/ /\ sel'.fds[selected'[d]].handler = "mail"
                              /\ sel'.fds[selected'[d]].data = d
    OBVIOUS
  <2>2. d # c /\ selected'[d] = selected[d] /\ selected[d] # 0 /\ selected[d] \in Fds
    BY <1>4, <2>1
  <2>3. /\ selected[d] \in open
        /\ \/ sel.fds[selected[d]].handler = "unused"
           \/ sel.fds[selected[d]].handler = "mail" /\ sel.fds[selected[d]].data = d
    BY <2>2 DEF Owners
  <2>4. selected[d] # c
    BY <1>2, <2>3
  <2> QED BY <1>1, <2>2, <2>3, <2>4
<1> QED BY <1>7, <1>8, <1>9, <1>10, <1>11, <1>12, <1>13 DEF Owners

\* A session has sent its message: the file is unregistered, and stays open.
LEMMA OwnersAfterMail ==
    ASSUME Owners, NEW c \in transfer,
           \A x \in Fds :
                /\ x # selected[c] => /\ sel'.fds[x].handler = sel.fds[x].handler
                                      /\ sel'.fds[x].data = sel.fds[x].data
                /\ x = selected[c] => sel'.fds[x] = Unused,
           transfer' = transfer \ {c}, UNCHANGED <<open, selected>>
    PROVE  Owners'
<1>1. Unused.handler = "unused"
  BY DEF Unused
<1>2. c \in Fds /\ c \in Sessions /\ transfer \subseteq Fds
  BY DEF Sessions, Owners
<1>3. \A x \in Fds : selected[x] \in Fds
  BY DEF Owners
<1>4. sel.fds[selected[c]].handler = "mail" /\ sel.fds[selected[c]].data = c
  BY DEF Owners
<1>5. Sessions' = Sessions
  BY <1>1, <1>4 DEF Sessions
<1>6. open' \subseteq Fds /\ selected' \in [Fds -> Fds] /\ transfer' \subseteq Sessions'
      /\ Passive \cup Other \subseteq open'
  BY <1>5 DEF Owners
<1>7. \A f \in Fds : Used(sel', f) => f \in open' \ Other
  BY <1>1 DEF Owners, Used
<1>8. \A f \in Fds : sel'.fds[f].handler = "passive" <=> f \in Passive
  BY <1>1, <1>4 DEF Owners
<1>9. \A f \in Fds : sel'.fds[f].handler \in {"pop3", "monitor"} => sel'.fds[f].data = f
  BY <1>1 DEF Owners
<1>10. \A f \in Fds : sel'.fds[f].handler = "mail" =>
            sel'.fds[f].data \in transfer' /\ selected'[sel'.fds[f].data] = f
  BY <1>1 DEF Owners
<1>11. \A d \in transfer' :
            sel'.fds[selected'[d]].handler = "mail" /\ sel'.fds[selected'[d]].data = d
  BY <1>2, <1>3, <1>4 DEF Owners
<1>12. \A d \in Fds : selected'[d] # 0 =>
            /\ selected'[d] \in open'
            /\ \/ sel'.fds[selected'[d]].handler = "unused"
               \/ sel'.fds[selected'[d]].handler = "mail" /\ sel'.fds[selected'[d]].data = d
  BY <1>1, <1>3 DEF Owners
<1> QED BY <1>6, <1>7, <1>8, <1>9, <1>10, <1>11, <1>12 DEF Owners

-----------------------------------------------------------------------------
(* The steps. *)

\* The table the server starts with.
LEMMA InitIInv == ASSUME Roomy, Init PROVE IInv
<1> DEFINE t0 == [fds |-> [f \in Fds |-> Unused], fd_size |-> 0, max_fd |-> 0,
                  master_r |-> {}, master_w |-> {}]
           item == [handler |-> "passive", interest |-> {"READ"}, data |-> 0]
           largest == IF Passive = {} THEN 0
                      ELSE CHOOSE f \in Passive : \A g \in Passive : g <= f
<1>1. /\ 0 \in Other /\ Passive \cap Other = {}
      /\ MAX_SOCKS \in Nat /\ Passive \subseteq Fds /\ Other \subseteq Fds
  BY SelectorOK DEF SelectorAssumption
<1>2. selector_new = [t0 EXCEPT !.fd_size = next_capacity(MAX_SOCKS),
                                !.fds = [f \in Fds |-> Unused]]
  <2>1. ~(MAX_SOCKS < 0) /\ \A f \in Fds : ~(f < 0)
    BY <1>1, Constants DEF Fds
  <2>2. [f \in Fds |-> IF f < 0 THEN t0.fds[f] ELSE Unused] = [f \in Fds |-> Unused]
    BY <2>1
  <2>3. t0.fd_size = 0
    OBVIOUS
  <2> QED BY <2>1, <2>2, <2>3, Zenon DEF selector_new, ensure_capacity
<1>3. largest \in Fds /\ \A g \in Passive : g <= largest
  <2>1. CASE Passive = {}
    BY <2>1, Constants
  <2>2. CASE Passive # {}
    <3>1. Passive \subseteq Nat /\ \A x \in Passive : x <= MaxFd
      BY <1>1, Constants DEF Fds
    <3>2. \E m \in Passive : \A x \in Passive : x <= m
      BY <2>2, <3>1, Constants, Largest
    <3> QED BY <1>1, <2>2, <3>2
  <2> QED BY <2>1, <2>2
<1>4. item \in Item
  BY Constants DEF Item, Ops
<1>5. sel = [fds |-> [f \in Fds |-> IF f \in Passive THEN item ELSE Unused],
             fd_size |-> next_capacity(MAX_SOCKS), max_fd |-> largest,
             master_r |-> Passive, master_w |-> {}]
  BY <1>2 DEF Init
<1> HIDE DEF largest
<1>6. \A f \in Fds : sel.fds[f] = IF f \in Passive THEN item ELSE Unused
  BY <1>5
<1>7. Unused.handler = "unused" /\ Unused.interest = {}
  BY DEF Unused
<1>8. TableInv(sel)
  <2>1. sel \in Tables
    BY <1>1, <1>3, <1>4, <1>5, Constants DEF Tables, Roomy
  <2>2. \A f \in Fds : Used(sel, f) <=> f \in Passive
    BY <1>6, <1>7 DEF Used
  <2>3. \A f \in Fds : f \in sel.master_r <=> "READ" \in sel.fds[f].interest
    BY <1>5, <1>6, <1>7
  <2>4. \A f \in Fds : f \in sel.master_w <=> "WRITE" \in sel.fds[f].interest
    BY <1>5, <1>6, <1>7
  <2>5. sel.fd_size = next_capacity(MAX_SOCKS) /\ sel.max_fd = largest
    BY <1>5
  <2>6. \A f \in Fds : ~Used(sel, f) => sel.fds[f] = Unused
    BY <1>6, <2>2
  <2> QED BY <1>3, <2>1, <2>2, <2>3, <2>4, <2>5, <2>6 DEF TableInv
<1>9. Owners
  <2>1. /\ open = Passive \cup Other /\ selected = [f \in Fds |-> 0] /\ transfer = {}
    BY DEF Init
  <2>2. \A f \in Fds : sel.fds[f].handler = IF f \in Passive THEN "passive" ELSE "unused"
    BY <1>6, <1>7
  <2> QED BY <1>1, <2>1, <2>2, Constants DEF Owners, Used
<1>10. LoopInv
  BY Constants DEF Init, LoopInv, InLoop, Fds
<1> QED BY <1>8, <1>9, <1>10 DEF IInv

\* A callback that changes interests only.
LEMMA InterestIInv ==
    ASSUME IInv, ~\E p \in Passive : i <= p, InLoop, TableInv(sel'), SameItems(sel, sel'),
           Advance, seen' = {f \in seen : Used(sel', f)}, UNCHANGED <<open, selected, transfer>>
    PROVE  IInv'
<1>1. LoopInv'
  BY LoopAfterSession DEF IInv, SameItems
<1> QED BY <1>1, OwnersAfterInterest DEF IInv

\* pop3_done.
LEMMA DoneIInv ==
    ASSUME IInv, ~\E p \in Passive : i <= p, InLoop, NEW c \in Sessions, pop3_done(c)
    PROVE  IInv'
<1> DEFINE t == IF selected[c] # 0 THEN selector_unregister_fd(sel, selected[c]) ELSE sel
<1>1. /\ sel' = selector_unregister_fd(t, c) /\ seen' = {f \in seen : Used(sel', f)} /\ Advance
      /\ open' = open \ {c} /\ selected' = [selected EXCEPT ![c] = 0]
      /\ transfer' = transfer \ {c}
  BY DEF pop3_done, Called
<1>2. c \in Fds /\ selected[c] \in Fds
  BY DEF IInv, Owners, Sessions
<1>3. sel \in Tables /\ sel.fds \in [Fds -> Item]
  BY DEF IInv, TableInv, Tables
<1>4. TableInv(t) /\ t.fds = IF selected[c] # 0 THEN [sel.fds EXCEPT ![selected[c]] = Unused]
                                                ELSE sel.fds
  BY <1>2, UnregisterKeeps DEF IInv
<1> HIDE DEF t
<1>5. TableInv(sel') /\ sel'.fds = [t.fds EXCEPT ![c] = Unused]
  BY <1>1, <1>2, <1>4, UnregisterKeeps
<1>6. \A x \in Fds : sel'.fds[x] = IF x = c \/ (selected[c] # 0 /\ x = selected[c])
                                   THEN Unused ELSE sel.fds[x]
  BY <1>2, <1>3, <1>4, <1>5
<1>7. Owners'
  BY <1>1, <1>6, OwnersAfterDone DEF IInv
<1>8. \A f \in Fds : sel'.fds[f].handler \in {sel.fds[f].handler, "unused", "mail"}
  BY <1>6 DEF Unused
<1>9. LoopInv'
  BY <1>1, <1>5, <1>8, LoopAfterSession DEF IInv
<1> QED BY <1>5, <1>7, <1>9 DEF IInv

\* pop3_passive_accept.
LEMMA AcceptIInv == ASSUME Roomy, IInv, pop3_passive_accept PROVE IInv'
<1> DEFINE item == [handler |-> "pop3", interest |-> {"WRITE"}, data |-> Lowest]
<1>1. /\ Ready("READ") /\ sel.fds[i].handler = "passive" /\ Free # {}
      /\ sel' \in selector_register(sel, Lowest, "pop3", {"WRITE"}, Lowest)
      /\ seen' = {f \in seen : Used(sel', f)} /\ Advance
      /\ open' = IF sel'.fds[Lowest].handler = "pop3" THEN open \cup {Lowest} ELSE open
      /\ selected' = [selected EXCEPT ![Lowest] = 0] /\ transfer' = transfer
  BY DEF pop3_passive_accept, Called
<1>2. Lowest \in Fds /\ Lowest \notin open /\ ~Used(sel, Lowest)
  BY <1>1, LowestIsFree DEF IInv
<1>3. TableInv(sel') /\ sel'.fds = [sel.fds EXCEPT ![Lowest] = item]
  <2>1. {"WRITE"} \in SUBSET Ops /\ "pop3" \in {"passive", "pop3", "mail", "monitor"}
    BY DEF Ops
  <2>2. Registered(sel, Lowest, "pop3", {"WRITE"}, Lowest, sel')
    BY <1>1, <1>2, <2>1, RegisterKeeps DEF IInv
  <2> QED BY <1>2, <2>2 DEF Registered
<1>4. sel.fds \in [Fds -> Item]
  BY DEF IInv, TableInv, Tables
<1>5. \A x \in Fds : sel'.fds[x] = IF x = Lowest THEN item ELSE sel.fds[x]
  BY <1>2, <1>3, <1>4
<1>6. Owners'
  <2>1. open' = open \cup {Lowest}
    BY <1>1, <1>2, <1>5
  <2> QED BY <1>1, <1>5, <2>1, OwnersAfterAccept DEF IInv
<1>7. InLoop /\ i \in Passive
  <2>1. "READ" \in Ops /\ sel.fds[i].handler # "unused"
    BY <1>1 DEF Ops
  <2>2. InLoop /\ i \in Fds
    BY <1>1, <2>1, KeyFacts DEF IInv
  <2> QED BY <1>1, <2>2 DEF IInv, Owners
<1>8. \A x \in Fds : Used(sel, x) => Used(sel', x)
  BY <1>5 DEF Used
<1>9. LoopInv'
  BY <1>1, <1>7, <1>8, LoopAfterAccept DEF IInv
<1> QED BY <1>3, <1>6, <1>9 DEF IInv

\* monitor_passive_accept.
LEMMA AdminIInv == ASSUME Roomy, IInv, monitor_passive_accept PROVE IInv'
<1> DEFINE item == [handler |-> "monitor", interest |-> {"READ"}, data |-> Lowest]
<1>1. /\ Ready("READ") /\ sel.fds[i].handler = "passive" /\ UNCHANGED <<selected, transfer>>
      /\ seen' = {f \in seen : Used(sel', f)} /\ Advance
  BY DEF monitor_passive_accept, Called
<1>2. InLoop /\ i \in Passive
  <2>1. "READ" \in Ops /\ sel.fds[i].handler # "unused"
    BY <1>1 DEF Ops
  <2>2. InLoop /\ i \in Fds
    BY <1>1, <2>1, KeyFacts DEF IInv
  <2> QED BY <1>1, <2>2 DEF IInv, Owners
<1>3. CASE /\ Free # {}
           /\ sel' \in selector_register(sel, Lowest, "monitor", {"READ"}, Lowest)
           /\ open' = IF sel'.fds[Lowest].handler = "monitor" THEN open \cup {Lowest} ELSE open
  <2>1. Lowest \in Fds /\ Lowest \notin open /\ ~Used(sel, Lowest)
    BY <1>3, LowestIsFree DEF IInv
  <2>2. TableInv(sel') /\ sel'.fds = [sel.fds EXCEPT ![Lowest] = item]
    <3>1. {"READ"} \in SUBSET Ops /\ "monitor" \in {"passive", "pop3", "mail", "monitor"}
      BY DEF Ops
    <3>2. Registered(sel, Lowest, "monitor", {"READ"}, Lowest, sel')
      BY <1>3, <2>1, <3>1, RegisterKeeps DEF IInv
    <3> QED BY <2>1, <3>2 DEF Registered
  <2>3. sel.fds \in [Fds -> Item]
    BY DEF IInv, TableInv, Tables
  <2>4. \A x \in Fds : sel'.fds[x] = IF x = Lowest THEN item ELSE sel.fds[x]
    BY <2>1, <2>2, <2>3
  <2>5. open' = open \cup {Lowest}
    BY <1>3, <2>1, <2>4
  <2>6. Owners'
    BY <1>1, <1>3, <2>4, <2>5, OwnersAfterAdmin DEF IInv
  <2>7. \A x \in Fds : Used(sel, x) => Used(sel', x)
    BY <2>4 DEF Used
  <2>8. LoopInv'
    BY <1>1, <1>2, <2>7, LoopAfterAccept DEF IInv
  <2> QED BY <2>2, <2>6, <2>8 DEF IInv
<1>4. CASE sel' = sel /\ open' = open
  <2>1. LoopInv'
    BY <1>1, <1>2, <1>4, LoopAfterAccept DEF IInv
  <2>2. SameItems(sel, sel')
    BY <1>4 DEF SameItems
  <2> QED BY <1>1, <1>4, <2>1, <2>2, OwnersAfterInterest DEF IInv
<1>5. \/ /\ Free # {}
         /\ sel' \in selector_register(sel, Lowest, "monitor", {"READ"}, Lowest)
         /\ open' = IF sel'.fds[Lowest].handler = "monitor" THEN open \cup {Lowest} ELSE open
      \/ sel' = sel /\ open' = open
  BY DEF monitor_passive_accept, Called
<1> QED BY <1>3, <1>4, <1>5

\* monitor_end.
LEMMA EndIInv ==
    ASSUME IInv, ~\E p \in Passive : i <= p, InLoop, NEW c \in Admins, monitor_end(c)
    PROVE  IInv'
<1>1. /\ sel' = selector_unregister_fd(sel, c)
      /\ seen' = {f \in seen : Used(sel', f)} /\ Advance
      /\ open' = open \ {c} /\ UNCHANGED <<selected, transfer>>
  BY DEF monitor_end, Called
<1>2. c \in Fds
  BY DEF Admins
<1>3. TableInv(sel') /\ sel'.fds = [sel.fds EXCEPT ![c] = Unused]
  BY <1>1, <1>2, UnregisterKeeps DEF IInv
<1>4. sel.fds \in [Fds -> Item]
  BY DEF IInv, TableInv, Tables
<1>5. \A x \in Fds : sel'.fds[x] = IF x = c THEN Unused ELSE sel.fds[x]
  BY <1>2, <1>3, <1>4
<1>6. Owners'
  BY <1>1, <1>5, OwnersAfterEnd DEF IInv
<1>7. \A f \in Fds : sel'.fds[f].handler \in {sel.fds[f].handler, "unused", "mail"}
  BY <1>5 DEF Unused
<1>8. LoopInv'
  BY <1>1, <1>3, <1>7, LoopAfterSession DEF IInv
<1> QED BY <1>3, <1>6, <1>8 DEF IInv

\* client_read of RETR.
LEMMA RetrIInv ==
    ASSUME Roomy, IInv, ~\E p \in Passive : i <= p, InLoop, NEW c \in Sessions,
           client_read_retr(c)
    PROVE  IInv'
<1> DEFINE t == selector_set_interest(sel, c, {"WRITE"})
<1>1. /\ Free # {} /\ c \notin transfer
      /\ sel' \in selector_register(t, Lowest, "mail", {"READ"}, c)
      /\ seen' = {f \in seen : Used(sel', f)} /\ Advance
      /\ open' = open \cup {Lowest} /\ selected' = [selected EXCEPT ![c] = Lowest]
      /\ transfer' = transfer \cup {c}
  BY DEF client_read_retr, Called
<1>2. c \in Fds /\ {"WRITE"} \in SUBSET Ops
  BY DEF Sessions, Ops
<1>3. TableInv(t) /\ SameItems(sel, t)
  BY <1>2, SetInterestKeeps DEF IInv
<1> HIDE DEF t
<1>4. Lowest \in Fds /\ ~Used(sel, Lowest)
  BY <1>1, LowestIsFree DEF IInv
<1>5. ~Used(t, Lowest)
  BY <1>3, <1>4 DEF SameItems, Used
<1>6. /\ TableInv(sel')
      /\ sel'.fds = [t.fds EXCEPT ![Lowest] =
                        [handler |-> "mail", interest |-> {"READ"}, data |-> c]]
  <2>1. {"READ"} \in SUBSET Ops /\ "mail" \in {"passive", "pop3", "mail", "monitor"}
    BY DEF Ops
  <2>2. Registered(t, Lowest, "mail", {"READ"}, c, sel')
    BY <1>1, <1>2, <1>3, <1>4, <2>1, RegisterKeeps
  <2> QED BY <1>5, <2>2 DEF Registered
<1>7. t.fds \in [Fds -> Item]
  BY <1>3 DEF TableInv, Tables
<1>8. \A x \in Fds :
          /\ x # Lowest => /\ sel'.fds[x].handler = sel.fds[x].handler
                           /\ sel'.fds[x].data = sel.fds[x].data
          /\ x = Lowest => sel'.fds[x].handler = "mail" /\ sel'.fds[x].data = c
  BY <1>3, <1>4, <1>5, <1>6, <1>7 DEF SameItems
<1>9. Owners'
  BY <1>1, <1>8, OwnersAfterRetr DEF IInv
<1>10. \A f \in Fds : sel'.fds[f].handler \in {sel.fds[f].handler, "unused", "mail"}
  BY <1>8
<1>11. LoopInv'
  BY <1>1, <1>6, <1>10, LoopAfterSession DEF IInv
<1> QED BY <1>6, <1>9, <1>11 DEF IInv

\* mail_write with the terminator queued.
LEMMA MailDoneIInv ==
    ASSUME IInv, ~\E p \in Passive : i <= p, InLoop, NEW c \in Sessions, mail_write_done(c)
    PROVE  IInv'
<1>1. /\ c \in transfer /\ transfer' = transfer \ {c} /\ UNCHANGED <<open, selected>>
      /\ seen' = {f \in seen : Used(sel', f)} /\ Advance
  BY DEF mail_write_done, Called
<1>2. PICK ops \in {{"READ"}, sel.fds[i].interest} :
         sel' = selector_unregister_fd(selector_set_interest(sel, i, ops), selected[c])
  BY DEF mail_write_done, Called
<1> DEFINE t == selector_set_interest(sel, i, ops)
<1>3. c \in Fds /\ i \in Fds /\ selected[c] \in Fds
  BY DEF Sessions, IInv, LoopInv, Owners
<1>4. ops \in SUBSET Ops
  BY <1>2, <1>3 DEF IInv, TableInv, Tables, Item, Ops
<1>5. TableInv(t) /\ SameItems(sel, t)
  BY <1>3, <1>4, SetInterestKeeps DEF IInv
<1>6. sel' = selector_unregister_fd(t, selected[c])
  BY <1>2
<1> HIDE DEF t
<1>7. TableInv(sel') /\ sel'.fds = [t.fds EXCEPT ![selected[c]] = Unused]
  BY <1>3, <1>5, <1>6, UnregisterKeeps
<1>8. t.fds \in [Fds -> Item]
  BY <1>5 DEF TableInv, Tables
<1>9. \A x \in Fds :
          /\ x # selected[c] => /\ sel'.fds[x].handler = sel.fds[x].handler
                                /\ sel'.fds[x].data = sel.fds[x].data
          /\ x = selected[c] => sel'.fds[x] = Unused
  BY <1>3, <1>5, <1>7, <1>8 DEF SameItems
<1>10. Owners'
  BY <1>1, <1>9, OwnersAfterMail DEF IInv
<1>11. \A f \in Fds : sel'.fds[f].handler \in {sel.fds[f].handler, "unused", "mail"}
  BY <1>9 DEF Unused
<1>12. LoopInv'
  BY <1>1, <1>7, <1>11, LoopAfterSession DEF IInv
<1> QED BY <1>7, <1>10, <1>12 DEF IInv

\* The callback of a session runs in the loop, after the listening sockets.
LEMMA KeyOfSession ==
    ASSUME IInv, NEW c, NEW op \in Ops, Key(c, op)
    PROVE  InLoop /\ i \in Fds /\ ~\E p \in Passive : i <= p
<1>1. Ready(op) /\ sel.fds[i].handler \in {"pop3", "mail"}
  BY DEF Key
<1>2. InLoop /\ i \in Fds
  BY <1>1, KeyFacts DEF IInv
<1> QED BY <1>1, <1>2, SessionsComeLast DEF IInv

\* selector_set_interest of a callback, or nothing.
LEMMA SetIInv ==
    ASSUME IInv, ~\E p \in Passive : i <= p, InLoop, NEW f \in Fds, NEW ops \in SUBSET Ops,
           Called({sel, selector_set_interest(sel, f, ops)}),
           UNCHANGED <<open, selected, transfer>>
    PROVE  IInv'
<1>1. /\ sel' = sel \/ sel' = selector_set_interest(sel, f, ops)
      /\ seen' = {x \in seen : Used(sel', x)} /\ Advance
  BY DEF Called
<1>2. TableInv(sel') /\ SameItems(sel, sel')
  <2>1. CASE sel' = sel
    BY <2>1 DEF IInv, SameItems
  <2>2. CASE sel' = selector_set_interest(sel, f, ops)
    BY <2>2, SetInterestKeeps DEF IInv
  <2> QED BY <1>1, <2>1, <2>2
<1> QED BY <1>1, <1>2, InterestIInv

\* In mail_write the file is registered already, so registering it again does nothing.
LEMMA MailIInv ==
    ASSUME Roomy, IInv, NEW c \in Sessions, Key(c, "WRITE"), c \in transfer,
           LET t == selector_set_interest(sel, i, {"READ"})
           IN  Called({sel, t} \cup selector_register(t, selected[c], "mail", {"READ"}, c)),
           UNCHANGED <<open, selected, transfer>>
    PROVE  IInv'
<1> DEFINE t == selector_set_interest(sel, i, {"READ"})
<1>1. /\ sel' = sel \/ sel' = t \/ sel' \in selector_register(t, selected[c], "mail", {"READ"}, c)
      /\ seen' = {x \in seen : Used(sel', x)} /\ Advance
  BY DEF Called
<1>2. "WRITE" \in Ops /\ {"READ"} \in SUBSET Ops /\ "mail" \in {"passive", "pop3", "mail", "monitor"}
  BY DEF Ops
<1>3. InLoop /\ i \in Fds /\ ~\E p \in Passive : i <= p
  BY <1>2, KeyOfSession
<1>4. c \in Fds /\ selected[c] \in Fds /\ sel.fds[selected[c]].handler = "mail"
  BY DEF IInv, Owners, Sessions
<1>5. TableInv(t) /\ SameItems(sel, t)
  BY <1>2, <1>3, SetInterestKeeps DEF IInv
<1> HIDE DEF t
<1>6. TableInv(sel') /\ SameItems(sel, sel')
  <2>1. CASE sel' = sel
    BY <2>1 DEF IInv, SameItems
  <2>2. CASE sel' = t
    BY <1>5, <2>2
  <2>3. CASE sel' \in selector_register(t, selected[c], "mail", {"READ"}, c)
    <3>1. Registered(t, selected[c], "mail", {"READ"}, c, sel')
      BY <1>2, <1>4, <1>5, <2>3, RegisterKeeps
    <3>2. Used(t, selected[c])
      BY <1>4, <1>5 DEF SameItems, Used
    <3> QED BY <1>5, <3>1, <3>2 DEF Registered, SameItems
  <2> QED BY <1>1, <2>1, <2>2, <2>3
<1> QED BY <1>1, <1>3, <1>6, InterestIInv

\* Every step but those of selector_destroy keeps the invariant.
LEMMA NextIInv == ASSUME Roomy, IInv, [Next]_vars, ~selector_destroy PROVE IInv'
<1>1. CASE selector_select \/ Timeout
  <2>1. UNCHANGED <<sel, open, selected, transfer>>
    BY <1>1 DEF selector_select, Timeout, Reported
  <2>2. LoopInv'
    BY <1>1, LoopAfterSelect DEF IInv
  <2>3. SameItems(sel, sel')
    BY <2>1 DEF SameItems
  <2> QED BY <2>1, <2>2, <2>3, OwnersAfterInterest DEF IInv
<1>2. CASE Skip
  <2>1. UNCHANGED <<sel, open, selected, transfer>>
    BY <1>2 DEF Skip
  <2>2. LoopInv'
    BY <1>2, LoopAfterSkip DEF IInv
  <2>3. SameItems(sel, sel')
    BY <2>1 DEF SameItems
  <2> QED BY <2>1, <2>2, <2>3, OwnersAfterInterest DEF IInv
<1>3. CASE pop3_passive_accept
  BY <1>3, AcceptIInv
<1>4. CASE AcceptFails
  <2>1. UNCHANGED <<sel, slave_r, slave_w, i, n, open, selected, transfer, seen>> /\ pc' = "dead"
    BY <1>4 DEF AcceptFails
  <2>2. LoopInv'
    BY <2>1 DEF IInv, LoopInv, InLoop, Used
  <2>3. SameItems(sel, sel')
    BY <2>1 DEF SameItems
  <2> QED BY <2>1, <2>2, <2>3, OwnersAfterInterest DEF IInv
<1>5. CASE UNCHANGED vars \/ sigterm_handler \/ Interrupted
  <2>1. /\ UNCHANGED <<sel, slave_r, slave_w, n, open, selected, transfer, seen>>
        /\ \/ UNCHANGED <<pc, i>>
           \/ pc' = "destroy" /\ i' = 0
    BY <1>5 DEF vars, sigterm_handler, Interrupted
  <2>2. 0 \in Fds /\ (n \in Fds => 0 <= n)
    BY Constants DEF Fds
  <2>3. LoopInv'
    BY <2>1, <2>2 DEF IInv, LoopInv, InLoop, Used
  <2>4. SameItems(sel, sel')
    BY <2>1 DEF SameItems
  <2> QED BY <2>1, <2>3, <2>4, OwnersAfterInterest DEF IInv
<1>6. ASSUME NEW c \in Sessions,
             \/ client_read(c) \/ client_read_retr(c) \/ client_write(c)
             \/ filesystem_read(c) \/ mail_write(c) \/ mail_write_done(c)
      PROVE  IInv'
  <2>1. "READ" \in Ops /\ "WRITE" \in Ops /\ {"READ"} \in SUBSET Ops /\ {"WRITE"} \in SUBSET Ops
    BY DEF Ops
  <2>2. PICK op \in Ops : Key(c, op)
    BY <1>6, <2>1 DEF client_read, client_read_retr, client_write, filesystem_read,
                      mail_write, mail_write_done
  <2>3. InLoop /\ i \in Fds /\ ~\E p \in Passive : i <= p
    BY <2>2, KeyOfSession
  <2>4. c \in Fds
    BY DEF Sessions
  <2>5. CASE pop3_done(c)
    BY <2>3, <2>5, DoneIInv
  <2>6. CASE client_read(c) /\ ~pop3_done(c)
    <3>1. /\ Called({sel, selector_set_interest(sel, c, {"WRITE"})})
          /\ UNCHANGED <<open, selected, transfer>>
      BY <2>6 DEF client_read
    <3> QED BY <2>1, <2>3, <2>4, <3>1, SetIInv
  <2>7. CASE client_read_retr(c)
    BY <2>3, <2>7, RetrIInv
  <2>8. CASE client_write(c) /\ ~pop3_done(c)
    <3>1. /\ Called({sel, selector_set_interest(sel, c, {"READ"})})
          /\ UNCHANGED <<open, selected, transfer>>
      BY <2>8 DEF client_write
    <3> QED BY <2>1, <2>3, <2>4, <3>1, SetIInv
  <2>9. CASE filesystem_read(c) /\ ~pop3_done(c)
    <3>1. /\ Called({selector_set_interest(sel, i, {"WRITE"})})
          /\ UNCHANGED <<open, selected, transfer>>
      BY <2>9 DEF filesystem_read
    <3>2. Called({sel, selector_set_interest(sel, i, {"WRITE"})})
      BY <3>1 DEF Called
    <3> QED BY <2>1, <2>3, <3>1, <3>2, SetIInv
  <2>10. CASE mail_write(c) /\ ~pop3_done(c)
    BY <2>10, MailIInv DEF mail_write
  <2>11. CASE mail_write_done(c)
    BY <2>3, <2>11, MailDoneIInv
  <2> QED BY <1>6, <2>5, <2>6, <2>7, <2>8, <2>9, <2>10, <2>11
<1>7. CASE monitor_passive_accept
  BY <1>7, AdminIInv
<1>8. ASSUME NEW c \in Admins, monitor_read(c) \/ monitor_write(c)
      PROVE  IInv'
  <2>1. "READ" \in Ops /\ "WRITE" \in Ops /\ {"WRITE"} \in SUBSET Ops
    BY DEF Ops
  <2>2. c \in Fds /\ sel.fds[c].handler = "monitor"
    BY DEF Admins
  <2>3. PICK op \in Ops : Ready(op) /\ i = c
    BY <1>8, <2>1 DEF monitor_read, monitor_write
  <2>4. InLoop /\ ~\E p \in Passive : i <= p
    BY <2>2, <2>3, KeyFacts, SessionsComeLast DEF IInv
  <2>5. CASE monitor_end(c)
    BY <2>4, <2>5, EndIInv
  <2>6. CASE /\ Called({sel, selector_set_interest(sel, c, {"WRITE"})})
             /\ UNCHANGED <<open, selected, transfer>>
    BY <2>1, <2>2, <2>4, <2>6, SetIInv
  <2>7. \/ monitor_end(c)
        \/ /\ Called({sel, selector_set_interest(sel, c, {"WRITE"})})
           /\ UNCHANGED <<open, selected, transfer>>
    BY <1>8 DEF monitor_read, monitor_write, Called
  <2> QED BY <2>5, <2>6, <2>7
<1> QED BY <1>1, <1>2, <1>3, <1>4, <1>5, <1>6, <1>7, <1>8 DEF Next, Loop, Callback, Ended

-----------------------------------------------------------------------------
(* The end of main. *)

\* selector_destroy has unregistered the items below i, in the end all of them.
EndInv ==
    /\ TableInv(sel)
    /\ pc \in {"destroy", "stopped"}
    /\ n \in Fds /\ i \in 0..MaxFd + 1
    /\ slave_r \subseteq Fds /\ slave_w \subseteq Fds
    /\ open \subseteq Fds /\ selected \in [Fds -> Fds]
    /\ transfer \subseteq Fds /\ seen \subseteq Fds
    /\ \A f \in Fds : Used(sel, f) => f \in open /\ f >= i /\ pc = "destroy"

\* The loop was left: selector_destroy starts.
LEMMA EndStarts == ASSUME IInv, pc = "destroy" PROVE EndInv
<1>1. i = 0 /\ n \in Fds /\ slave_r \subseteq Fds /\ slave_w \subseteq Fds /\ seen \subseteq Fds
  BY DEF IInv, LoopInv
<1>2. \A f \in Fds : f >= 0
  BY Constants DEF Fds
<1>3. 0 \in 0..MaxFd + 1
  BY Constants
<1> QED BY <1>1, <1>2, <1>3 DEF IInv, EndInv, Owners, Sessions

\* A step of selector_destroy unregisters item i.
LEMMA DestroyStep == ASSUME Roomy, EndInv, selector_destroy PROVE EndInv'
<1>1. /\ pc = "destroy" /\ UNCHANGED <<slave_r, slave_w, n, selected, transfer, seen>>
      /\ IF i < sel.fd_size /\ i \in Fds
         THEN /\ sel' = selector_unregister_fd(sel, i) /\ i' = i + 1
              /\ UNCHANGED <<pc, open>>
         ELSE pc' = "stopped" /\ open' = open \ Passive /\ UNCHANGED <<sel, i>>
  BY DEF selector_destroy
<1>2. MaxFd \in Nat /\ i \in 0..MaxFd + 1
  BY Constants DEF EndInv
<1>3. CASE i < sel.fd_size /\ i \in Fds
  <2>1. /\ sel' = selector_unregister_fd(sel, i) /\ i' = i + 1 /\ UNCHANGED <<pc, open>>
    BY <1>1, <1>3
  <2>2. TableInv(sel') /\ sel'.fds = [sel.fds EXCEPT ![i] = Unused]
    BY <1>3, <2>1, UnregisterKeeps DEF EndInv
  <2>3. sel.fds \in [Fds -> Item] /\ Unused.handler = "unused"
    BY DEF EndInv, TableInv, Tables, Unused
  <2>4. \A f \in Fds : Used(sel', f) => f # i /\ Used(sel, f)
    BY <1>3, <2>2, <2>3 DEF Used
  <2>5. i' \in 0..MaxFd + 1
    BY <1>2, <1>3, <2>1 DEF Fds
  <2>6. \A f \in Fds : f # i /\ f >= i => f >= i'
    BY <1>2, <1>3, <2>1 DEF Fds
  <2> QED BY <1>1, <2>1, <2>2, <2>4, <2>5, <2>6 DEF EndInv
<1>4. CASE ~(i < sel.fd_size /\ i \in Fds)
  <2>1. pc' = "stopped" /\ open' = open \ Passive /\ sel' = sel /\ i' = i
    BY <1>1, <1>4
  <2>2. i = MaxFd + 1
    <3>1. sel.fd_size \in Nat /\ MaxFd < sel.fd_size
      BY DEF EndInv, TableInv, Tables, Roomy
    <3> QED BY <1>2, <1>4, <3>1 DEF Fds
  <2>3. \A f \in Fds : ~(f >= i)
    BY <1>2, <2>2 DEF Fds
  <2>4. \A f \in Fds : ~Used(sel', f)
    BY <2>1, <2>3 DEF EndInv
  <2> QED BY <1>1, <2>1, <2>4 DEF EndInv
<1> QED BY <1>3, <1>4

\* Nothing else happens at the end of main.
LEMMA NextEndInv == ASSUME Roomy, EndInv, [Next]_vars PROVE EndInv'
<1>1. pc \notin {"select", "read", "write"}
  BY DEF EndInv
<1>2. ~Ready("READ") /\ ~Ready("WRITE")
  BY <1>1 DEF Ready
<1>3. ~Callback
  BY <1>2 DEF Callback, pop3_passive_accept, AcceptFails, monitor_passive_accept, client_read,
              client_read_retr, client_write, filesystem_read, mail_write, mail_write_done,
              monitor_read, monitor_write, Key
<1>4. ~selector_select /\ ~Timeout /\ ~Skip /\ ~sigterm_handler /\ ~Interrupted
  BY <1>1 DEF selector_select, Timeout, Reported, Skip, sigterm_handler, Interrupted
<1>5. CASE UNCHANGED vars
  BY <1>5 DEF vars, EndInv, Used
<1>6. CASE selector_destroy
  BY <1>6, DestroyStep
<1> QED BY <1>3, <1>4, <1>5, <1>6 DEF Next, Loop, Ended

Inv == IInv \/ EndInv

\* Every step keeps one of the two.
LEMMA NextInv == ASSUME Roomy, Inv, [Next]_vars PROVE Inv'
<1>1. CASE IInv /\ ~selector_destroy
  BY <1>1, NextIInv DEF Inv
<1>2. CASE IInv /\ selector_destroy
  <2>1. EndInv
    BY <1>2, EndStarts DEF selector_destroy
  <2> QED BY <2>1, NextEndInv DEF Inv
<1>3. CASE EndInv
  BY <1>3, NextEndInv DEF Inv
<1> QED BY <1>1, <1>2, <1>3 DEF Inv

-----------------------------------------------------------------------------
(* Theorems. *)

\* The invariant holds in every behaviour, whatever sockets and files come and go.
THEOREM Invariance == Roomy => (Spec => []Inv)
<1> SUFFICES ASSUME Roomy PROVE Spec => []Inv
  OBVIOUS
<1>1. Init => Inv
  BY InitIInv DEF Inv
<1>2. Inv /\ [Next]_vars => Inv'
  BY NextInv
<1> QED BY <1>1, <1>2, PTL DEF Spec

\* done is a flag.
LEMMA DoneType == Spec => [](done \in BOOLEAN)
<1>1. Init => done \in BOOLEAN
  BY DEF Init
<1>2. [Next]_vars => done' = done \/ done' = TRUE
  BY DEF Next, Loop, Callback, Ended, vars, selector_select, Timeout, Reported, Skip,
         pop3_passive_accept, AcceptFails, monitor_passive_accept, client_read,
         client_read_retr, client_write, filesystem_read, mail_write, mail_write_done,
         monitor_read, monitor_write, monitor_end, pop3_done, Called, selector_destroy,
         sigterm_handler, Interrupted
<1>3. done \in BOOLEAN /\ [Next]_vars => (done \in BOOLEAN)'
  BY <1>2
<1> QED BY <1>1, <1>3, PTL DEF Spec

\* The variables of selector.c and its callbacks keep their types: the loops of
\* handle_iteration and selector_destroy stay within the descriptors, and so does every
\* number they hand on.
THEOREM TypeCorrect == Roomy => (Spec => []TypeOK)
<1>1. IInv /\ done \in BOOLEAN => TypeOK
  <2>1. ASSUME IInv PROVE seen \subseteq Fds /\ transfer \subseteq Fds
    BY <2>1 DEF IInv, LoopInv, Owners, Sessions
  <2>2. ASSUME IInv PROVE i \in 0..n /\ (pc = "destroy" => i \in 0..MaxFd + 1)
    BY <2>2, Constants DEF IInv, LoopInv, Fds
  <2> QED BY <2>1, <2>2 DEF IInv, TableInv, Tables, LoopInv, Owners, TypeOK
<1>2. EndInv /\ done \in BOOLEAN => TypeOK
  BY DEF EndInv, TableInv, Tables, TypeOK
<1>3. Inv /\ done \in BOOLEAN => TypeOK
  BY <1>1, <1>2 DEF Inv
<1> QED BY <1>3, Invariance, DoneType, PTL

\* max_fd and the master sets, which register, unregister and set_interest keep up to
\* date, always give select() the interests of the items.
THEOREM SelectSeesInterests == Roomy => (Spec => []WatchesInterests)
<1>1. TableInv(sel) => WatchesInterests
  <2>1. SUFFICES ASSUME TableInv(sel), NEW f \in Fds
                 PROVE  /\ "READ" \in sel.fds[f].interest
                               <=> f \in sel.master_r /\ f <= sel.max_fd
                        /\ "WRITE" \in sel.fds[f].interest
                               <=> f \in sel.master_w /\ f <= sel.max_fd
    BY DEF WatchesInterests
  <2>2. sel.fds[f].interest # {} => f <= sel.max_fd
    BY <2>1 DEF TableInv, Unused
  <2> QED BY <2>1, <2>2 DEF TableInv
<1>2. Inv => WatchesInterests
  BY <1>1 DEF Inv, IInv, EndInv
<1> QED BY <1>2, Invariance, PTL

\* pop3_done and monitor_end unregister a socket before they close it, and so does main, so
\* that select() never names a closed descriptor.
THEOREM NoClosedDescriptor == Roomy => (Spec => []NoBadDescriptor)
<1>1. Inv => NoBadDescriptor
  BY DEF Inv, IInv, EndInv, Owners, NoBadDescriptor
<1> QED BY <1>1, Invariance, PTL

\* pop3_done leaves no item behind that points to the session it frees.
THEOREM ItemsHaveOwners == Roomy => (Spec => []NoDanglingSession)
<1>1. IInv => NoDanglingSession
  BY DEF IInv, Owners, NoDanglingSession
<1>2. EndInv => NoDanglingSession
  BY DEF EndInv, NoDanglingSession, Used
<1>3. Inv => NoDanglingSession
  BY <1>1, <1>2 DEF Inv
<1> QED BY <1>3, Invariance, PTL

\* A socket is never called for a readiness that belonged to an earlier socket of that
\* number.
THEOREM EventsAreOwn == Roomy => (Spec => []SocketEventsFresh)
<1>1. IInv => SocketEventsFresh
  <2>1. SUFFICES ASSUME IInv, NEW op \in Ops, Ready(op),
                        sel.fds[i].handler \in {"pop3", "monitor", "passive"}
                 PROVE  i \in seen
    BY DEF SocketEventsFresh, Ops
  <2>2. InLoop /\ i \in slave_r \cup slave_w
    BY <2>1 DEF Ready, InLoop, Ops
  <2> QED BY <2>1, <2>2 DEF IInv, LoopInv
<1>2. EndInv => SocketEventsFresh
  BY DEF EndInv, SocketEventsFresh, Ready
<1>3. Inv => SocketEventsFresh
  BY <1>1, <1>2 DEF Inv
<1> QED BY <1>3, Invariance, PTL

\* selector_destroy reaches every item, though max_fd falls while it goes: main ends with
\* no session or connection left.
THEOREM StopClosesAll == Roomy => (Spec => []AllClosed)
<1>1. IInv => AllClosed
  BY DEF IInv, LoopInv, AllClosed
<1>2. EndInv => AllClosed
  BY DEF EndInv, AllClosed
<1>3. Inv => AllClosed
  BY <1>1, <1>2 DEF Inv
<1> QED BY <1>3, Invariance, PTL
=============================================================================
