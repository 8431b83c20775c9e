------------------------ MODULE MailTransfer_proofs ------------------------
(***************************************************************************)
(* Proofs about MailTransfer, for files of any length and buffers of any   *)
(* size.                                                                   *)
(***************************************************************************)
EXTENDS MailTransfer, WellFoundedInduction, SequenceTheorems, TLAPS

-----------------------------------------------------------------------------
(* byte_stuffer over a sequence of bytes. *)

\* f[i] is the state of the stuffer after the first i of the k first bytes of q.
RunsOver(q, st, k, f) ==
    /\ f \in [0..k -> 0..4] /\ f[0] = st
    /\ \A i \in 1..k : f[i] = byte_stuffer(q[i], f[i - 1])

\* The stuffer has five states.
LEMMA StufferType ==
    ASSUME NEW c, NEW st \in 0..4
    PROVE  byte_stuffer(c, st) \in 0..4
BY DEF byte_stuffer

\* The stuffer can run over any prefix of q.
LEMMA StufferRuns ==
    ASSUME NEW q, NEW n \in Nat, NEW st \in 0..4
    PROVE  \E f : RunsOver(q, st, n, f)
<1> DEFINE P == {k \in Nat : ~ \E f : RunsOver(q, st, k, f)}
<1>1. SUFFICES ASSUME P # {} PROVE FALSE
  OBVIOUS
<1> HIDE DEF P
<1>2. P \in SUBSET Nat
  BY DEF P
<1>3. PICK k \in P : \A m \in P : ~(<<m, k>> \in OpToRel(<, Nat))
  BY <1>1, <1>2, WFMin, NatLessThanWellFounded
<1>4. k \in Nat
  BY <1>2
<1>5. k # 0
  <2>1. RunsOver(q, st, 0, [i \in 0..0 |-> st])
    BY DEF RunsOver
  <2> QED BY <2>1 DEF P
<1>6. k - 1 \in Nat /\ k - 1 \notin P
  <2>1. k - 1 \in Nat /\ k - 1 < k
    BY <1>4, <1>5
  <2> QED BY <1>3, <1>4, <2>1 DEF OpToRel
<1>7. PICK g : RunsOver(q, st, k - 1, g)
  BY <1>6 DEF P
<1> DEFINE f == [i \in 0..k |-> IF i = k THEN byte_stuffer(q[k], g[k - 1]) ELSE g[i]]
<1>8. RunsOver(q, st, k, f)
  <2>1. byte_stuffer(q[k], g[k - 1]) \in 0..4
    BY <1>6, <1>7, StufferType DEF RunsOver
  <2>2. f \in [0..k -> 0..4] /\ f[0] = st
    BY <1>4, <1>5, <1>7, <2>1 DEF RunsOver
  <2>3. \A i \in 1..k : f[i] = byte_stuffer(q[i], f[i - 1])
    BY <1>4, <1>5, <1>7 DEF RunsOver
  <2> QED BY <2>2, <2>3 DEF RunsOver
<1> QED BY <1>8 DEF P

\* After is that run.
LEMMA AfterRuns ==
    ASSUME NEW q \in Seq(Byte), NEW st \in 0..4
    PROVE  RunsOver(q, st, Len(q), After(q, st))
<1>1. Len(q) \in Nat
  OBVIOUS
<1>2. PICK f : RunsOver(q, st, Len(q), f)
  BY <1>1, StufferRuns
<1> DEFINE F(a) == [i \in 0..Len(q) |-> IF i = 0 THEN st ELSE byte_stuffer(q[i], a[i - 1])]
<1>3. f = F(f)
  BY <1>1, <1>2 DEF RunsOver
<1>4. After(q, st) = CHOOSE a : a = F(a)
  BY DEF After
<1>5. After(q, st) = F(After(q, st))
  BY <1>3, <1>4
<1> DEFINE a == After(q, st)
           P == {i \in 0..Len(q) : a[i] # f[i]}
<1>6. P = {}
  <2> SUFFICES ASSUME P # {} PROVE FALSE
    OBVIOUS
  <2>1. P \in SUBSET Nat
    BY <1>1
  <2> HIDE DEF P
  <2>2. PICK k \in P : \A m \in P : ~(<<m, k>> \in OpToRel(<, Nat))
    BY <2>1, WFMin, NatLessThanWellFounded
  <2>3. k \in 0..Len(q) /\ k \in Nat /\ a[k] # f[k]
    BY <2>1 DEF P
  <2>4. k # 0
    BY <1>1, <1>2, <1>5, <2>3 DEF RunsOver
  <2>5. k - 1 \in Nat /\ k - 1 < k /\ k - 1 \in 0..Len(q)
    BY <1>1, <2>3, <2>4
  <2>6. a[k - 1] = f[k - 1]
    BY <2>2, <2>3, <2>5 DEF OpToRel, P
  <2>7. a[k] = byte_stuffer(q[k], a[k - 1])
    BY <1>1, <1>5, <2>3, <2>4
  <2>8. f[k] = byte_stuffer(q[k], f[k - 1])
    BY <1>1, <1>2, <2>3, <2>4 DEF RunsOver
  <2> QED BY <2>3, <2>6, <2>7, <2>8
<1>7. a = [i \in 0..Len(q) |-> a[i]]
  BY <1>5
<1>8. a = f
  BY <1>2, <1>6, <1>7 DEF RunsOver
<1> QED BY <1>2, <1>8

\* A set of natural numbers that is not empty has a least element, and Min is it.
LEMMA MinIsLeast ==
    ASSUME NEW T \in SUBSET Nat, T # {}
    PROVE  Min(T) \in T /\ \A m \in T : Min(T) <= m
<1>1. PICK n \in T : \A m \in T : ~(<<m, n>> \in OpToRel(<, Nat))
  BY WFMin, NatLessThanWellFounded
<1>2. \A m \in T : n <= m
  <2> SUFFICES ASSUME NEW m \in T, ~(n <= m) PROVE FALSE
    OBVIOUS
  <2>1. m \in Nat /\ n \in Nat /\ m < n
    OBVIOUS
  <2> QED BY <1>1, <2>1 DEF OpToRel
<1> QED BY <1>1, <1>2 DEF Min

\* The bytes that Scan looks at are the shortest prefix that ends a terminator, or all.
LEMMA ScanStops ==
    ASSUME NEW q \in Seq(Byte), NEW st \in 0..4
    PROVE  /\ Scan(q, st).ended \in BOOLEAN /\ Scan(q, st).looked \in 0..Len(q)
           /\ After(q, st)[Scan(q, st).looked] \in 0..4
           /\ ~Scan(q, st).ended => Scan(q, st).looked = Len(q)
           /\ Scan(q, st).ended =>
                /\ Scan(q, st).looked \in 1..Len(q)
                /\ Found(q[Scan(q, st).looked], After(q, st)[Scan(q, st).looked - 1])
           /\ \A i \in 1..Scan(q, st).looked - 1 : ~Found(q[i], After(q, st)[i - 1])
           /\ ~Scan(q, st).ended => \A i \in 1..Len(q) : ~Found(q[i], After(q, st)[i - 1])
<1> DEFINE ends == {i \in 1..Len(q) : Found(q[i], After(q, st)[i - 1])}
           n == Scan(q, st).looked
<1>1. /\ n = IF ends = {} THEN Len(q) ELSE Min(ends)
      /\ Scan(q, st).ended = (ends # {})
  BY DEF Scan
<1>2. Len(q) \in Nat
  OBVIOUS
<1>3. After(q, st) \in [0..Len(q) -> 0..4]
  BY AfterRuns DEF RunsOver
<1>4. ends # {} => n \in ends /\ \A m \in ends : n <= m
  <2>1. ends \in SUBSET Nat
    OBVIOUS
  <2> HIDE DEF ends, n
  <2> QED BY <1>1, <2>1, MinIsLeast
<1>5. n \in 0..Len(q) /\ (ends # {} => n \in 1..Len(q))
  BY <1>1, <1>2, <1>4
<1>6. \A i \in 1..n - 1 : i \notin ends /\ i \in 1..Len(q)
  <2>1. CASE ends = {}
    BY <1>2, <1>5, <2>1
  <2>2. CASE ends # {}
    BY <1>2, <1>4, <1>5, <2>2
  <2> QED BY <2>1, <2>2
<1>7. \A i \in 1..n - 1 : ~Found(q[i], After(q, st)[i - 1])
  BY <1>6
<1> HIDE DEF n
<1>8. ends # {} => Found(q[n], After(q, st)[n - 1])
  BY <1>4
<1>9. ends = {} => \A i \in 1..Len(q) : ~Found(q[i], After(q, st)[i - 1])
  OBVIOUS
<1> HIDE DEF ends
<1> QED BY <1>1, <1>3, <1>5, <1>7, <1>8, <1>9 DEF n

\* The k bytes of q up to the i-th are the first k of the terminator.
Seen(q, i, k) == k <= i /\ \A j \in 1..k : q[i - k + j] = Terminator[j]

\* Until the terminator is found, the state counts bytes of it that were just seen: the
\* stuffer never reports one that is not there.
LEMMA StufferIsSound ==
    ASSUME NEW q \in Seq(Byte), NEW n \in 0..Len(q),
           \A i \in 1..n : ~Found(q[i], After(q, 0)[i - 1])
    PROVE  \A i \in 0..n : Seen(q, i, After(q, 0)[i])
<1> DEFINE a == After(q, 0)
           P == {i \in 0..n : ~Seen(q, i, a[i])}
<1>0. Len(q) \in Nat /\ n \in Nat /\ n <= Len(q)
  OBVIOUS
<1>1. RunsOver(q, 0, Len(q), a)
  BY AfterRuns
<1>2. SUFFICES ASSUME P # {} PROVE FALSE
  OBVIOUS
<1>3. P \in SUBSET Nat
  BY <1>0
<1> HIDE DEF P, a
<1>4. PICK k \in P : \A m \in P : ~(<<m, k>> \in OpToRel(<, Nat))
  BY <1>2, <1>3, WFMin, NatLessThanWellFounded
<1>5. k \in 0..n /\ k \in Nat /\ ~Seen(q, k, a[k])
  BY <1>3 DEF P
<1>6. k # 0
  <2>1. a[0] = 0
    BY <1>1 DEF RunsOver
  <2>2. Seen(q, 0, 0)
    BY DEF Seen
  <2> QED BY <1>5, <2>1, <2>2
<1>7. k - 1 \in Nat /\ k - 1 < k /\ k - 1 \in 0..n /\ k \in 1..Len(q) /\ k \in 1..n
  BY <1>0, <1>5, <1>6
<1> DEFINE p == a[k - 1]
<1>8. Seen(q, k - 1, p) /\ p \in 0..4
  <2>1. Seen(q, k - 1, p)
    BY <1>4, <1>5, <1>7 DEF OpToRel, P
  <2>2. a \in [0..Len(q) -> 0..4]
    BY <1>1 DEF RunsOver
  <2> QED BY <1>0, <1>7, <2>1, <2>2
<1>9. a[k] = byte_stuffer(q[k], p)
  BY <1>1, <1>7 DEF RunsOver
<1>10. ~Found(q[k], p)
  BY <1>7 DEF a
<1> HIDE DEF p
<1>11. CASE q[k] # Terminator[p + 1]
  <2>1. a[k] = 0
    BY <1>9, <1>11 DEF byte_stuffer
  <2> QED BY <1>5, <2>1 DEF Seen
<1>12. CASE q[k] = Terminator[p + 1] /\ p = 4
  BY <1>10, <1>12 DEF Found, Terminator
<1>13. CASE q[k] = Terminator[p + 1] /\ p # 4
  <2>1. a[k] = p + 1
    BY <1>9, <1>13 DEF byte_stuffer
  <2>2. p + 1 <= k
    BY <1>5, <1>8 DEF Seen
  <2>3. ASSUME NEW j \in 1..p + 1 PROVE q[k - (p + 1) + j] = Terminator[j]
    <3>1. CASE j = p + 1
      <4>1. k - (p + 1) + j = k
        BY <1>5, <1>8, <3>1
      <4> QED BY <1>13, <3>1, <4>1
    <3>2. CASE j # p + 1
      <4>1. j \in 1..p /\ k - (p + 1) + j = (k - 1) - p + j
        BY <1>5, <1>8, <3>2
      <4> QED BY <1>8, <4>1 DEF Seen
    <3> QED BY <3>1, <3>2
  <2> QED BY <1>5, <2>1, <2>2, <2>3 DEF Seen
<1> QED BY <1>11, <1>12, <1>13

\* So a prefix at which Scan stopped ends with the terminator.
LEMMA ScanIsSound ==
    ASSUME NEW q \in Seq(Byte), Scan(q, 0).ended
    PROVE  Seen(q, Scan(q, 0).looked, 5)
<1> DEFINE n == Scan(q, 0).looked
           a == After(q, 0)
<1>1. /\ n \in 1..Len(q) /\ Found(q[n], a[n - 1])
      /\ \A i \in 1..n - 1 : ~Found(q[i], a[i - 1])
  BY ScanStops
<1> HIDE DEF n
<1>2. Len(q) \in Nat /\ n - 1 \in 0..Len(q) /\ n \in Nat /\ n - 1 \in 0..n - 1
  BY <1>1
<1>3. \A i \in 0..n - 1 : Seen(q, i, a[i])
  BY <1>1, <1>2, StufferIsSound
<1>4. Seen(q, n - 1, 4) /\ q[n] = Terminator[5]
  BY <1>1, <1>2, <1>3 DEF Found, Terminator
<1>5. 5 <= n
  BY <1>2, <1>4 DEF Seen
<1>6. ASSUME NEW j \in 1..5 PROVE q[n - 5 + j] = Terminator[j]
  <2>1. CASE j = 5
    <3>1. n - 5 + j = n
      BY <1>2, <2>1
    <3> QED BY <1>4, <2>1, <3>1
  <2>2. CASE j # 5
    <3>1. j \in 1..4 /\ n - 5 + j = (n - 1) - 4 + j
      BY <1>2, <2>2
    <3> QED BY <1>4, <3>1 DEF Seen
  <2> QED BY <2>1, <2>2
<1>7. Seen(q, n, 5)
  BY <1>5, <1>6 DEF Seen
<1> QED BY <1>7 DEF n

-----------------------------------------------------------------------------
(* The buffers. *)

Buffer == [q : Seq(Byte), read : Nat]

\* A buffer inside its array.
Sound(b) == b \in Buffer /\ Room(b) >= 0

\* What the assumption on the constants says of buffers and files.
LEMMA Sizes ==
    /\ BUFFER_SIZE \in Nat \ {0} /\ MaxInput \in Nat
    /\ \A f \in FileSet : f \in Seq(Byte)
<1>1. FileSet \subseteq Seq(Byte \ {"OK"}) /\ BUFFER_SIZE \in Nat \ {0} /\ MaxInput \in Nat
  BY TransferOK DEF TransferAssumption
<1>2. ASSUME NEW f \in FileSet PROVE f \in Seq(Byte)
  <2>1. f \in Seq(Byte \ {"OK"})
    BY <1>1
  <2> QED BY <2>1, SeqMonotonic
<1> QED BY <1>1, <1>2

\* The first k elements of a sequence, and the rest.
LEMMA Split ==
    ASSUME NEW S, NEW q \in Seq(S), NEW k \in 0..Len(q)
    PROVE  /\ SubSeq(q, 1, k) \in Seq(S) /\ Len(SubSeq(q, 1, k)) = k
           /\ \A i \in 1..k : SubSeq(q, 1, k)[i] = q[i]
           /\ SubSeq(q, k + 1, Len(q)) \in Seq(S)
           /\ Len(SubSeq(q, k + 1, Len(q))) = Len(q) - k
           /\ \A i \in 1..Len(q) - k : SubSeq(q, k + 1, Len(q))[i] = q[k + i]
           /\ SubSeq(q, 1, k) \o SubSeq(q, k + 1, Len(q)) = q
<1> DEFINE u == SubSeq(q, 1, k)
           v == SubSeq(q, k + 1, Len(q))
<1>1. Len(q) \in Nat /\ k \in Nat /\ k <= Len(q)
  OBVIOUS
<1>2. u \in Seq(S) /\ Len(u) = k /\ \A i \in 1..k : u[i] = q[i]
  BY <1>1
<1>3. v \in Seq(S) /\ Len(v) = Len(q) - k /\ \A i \in 1..Len(q) - k : v[i] = q[k + i]
  BY <1>1
<1> HIDE DEF u, v
<1>4. u \o v \in Seq(S) /\ Len(u \o v) = Len(q)
  BY <1>1, <1>2, <1>3
<1>5. ASSUME NEW i \in 1..Len(q) PROVE (u \o v)[i] = q[i]
  <2>1. CASE i <= k
    BY <1>1, <1>2, <1>3, <2>1
  <2>2. CASE ~(i <= k)
    <3>1. i - k \in 1..Len(q) - k /\ k + (i - k) = i
      BY <1>1, <2>2
    <3>2. (u \o v)[i] = v[i - k]
      BY <1>1, <1>2, <1>3, <2>2
    <3>3. v[i - k] = q[k + (i - k)]
      BY <1>3, <3>1
    <3> QED BY <3>1, <3>2, <3>3
  <2> QED BY <2>1, <2>2
<1>6. u \o v = q
  BY <1>4, <1>5, SeqEqual
<1> QED BY <1>2, <1>3, <1>6 DEF u, v

\* buffer_reset leaves the whole array free.
LEMMA ResetIsSound == Sound(buffer_reset) /\ Room(buffer_reset) = BUFFER_SIZE
BY Sizes DEF Sound, Buffer, buffer_reset, Room

\* buffer_write takes what fits and stays inside the array.
LEMMA WriteFits ==
    ASSUME NEW b, Sound(b), NEW x \in Seq(Byte)
    PROVE  /\ Sound(buffer_write(b, x))
           /\ buffer_write(b, x).read = b.read
           /\ Len(x) <= Room(b) => buffer_write(b, x).q = b.q \o x
<1> DEFINE k == IF Len(x) < Room(b) THEN Len(x) ELSE Room(b)
           y == SubSeq(x, 1, k)
<1>1. b.q \in Seq(Byte) /\ b.read \in Nat /\ Len(b.q) \in Nat /\ Len(x) \in Nat
      /\ BUFFER_SIZE \in Nat
  BY Sizes DEF Sound, Buffer
<1>2. Room(b) \in Nat /\ Room(b) = BUFFER_SIZE - b.read - Len(b.q)
  BY <1>1 DEF Sound, Room
<1>3. k \in 0..Len(x) /\ k <= Room(b)
  BY <1>1, <1>2
<1>4. buffer_write(b, x) = [b EXCEPT !.q = b.q \o y]
  BY DEF buffer_write
<1>5. Len(x) <= Room(b) => k = Len(x)
  BY <1>1, <1>2
<1> HIDE DEF k
<1>6. y \in Seq(Byte) /\ Len(y) = k
  BY <1>3, Split
<1>7. Len(x) <= Room(b) => y = x
  BY <1>5, SubSeqFull
<1> HIDE DEF y
<1>8. b.q \o y \in Seq(Byte) /\ Len(b.q \o y) = Len(b.q) + k
  BY <1>1, <1>6, SMTT(30)
<1> DEFINE w == [b EXCEPT !.q = b.q \o y]
<1>9. w \in Buffer /\ w.q = b.q \o y /\ w.read = b.read
  BY <1>8 DEF Sound, Buffer
<1> HIDE DEF w
<1>10. Room(w) >= 0
  BY <1>1, <1>2, <1>3, <1>8, <1>9 DEF Room
<1> QED BY <1>4, <1>7, <1>9, <1>10 DEF Sound, w

\* buffer_read_adv drops the first k bytes.
LEMMA AdvIsSound ==
    ASSUME NEW b, Sound(b), NEW k \in 0..Len(b.q)
    PROVE  /\ Sound(buffer_read_adv(b, k))
           /\ buffer_read_adv(b, k).q = SubSeq(b.q, k + 1, Len(b.q))
           /\ buffer_read_adv(b, k).read <= b.read + k
           /\ b.q = SubSeq(b.q, 1, k) \o buffer_read_adv(b, k).q
<1>1. b.q \in Seq(Byte) /\ b.read \in Nat /\ Len(b.q) \in Nat /\ BUFFER_SIZE \in Nat
      /\ k \in Nat
  BY Sizes DEF Sound, Buffer
<1> DEFINE r == SubSeq(b.q, k + 1, Len(b.q))
<1>2. r \in Seq(Byte) /\ Len(r) = Len(b.q) - k /\ SubSeq(b.q, 1, k) \o r = b.q
  BY <1>1, Split
<1> HIDE DEF r
<1>3. CASE k = Len(b.q)
  <2>1. Len(r) = 0
    BY <1>1, <1>2, <1>3
  <2>2. r = <<>>
    BY <1>2, <2>1
  <2>3. buffer_read_adv(b, k) = buffer_reset
    BY <1>3 DEF buffer_read_adv
  <2>4. buffer_reset.q = r /\ buffer_reset.read = 0 /\ 0 <= b.read + k
    BY <1>1, <2>2 DEF buffer_reset
  <2> HIDE DEF buffer_reset
  <2> DEFINE z == buffer_read_adv(b, k)
  <2>5. Sound(z) /\ z.q = r /\ z.read <= b.read + k
    BY <2>3, <2>4, ResetIsSound
  <2> HIDE DEF z
  <2>6. b.q = SubSeq(b.q, 1, k) \o z.q
    BY <1>2, <2>5
  <2> QED BY <2>5, <2>6 DEF r, z
<1>4. CASE k # Len(b.q)
  <2>1. buffer_read_adv(b, k) = [q |-> r, read |-> b.read + k]
    BY <1>4 DEF buffer_read_adv, r
  <2>2. Sound([q |-> r, read |-> b.read + k])
    BY <1>1, <1>2 DEF Sound, Buffer, Room
  <2>3. [q |-> r, read |-> b.read + k].q = r /\ [q |-> r, read |-> b.read + k].read = b.read + k
    OBVIOUS
  <2> DEFINE z == buffer_read_adv(b, k)
  <2>4. Sound(z) /\ z.q = r /\ z.read <= b.read + k
    BY <1>1, <2>1, <2>2, <2>3
  <2> HIDE DEF z
  <2>5. b.q = SubSeq(b.q, 1, k) \o z.q
    BY <1>2, <2>4
  <2> QED BY <2>4, <2>5 DEF r, z
<1> QED BY <1>3, <1>4

\* Rewriting the terminator keeps what the buffer holds of it as long as it was.
LEMMA RewriteIsSound ==
    ASSUME NEW b, Sound(b)
    PROVE  Sound(rewrite_terminator(b)) /\ Len(rewrite_terminator(b).q) = Len(b.q)
<1>1. b.q \in Seq(Byte) /\ b.read \in Nat /\ Len(b.q) \in Nat /\ BUFFER_SIZE \in Nat
  BY Sizes DEF Sound, Buffer
<1>2. Terminator \in Seq(Byte) /\ Len(Terminator) = 5
  BY DEF Terminator, Byte
<1> DEFINE x == IF Len(b.q) >= 5 THEN SubSeq(b.q, 1, Len(b.q) - 5) \o Terminator
                ELSE SubSeq(Terminator, 6 - Len(b.q), 5)
<1>3. rewrite_terminator(b) = [b EXCEPT !.q = x]
  BY DEF rewrite_terminator
<1>4. x \in Seq(Byte) /\ Len(x) = Len(b.q)
  <2>1. CASE Len(b.q) >= 5
    <3>1. Len(b.q) - 5 \in 0..Len(b.q)
      BY <1>1, <2>1
    <3>2. SubSeq(b.q, 1, Len(b.q) - 5) \in Seq(Byte)
          /\ Len(SubSeq(b.q, 1, Len(b.q) - 5)) = Len(b.q) - 5
      BY <1>1, <3>1, Split
    <3> DEFINE u == SubSeq(b.q, 1, Len(b.q) - 5)
    <3>3. x = u \o Terminator
      BY <2>1
    <3> HIDE DEF u, x
    <3>4. u \in Seq(Byte) /\ Len(u) = Len(b.q) - 5
      BY <3>2 DEF u
    <3>5. u \o Terminator \in Seq(Byte) /\ Len(u \o Terminator) = Len(u) + Len(Terminator)
      BY <1>2, <3>4, ConcatProperties
    <3> QED BY <1>1, <1>2, <3>3, <3>4, <3>5
  <2>2. CASE ~(Len(b.q) >= 5)
    <3> DEFINE k == 5 - Len(b.q)
    <3>1. k \in 0..Len(Terminator) /\ k + 1 = 6 - Len(b.q)
      BY <1>1, <1>2, <2>2
    <3>2. SubSeq(Terminator, k + 1, Len(Terminator)) \in Seq(Byte)
          /\ Len(SubSeq(Terminator, k + 1, Len(Terminator))) = Len(Terminator) - k
      BY <1>2, <3>1, Split
    <3> QED BY <1>1, <1>2, <2>2, <3>1, <3>2
  <2> QED BY <2>1, <2>2
<1> HIDE DEF x
<1> DEFINE w == [b EXCEPT !.q = x]
<1>5. w \in Buffer /\ w.q = x /\ w.read = b.read
  BY <1>4 DEF Sound, Buffer
<1> HIDE DEF w
<1>6. Room(w) = Room(b)
  BY <1>1, <1>4, <1>5 DEF Room
<1> QED BY <1>3, <1>4, <1>5, <1>6 DEF Sound, w

-----------------------------------------------------------------------------
(* Types. *)

Keys == {"sock", "mail"}

\* TypeOK, with the buffers as the records they are.
TypeInv == TypeOK /\ Sound(rb) /\ Sound(wb)

\* What read() gives is a piece of the file that fits in rb.
LEMMA ChunkIsPiece ==
    ASSUME TypeInv
    PROVE  /\ Chunk \in Seq(Byte) /\ Len(Chunk) \in Nat
           /\ pos + Len(Chunk) \in 0..Len(file) /\ Len(Chunk) <= Room(rb)
           /\ Chunk = SubSeq(file, pos + 1, pos + Len(Chunk))
           /\ Len(file) - pos <= Room(rb) => pos + Len(Chunk) = Len(file)
<1> DEFINE left == Len(file) - pos
           k == IF left < Room(rb) THEN left ELSE Room(rb)
<1>1. file \in Seq(Byte) /\ pos \in 0..Len(file) /\ Len(file) \in Nat
  BY Sizes DEF TypeInv, TypeOK
<1>2. Room(rb) \in Nat
  <2>1. rb.q \in Seq(Byte) /\ rb.read \in Nat /\ Room(rb) >= 0 /\ BUFFER_SIZE \in Nat
    BY Sizes DEF TypeInv, Sound, Buffer
  <2> QED BY <2>1 DEF Room
<1>3. k \in Nat /\ k <= Room(rb) /\ pos + k \in 0..Len(file)
      /\ (left <= Room(rb) => pos + k = Len(file))
  BY <1>1, <1>2
<1>4. Chunk = SubSeq(file, pos + 1, pos + k)
  BY DEF Chunk
<1> HIDE DEF k
<1>5. pos + 1 \in Int /\ pos + k \in Int /\ \A i \in pos + 1..pos + k : file[i] \in Byte
  BY <1>1, <1>3
<1>6. SubSeq(file, pos + 1, pos + k) \in Seq(Byte)
      /\ Len(SubSeq(file, pos + 1, pos + k)) = IF pos + 1 <= pos + k
                                               THEN (pos + k) - (pos + 1) + 1 ELSE 0
  BY <1>5, SubSeqProperties
<1>7. Len(Chunk) = k
  BY <1>1, <1>3, <1>4, <1>6
<1> QED BY <1>3, <1>4, <1>6, <1>7

\* The steps of filesystem_read by name: rb with the chunk, how much of it is looked at,
\* and wb with what was looked at.
Filled == buffer_write(rb, Chunk)
Look == Scan(Filled.q, byte_stuffing_st)
Passed == buffer_write(wb, SubSeq(Filled.q, 1, Look.looked))

\* filesystem_read keeps the types.
LEMMA ReadTypes ==
    ASSUME TypeInv, NEW k, filesystem_read(k)
    PROVE  /\ Sound(Filled) /\ Look.looked \in 0..Len(Filled.q) /\ Look.ended \in BOOLEAN
           /\ Sound(rb') /\ Sound(wb')
           /\ done' \in BOOLEAN /\ byte_stuffing_st' \in 0..4
           /\ file' = file /\ pos' \in 0..Len(file)
           /\ rb' = buffer_read_adv(Filled, Look.looked)
           /\ wb' = (IF Look.ended THEN rewrite_terminator(Passed) ELSE Passed)
           /\ done' = (done \/ Look.ended)
<1>1. Sound(rb) /\ Sound(wb) /\ done \in BOOLEAN /\ byte_stuffing_st \in 0..4
  BY DEF TypeInv, TypeOK
<1>2. Chunk \in Seq(Byte) /\ pos + Len(Chunk) \in 0..Len(file)
  BY ChunkIsPiece
<1>3. Sound(Filled)
  BY <1>1, <1>2, WriteFits DEF Filled
<1>4. Filled.q \in Seq(Byte)
  BY <1>3 DEF Sound, Buffer
<1>5. Look.looked \in 0..Len(Filled.q) /\ Look.ended \in BOOLEAN
      /\ After(Filled.q, byte_stuffing_st)[Look.looked] \in 0..4
  BY <1>1, <1>4, ScanStops DEF Look
<1>6. /\ pos' = pos + Len(Chunk) /\ file' = file
      /\ rb' = buffer_read_adv(Filled, Look.looked)
      /\ wb' = (IF Look.ended THEN rewrite_terminator(Passed) ELSE Passed)
      /\ done' = (done \/ Look.ended)
      /\ byte_stuffing_st' = After(Filled.q, byte_stuffing_st)[Look.looked]
  BY DEF filesystem_read, Filled, Look, Passed
<1>7. Sound(rb')
  BY <1>3, <1>5, <1>6, AdvIsSound
<1>8. SubSeq(Filled.q, 1, Look.looked) \in Seq(Byte)
  BY <1>4, <1>5, Split
<1>9. Sound(Passed)
  BY <1>1, <1>8, WriteFits DEF Passed
<1>10. Sound(wb')
  BY <1>6, <1>9, RewriteIsSound
<1>11. done' \in BOOLEAN
  BY <1>1, <1>5, <1>6
<1> QED BY <1>2, <1>3, <1>5, <1>6, <1>7, <1>10, <1>11

\* The ends of a transfer keep the types.
LEMMA EndTypes ==
    ASSUME TypeInv, NEW k \in Keys, NEW drained, End(k, drained)
    PROVE  /\ stm' = "TRANSACTION" /\ interest' \in [Keys -> {"NONE", "READ", "WRITE"}]
           /\ interest'["mail"] = "NONE"
           /\ rb' = buffer_reset /\ wb' = buffer_reset /\ done' = FALSE
           /\ byte_stuffing_st' = byte_stuffing_st
  BY DEF End, TypeInv, TypeOK, Keys

\* pop3_done unregisters both descriptors and leaves the buffers alone.
LEMMA DoneTypes ==
    ASSUME TypeInv, pop3_done
    PROVE  /\ stm' = "CLOSED" /\ interest' \in [Keys -> {"NONE", "READ", "WRITE"}]
           /\ interest'["mail"] = "NONE"
           /\ UNCHANGED <<rb, wb, done, byte_stuffing_st>>
  BY DEF pop3_done, Keys

\* mail_write when the terminator is not queued.
LEMMA SendTypes ==
    ASSUME TypeInv, NEW n \in 0..Len(wb.q)
    PROVE  /\ SubSeq(wb.q, 1, n) \in Seq(Byte) /\ Sound(buffer_read_adv(wb, n))
           /\ sent \o SubSeq(wb.q, 1, n) \in Seq(Byte)
<1>1. Sound(wb) /\ wb.q \in Seq(Byte) /\ sent \in Seq(Byte)
  BY DEF TypeInv, TypeOK, Sound, Buffer
<1>2. SubSeq(wb.q, 1, n) \in Seq(Byte)
  BY <1>1, Split
<1>3. sent \o SubSeq(wb.q, 1, n) \in Seq(Byte)
  BY <1>1, <1>2, ConcatProperties
<1>4. Sound(buffer_read_adv(wb, n))
  BY <1>1, AdvIsSound
<1> QED BY <1>2, <1>3, <1>4

\* pop3_new makes a session with sound buffers.
LEMMA TypeInit == Init => TypeInv
<1> SUFFICES ASSUME Init PROVE TypeInv
  OBVIOUS
<1>1. Sound(rb) /\ Sound(wb) /\ MaxInput \in Nat
  BY ResetIsSound, Sizes DEF Init
<1>2. \A b \in {rb, wb} : b.q \in Seq(Byte) /\ b.read \in Nat /\ Room(b) >= 0
  BY <1>1 DEF Sound, Buffer
<1>3. file \in FileSet /\ pos \in 0..Len(file) /\ sent \in Seq(Byte)
  <2>1. file \in Seq(Byte)
    BY Sizes DEF Init
  <2> QED BY <2>1 DEF Init
<1>4. interest \in [{"sock", "mail"} -> {"NONE", "READ", "WRITE"}]
  BY DEF Init
<1>5. /\ stm \in {"TRANSACTION", "READING_MAIL", "WRITING_MAIL", "CLOSED"}
      /\ done \in BOOLEAN /\ byte_stuffing_st \in 0..4
      /\ input \in 0..MaxInput /\ peer \in {"here", "gone"}
  <2>1. /\ stm = "TRANSACTION" /\ done = FALSE /\ byte_stuffing_st = 0
        /\ input = 0 /\ peer = "here"
    BY DEF Init
  <2>2. 0 \in 0..MaxInput /\ 0 \in 0..4
    BY <1>1
  <2> QED BY <2>1, <2>2
<1>6. TypeOK
  BY <1>2, <1>3, <1>4, <1>5 DEF TypeOK
<1> QED BY <1>1, <1>6 DEF TypeInv

\* What a step has to show of the state it reaches.
LEMMA TypeFrom ==
    ASSUME file' \in FileSet, pos' \in 0..Len(file'),
           stm' \in {"TRANSACTION", "READING_MAIL", "WRITING_MAIL", "CLOSED"},
           interest' \in [Keys -> {"NONE", "READ", "WRITE"}],
           Sound(rb'), Sound(wb'), done' \in BOOLEAN, byte_stuffing_st' \in 0..4,
           input' \in 0..MaxInput, peer' \in {"here", "gone"}, sent' \in Seq(Byte)
    PROVE  TypeInv'
<1>1. \A b \in {rb', wb'} : b.q \in Seq(Byte) /\ b.read \in Nat /\ Room(b) >= 0
  BY DEF Sound, Buffer
<1>2. Sound(rb)' /\ Sound(wb)'
  BY DEF Sound, Room
<1>3. TypeOK'
  BY <1>1 DEF TypeOK, Keys, Room
<1> QED BY <1>2, <1>3 DEF TypeInv

\* Every handler keeps the types and the bounds of the buffers.
LEMMA TypeStep == TypeInv /\ [Next]_vars => TypeInv'
<1> SUFFICES ASSUME TypeInv, [Next]_vars PROVE TypeInv'
  OBVIOUS
<1>0. /\ file \in FileSet /\ pos \in 0..Len(file)
      /\ stm \in {"TRANSACTION", "READING_MAIL", "WRITING_MAIL", "CLOSED"}
      /\ interest \in [Keys -> {"NONE", "READ", "WRITE"}]
      /\ Sound(rb) /\ Sound(wb) /\ done \in BOOLEAN /\ byte_stuffing_st \in 0..4
      /\ input \in 0..MaxInput /\ peer \in {"here", "gone"} /\ sent \in Seq(Byte)
      /\ MaxInput \in Nat
  BY Sizes DEF TypeInv, TypeOK, Keys
<1>1. CASE client_read
  <2>1. Len(file') \in Nat /\ file' \in FileSet /\ pos' = 0
    <3>1. file' \in FileSet /\ file' \in Seq(Byte) /\ pos' = 0
      BY <1>1, Sizes DEF client_read
    <3> QED BY <3>1
  <2>2. <<"OK">> \in Seq(Byte) /\ Sound(wb')
    <3>1. <<"OK">> \in Seq(Byte)
      BY DEF Byte
    <3>2. wb' = buffer_write(wb, <<"OK">>)
      BY <1>1 DEF client_read
    <3> QED BY <1>0, <3>1, <3>2, WriteFits
  <2>3. interest' \in [Keys -> {"NONE", "READ", "WRITE"}]
    BY <1>1 DEF client_read, Keys
  <2>4. /\ stm' = "READING_MAIL" /\ rb' = rb /\ done' = FALSE /\ byte_stuffing_st' = 0
        /\ input' = 0 /\ peer' = peer /\ sent' = <<>>
    BY <1>1 DEF client_read
  <2>5. sent' \in Seq(Byte)
    BY <2>4
  <2>6. pos' \in 0..Len(file') /\ input' \in 0..MaxInput /\ byte_stuffing_st' \in 0..4
    BY <1>0, <2>1, <2>4
  <2> QED BY <1>0, <2>1, <2>2, <2>3, <2>4, <2>5, <2>6, TypeFrom
<1>2. ASSUME pop3_done, UNCHANGED <<file, pos, input, peer, sent>> PROVE TypeInv'
  BY <1>0, <1>2, DoneTypes, TypeFrom
<1>3. CASE client_write
  <2>1. CASE pop3_done
    BY <1>2, <1>3, <2>1 DEF client_write
  <2>2. CASE /\ interest' = [interest EXCEPT !.sock = "READ"]
             /\ UNCHANGED <<stm, rb, wb, done, byte_stuffing_st>>
    <3>1. interest' \in [Keys -> {"NONE", "READ", "WRITE"}]
      BY <1>0, <2>2 DEF Keys
    <3> QED BY <1>0, <1>3, <2>2, <3>1, TypeFrom DEF client_write
  <2> QED BY <1>3, <2>1, <2>2 DEF client_write
<1>4. CASE RecvFails
  BY <1>2, <1>4 DEF RecvFails
<1>5. ASSUME NEW k \in Keys, filesystem_read(k) PROVE TypeInv'
  <2>1. /\ Sound(rb') /\ Sound(wb') /\ done' \in BOOLEAN /\ byte_stuffing_st' \in 0..4
        /\ file' = file /\ pos' \in 0..Len(file)
    BY <1>5, ReadTypes
  <2>2. interest' \in [Keys -> {"NONE", "READ", "WRITE"}]
    BY <1>0, <1>5 DEF filesystem_read
  <2>3. stm' = "WRITING_MAIL" /\ UNCHANGED <<input, peer, sent>>
    BY <1>5 DEF filesystem_read
  <2> QED BY <1>0, <2>1, <2>2, <2>3, TypeFrom
<1>6. ASSUME NEW k \in Keys, filesystem_read_fails(k) PROVE TypeInv'
  BY <1>2, <1>6 DEF filesystem_read_fails
<1>7. ASSUME NEW k \in Keys, NEW drained, End(k, drained),
             UNCHANGED <<file, pos, input, peer>>, sent' \in Seq(Byte)
      PROVE  TypeInv'
  BY <1>0, <1>7, EndTypes, ResetIsSound, TypeFrom
<1>8. ASSUME NEW k \in Keys, mail_write(k) PROVE TypeInv'
  <2>1. PICK n \in 0..Len(wb.q) :
          /\ sent' = sent \o SubSeq(wb.q, 1, n)
          /\ \/ End(k, n = Len(wb.q))
             \/ /\ wb' = buffer_read_adv(wb, n)
                /\ interest' = [interest EXCEPT ![k] = IF n = Len(wb.q) THEN "READ" ELSE @]
                /\ stm' = IF n = Len(wb.q) THEN "READING_MAIL" ELSE stm
                /\ byte_stuffing_st' = IF n = Len(wb.q) /\ stm = "WRITING_MAIL" THEN 0
                                       ELSE byte_stuffing_st
                /\ UNCHANGED <<rb, done>>
    BY <1>8 DEF mail_write
  <2>2. sent' \in Seq(Byte) /\ Sound(buffer_read_adv(wb, n))
    BY <2>1, SendTypes
  <2>3. UNCHANGED <<file, pos, input, peer>>
    BY <1>8 DEF mail_write
  <2>4. CASE End(k, n = Len(wb.q))
    BY <1>7, <2>2, <2>3, <2>4
  <2>5. CASE ~End(k, n = Len(wb.q))
    <3>1. interest' \in [Keys -> {"NONE", "READ", "WRITE"}]
      BY <1>0, <2>1, <2>5
    <3>2. stm' \in {"READING_MAIL", stm} /\ byte_stuffing_st' \in 0..4
          /\ wb' = buffer_read_adv(wb, n) /\ rb' = rb /\ done' = done
      BY <1>0, <2>1, <2>5
    <3> QED BY <1>0, <2>2, <2>3, <3>1, <3>2, TypeFrom
  <2> QED BY <2>4, <2>5
<1>9. ASSUME NEW k \in Keys, mail_write_fails(k) PROVE TypeInv'
  BY <1>0, <1>2, <1>7, <1>9 DEF mail_write_fails
<1>10. CASE ClientSends
  <2>1. input' \in 0..MaxInput
    BY <1>0, <1>10 DEF ClientSends
  <2> QED BY <1>0, <1>10, <2>1, TypeFrom DEF ClientSends
<1>11. CASE ClientGoes
  BY <1>0, <1>11, TypeFrom DEF ClientGoes
<1>12. CASE Closed \/ UNCHANGED vars
  BY <1>0, <1>12, TypeFrom DEF Closed, vars
<1> QED BY <1>1, <1>3, <1>4, <1>5, <1>6, <1>8, <1>9, <1>10, <1>11, <1>12 DEF Next, Keys

\* So they hold in every state.
LEMMA TypeInvariant == Spec => []TypeInv
BY TypeInit, TypeStep, PTL DEF Spec

\* Every variable keeps its type and neither buffer grows beyond its array, for files and
\* buffers of any size: the five bytes taken back from the write buffer and written again,
\* partial sends and reads out of turn included.
THEOREM TransferTypes == Spec => []TypeOK
BY TypeInvariant, PTL DEF TypeInv

-----------------------------------------------------------------------------
(* The message file is watched while its message is sent. *)

\* Every handler keeps the file registered exactly while the session sends.
LEMMA WatchedStep ==
    ASSUME TypeInv, WatchedWhileSending, [Next]_vars
    PROVE  WatchedWhileSending'
<1>0. interest \in [Keys -> {"NONE", "READ", "WRITE"}]
      /\ (stm \in {"READING_MAIL", "WRITING_MAIL"} <=> interest["mail"] # "NONE")
  BY DEF TypeInv, TypeOK, Keys, WatchedWhileSending, Sending
<1>1. SUFFICES stm' \in {"READING_MAIL", "WRITING_MAIL"} <=> interest'["mail"] # "NONE"
  BY DEF WatchedWhileSending, Sending
<1>2. CASE client_read
  BY <1>2 DEF client_read
<1>3. CASE pop3_done
  BY <1>3, DoneTypes
<1>4. CASE client_write \/ RecvFails
  BY <1>0, <1>3, <1>4 DEF client_write, RecvFails, Keys
<1>5. ASSUME NEW k \in Keys, filesystem_read(k) PROVE interest'["mail"] # "NONE"
  BY <1>0, <1>5 DEF filesystem_read, Sending, Keys
<1>6. ASSUME NEW k \in Keys, NEW drained, End(k, drained)
      PROVE  stm' = "TRANSACTION" /\ interest'["mail"] = "NONE"
  BY <1>6, EndTypes
<1>7. ASSUME NEW k \in Keys, mail_write(k), ~done
      PROVE  stm' \in {"READING_MAIL", stm} /\ interest'["mail"] # "NONE"
  BY <1>0, <1>7 DEF mail_write, Sending, Keys
<1>8. CASE \E k \in Keys : \/ filesystem_read(k) \/ filesystem_read_fails(k)
                           \/ mail_write(k) \/ mail_write_fails(k)
  BY <1>0, <1>3, <1>5, <1>6, <1>7, <1>8
     DEF filesystem_read, filesystem_read_fails, mail_write, mail_write_fails, Sending
<1>9. CASE ClientSends \/ ClientGoes \/ Closed \/ UNCHANGED vars
  BY <1>0, <1>9 DEF ClientSends, ClientGoes, Closed, vars
<1> QED BY <1>2, <1>4, <1>8, <1>9 DEF Next, Keys

\* A message file is registered with the selector exactly while its message is sent,
\* however the transfer ends: no command handler ever runs on a descriptor of a file.
THEOREM FileIsWatched == Spec => []WatchedWhileSending
<1>1. Init => WatchedWhileSending
  BY DEF Init, WatchedWhileSending, Sending
<1>2. TypeInv /\ WatchedWhileSending /\ [Next]_vars => WatchedWhileSending'
  BY WatchedStep
<1> QED BY <1>1, <1>2, TypeInvariant, PTL DEF Spec

-----------------------------------------------------------------------------
(* What is sent of a message that fits. *)

\* EndOf(f) by the bytes.
LEMMA EndIsSeen ==
    ASSUME NEW f \in Seq(Byte)
    PROVE  /\ EndOf(f) \in SUBSET (5..Len(f))
           /\ \A i \in 5..Len(f) : i \in EndOf(f) <=> Seen(f, i, 5)
<1>1. ASSUME NEW i \in 5..Len(f)
      PROVE  SubSeq(f, i - 4, i) = Terminator <=> Seen(f, i, 5)
  <2> DEFINE u == SubSeq(f, i - 4, i)
  <2>1. Len(f) \in Nat /\ i \in Nat /\ i - 4 \in Int /\ 5 <= i
        /\ \A j \in i - 4..i : f[j] \in Byte
    OBVIOUS
  <2>2. /\ u \in Seq(Byte)
        /\ Len(u) = IF i - 4 <= i THEN i - (i - 4) + 1 ELSE 0
        /\ \A j \in 1..i - (i - 4) + 1 : u[j] = f[(i - 4) + j - 1]
    <3> DEFINE m == i - 4
    <3>1. m \in Int /\ i \in Int /\ \A j \in m..i : f[j] \in Byte
      BY <2>1
    <3> HIDE DEF m
    <3>2. /\ SubSeq(f, m, i) \in Seq(Byte)
          /\ Len(SubSeq(f, m, i)) = IF m <= i THEN i - m + 1 ELSE 0
          /\ \A j \in 1..i - m + 1 : SubSeq(f, m, i)[j] = f[m + j - 1]
      BY <3>1, SubSeqProperties
    <3> QED BY <3>2, Zenon DEF m
  <2> HIDE DEF u
  <2>3. Len(u) = 5 /\ \A j \in 1..5 : u[j] = f[i - 5 + j]
    <3>1. i - (i - 4) + 1 = 5 /\ i - 4 <= i
      BY <2>1
    <3>2. \A j \in 1..5 : (i - 4) + j - 1 = i - 5 + j
      BY <2>1
    <3> QED BY <2>2, <3>1, <3>2
  <2>4. Terminator \in Seq(Byte) /\ Len(Terminator) = 5
    BY DEF Terminator, Byte
  <2>5. u = Terminator <=> \A j \in 1..5 : u[j] = Terminator[j]
    BY <2>2, <2>3, <2>4, SeqEqual
  <2>6. u = Terminator <=> \A j \in 1..5 : f[i - 5 + j] = Terminator[j]
    BY <2>3, <2>5
  <2> QED BY <2>1, <2>6 DEF u, Seen
<1> QED BY <1>1 DEF EndOf

\* A message that ends plainly.
Plain(f) == EndOf(f) # {} => Min(EndOf(f)) = 5 \/ f[Min(EndOf(f)) - 5] \notin {"CR", "LF"}

\* Before a terminator at n that is the first one and ends plainly, the stuffer has
\* counted nothing.
LEMMA CountsAnew ==
    ASSUME NEW f \in Seq(Byte), NEW n \in EndOf(f), \A m \in EndOf(f) : n <= m,
           n = 5 \/ f[n - 5] \notin {"CR", "LF"},
           \A i \in 1..n - 1 : ~Found(f[i], After(f, 0)[i - 1])
    PROVE  After(f, 0)[n - 5] = 0
<1> DEFINE a == After(f, 0)
<1>1. Len(f) \in Nat /\ n \in 5..Len(f) /\ Seen(f, n, 5)
  BY EndIsSeen
<1>2. RunsOver(f, 0, Len(f), a)
  BY AfterRuns
<1>3. n - 1 \in 0..Len(f) /\ n - 5 \in 0..n - 1 /\ n - 5 \in Nat
  BY <1>1
<1>4. \A i \in 0..n - 1 : Seen(f, i, a[i])
  BY <1>3, StufferIsSound
<1> HIDE DEF a
<1>5. CASE n = 5
  BY <1>2, <1>5 DEF RunsOver, a
<1>6. CASE n # 5
  <2>1. n - 5 \in 1..Len(f) /\ n - 6 \in 0..Len(f) /\ (n - 5) - 1 = n - 6
    BY <1>1, <1>6
  <2> DEFINE p == a[n - 6]
             c == f[n - 5]
  <2>2. p \in 0..4 /\ a[n - 5] = byte_stuffer(c, p)
    BY <1>2, <2>1 DEF RunsOver
  <2>3. c \notin {"CR", "LF"}
    BY <1>6
  <2> HIDE DEF p, c
  <2>4. a[n - 5] = 0 \/ (p = 2 /\ a[n - 5] = 3)
    BY <2>2, <2>3 DEF byte_stuffer, Terminator
  <2>5. CASE p = 2 /\ a[n - 5] = 3
    <3>1. Seen(f, n - 5, 3)
      BY <1>3, <1>4, <2>5
    <3> DEFINE j == n - 5
    <3>2. j \in Nat /\ n = j + 5 /\ 3 <= j
      <4>1. 3 <= n - 5
        BY <3>1 DEF Seen
      <4> QED BY <1>1, <1>3, <4>1
    <3>3. f[j - 2] = "CR" /\ f[j - 1] = "LF" /\ f[j] = "DOT"
      <4>1. f[j - 3 + 1] = "CR" /\ f[j - 3 + 2] = "LF" /\ f[j - 3 + 3] = "DOT"
        BY <3>1 DEF Seen, Terminator
      <4>2. j - 3 + 1 = j - 2 /\ j - 3 + 2 = j - 1 /\ j - 3 + 3 = j
        BY <3>2
      <4> QED BY <4>1, <4>2
    <3>4. f[j + 1] = "CR" /\ f[j + 2] = "LF"
      <4>1. f[n - 5 + 1] = "CR" /\ f[n - 5 + 2] = "LF"
        BY <1>1 DEF Seen, Terminator
      <4> QED BY <4>1
    <3> HIDE DEF j
    <3>5. j + 2 \in 5..Len(f) /\ j + 2 < n
      BY <1>1, <3>2
    <3>6. Seen(f, j + 2, 5)
      <4>2. \A i \in 1..5 : i = 1 \/ i = 2 \/ i = 3 \/ i = 4 \/ i = 5
        OBVIOUS
      <4> DEFINE m == j + 2
      <4>3. \A i \in 1..5 : f[m - 5 + i] = Terminator[i]
        <5>1. /\ f[m - 5 + 1] = "CR" /\ f[m - 5 + 2] = "LF" /\ f[m - 5 + 3] = "DOT"
              /\ f[m - 5 + 4] = "CR" /\ f[m - 5 + 5] = "LF"
          <6>1. /\ m - 5 + 1 = j - 2 /\ m - 5 + 2 = j - 1 /\ m - 5 + 3 = j
                /\ m - 5 + 4 = j + 1 /\ m - 5 + 5 = j + 2
            BY <3>2
          <6> HIDE DEF m
          <6> QED BY <3>3, <3>4, <6>1
        <5> HIDE DEF m
        <5> QED BY <4>2, <5>1 DEF Terminator
      <4>4. 5 <= m
        BY <3>5
      <4> HIDE DEF m
      <4>5. Seen(f, m, 5)
        BY <4>3, <4>4 DEF Seen
      <4> QED BY <4>5 DEF m
    <3>7. j + 2 \in EndOf(f)
      BY <3>5, <3>6, EndIsSeen
    <3> QED BY <1>1, <3>2, <3>5, <3>7
  <2> QED BY <2>4, <2>5 DEF a
<1> QED BY <1>5, <1>6

\* Then it finds it: Scan stops at the first terminator, or at the end if there is none.
LEMMA ScanFinds ==
    ASSUME NEW f \in Seq(Byte), Plain(f)
    PROVE  /\ Scan(f, 0).ended = (EndOf(f) # {})
           /\ Scan(f, 0).looked = IF EndOf(f) = {} THEN Len(f) ELSE Min(EndOf(f))
<1> DEFINE s == Scan(f, 0)
           a == After(f, 0)
<1>1. /\ s.ended \in BOOLEAN /\ s.looked \in 0..Len(f)
      /\ ~s.ended => s.looked = Len(f)
      /\ s.ended => s.looked \in 1..Len(f) /\ Found(f[s.looked], a[s.looked - 1])
      /\ \A i \in 1..s.looked - 1 : ~Found(f[i], a[i - 1])
      /\ ~s.ended => \A i \in 1..Len(f) : ~Found(f[i], a[i - 1])
  BY ScanStops
<1>2. s.ended => s.looked \in EndOf(f)
  <2> SUFFICES ASSUME s.ended PROVE s.looked \in EndOf(f)
    OBVIOUS
  <2>1. Seen(f, s.looked, 5)
    BY ScanIsSound
  <2> HIDE DEF s
  <2>2. s.looked \in 5..Len(f)
    BY <1>1, <2>1 DEF Seen
  <2> QED BY <2>1, <2>2, EndIsSeen
<1> HIDE DEF s
<1>3. CASE EndOf(f) = {}
  BY <1>1, <1>2, <1>3 DEF s
<1>4. CASE EndOf(f) # {}
  <2> DEFINE n == Min(EndOf(f))
  <2>1. EndOf(f) \in SUBSET (5..Len(f)) /\ EndOf(f) \in SUBSET Nat
    <3>1. EndOf(f) \in SUBSET (5..Len(f)) /\ Len(f) \in Nat
      BY EndIsSeen
    <3> QED BY <3>1
  <2>2. n \in EndOf(f) /\ \A m \in EndOf(f) : n <= m
    BY <1>4, <2>1, MinIsLeast
  <2>3. n = 5 \/ f[n - 5] \notin {"CR", "LF"}
    BY <1>4 DEF Plain
  <2> HIDE DEF n
  <2>4. n \in 5..Len(f) /\ n \in Nat /\ Len(f) \in Nat /\ Seen(f, n, 5)
    BY <2>1, <2>2, EndIsSeen
  <2>5. ~(s.looked < n)
    <3> SUFFICES ASSUME s.looked < n PROVE FALSE
      OBVIOUS
    <3>1. s.ended
      BY <1>1, <2>4
    <3>2. n <= s.looked
      BY <1>2, <2>2, <3>1
    <3> QED BY <1>1, <2>4, <3>2
  <2>6. ASSUME \A i \in 1..n - 1 : ~Found(f[i], a[i - 1])
        PROVE  Found(f[n], a[n - 1])
    <3>1. a[n - 5] = 0
      BY <2>2, <2>3, <2>4, <2>6, CountsAnew
    <3>2. RunsOver(f, 0, Len(f), a)
      BY AfterRuns
    <3> HIDE DEF a
    <3>3. \A j \in 1..5 : f[n - 5 + j] = Terminator[j]
      BY <2>4 DEF Seen
    <3>4. \A i \in 1..Len(f) : a[i] = byte_stuffer(f[i], a[i - 1])
      BY <3>2 DEF RunsOver
    <3>5. /\ n - 4 \in 1..Len(f) /\ n - 4 - 1 = n - 5 /\ n - 5 + 1 = n - 4
          /\ n - 3 \in 1..Len(f) /\ n - 3 - 1 = n - 4 /\ n - 5 + 2 = n - 3
          /\ n - 2 \in 1..Len(f) /\ n - 2 - 1 = n - 3 /\ n - 5 + 3 = n - 2
          /\ n - 1 \in 1..Len(f) /\ n - 1 - 1 = n - 2 /\ n - 5 + 4 = n - 1
          /\ n - 5 + 5 = n
      BY <2>4
    <3>6. f[n - 4] = "CR" /\ f[n - 3] = "LF" /\ f[n - 2] = "DOT" /\ f[n - 1] = "CR"
          /\ f[n] = "LF"
      BY <3>3, <3>5 DEF Terminator
    <3>7. a[n - 4] = 1
      <4>1. a[n - 4] = byte_stuffer(f[n - 4], a[n - 5])
        BY <3>4, <3>5
      <4>2. byte_stuffer("CR", 0) = 1
        BY DEF byte_stuffer, Terminator
      <4> QED BY <3>1, <3>6, <4>1, <4>2
    <3>8. a[n - 3] = 2
      <4>1. a[n - 3] = byte_stuffer(f[n - 3], a[n - 4])
        BY <3>4, <3>5
      <4>2. byte_stuffer("LF", 1) = 2
        BY DEF byte_stuffer, Terminator
      <4> QED BY <3>7, <3>6, <4>1, <4>2
    <3>9. a[n - 2] = 3
      <4>1. a[n - 2] = byte_stuffer(f[n - 2], a[n - 3])
        BY <3>4, <3>5
      <4>2. byte_stuffer("DOT", 2) = 3
        BY DEF byte_stuffer, Terminator
      <4> QED BY <3>8, <3>6, <4>1, <4>2
    <3>10. a[n - 1] = 4
      <4>1. a[n - 1] = byte_stuffer(f[n - 1], a[n - 2])
        BY <3>4, <3>5
      <4>2. byte_stuffer("CR", 3) = 4
        BY DEF byte_stuffer, Terminator
      <4> QED BY <3>9, <3>6, <4>1, <4>2
    <3> QED BY <3>6, <3>10 DEF Found
  <2>7. ~(n < s.looked)
    <3> SUFFICES ASSUME n < s.looked PROVE FALSE
      OBVIOUS
    <3>1. \A i \in 1..n : i \in 1..s.looked - 1
      BY <1>1, <2>4
    <3>2. \A i \in 1..n : ~Found(f[i], a[i - 1])
      BY <1>1, <3>1
    <3> HIDE DEF a
    <3> QED BY <2>4, <2>6, <3>2
  <2>8. s.looked = n
    BY <1>1, <2>4, <2>5, <2>7
  <2>9. s.ended
    <3> SUFFICES ASSUME ~s.ended PROVE FALSE
      OBVIOUS
    <3>1. \A i \in 1..Len(f) : ~Found(f[i], a[i - 1])
      BY <1>1
    <3> HIDE DEF a
    <3> QED BY <2>4, <2>6, <3>1
  <2> QED BY <1>1, <1>4, <2>8, <2>9 DEF s, n
<1> QED BY <1>3, <1>4

-----------------------------------------------------------------------------
(* A message that fits goes in one piece: before filesystem_read has run nothing but  *)
(* the reply to RETR is queued or sent, and behind it the whole message is.           *)

OkReply == [q |-> <<"OK">>, read |-> 0]

Before ==
    /\ pos = 0 /\ stm = "READING_MAIL" /\ interest["mail"] = "READ"
    /\ rb = buffer_reset /\ done = FALSE /\ byte_stuffing_st = 0
    /\ \/ wb = OkReply /\ sent = <<>>
       \/ wb = buffer_reset /\ sent = <<"OK">>

Behind ==
    /\ pos = Len(file)
    /\ sent \o wb.q = ReplyTo(file)
    /\ done <=> EndOf(file) # {}
    /\ EndOf(file) # {} /\ interest["mail"] = "READ" => input > 0 \/ peer = "gone"

PromiseInv ==
    /\ stm = "TRANSACTION" => rb = buffer_reset /\ wb = buffer_reset /\ done = FALSE
    /\ Fits /\ stm = "TRANSACTION" => IsPrefix(sent, ReplyTo(file))
    /\ Fits /\ Sending => Before \/ Behind

\* Concatenation is associative.
LEMMA Assoc ==
    \A s, t, u \in Seq(Byte) : (s \o t) \o u = s \o (t \o u)
BY ConcatAssociative

\* A sequence is a prefix of itself and of what continues it.
LEMMA PrefixOfMore ==
    ASSUME NEW s \in Seq(Byte), NEW t \in Seq(Byte)
    PROVE  IsPrefix(s, s) /\ IsPrefix(s, s \o t)
<1>1. Len(s) \in Nat /\ Len(t) \in Nat
  OBVIOUS
<1>2. SubSeq(s, 1, Len(s)) = s
  BY SubSeqFull
<1> DEFINE r == s \o t
<1>3. r \in Seq(Byte) /\ Len(r) = Len(s) + Len(t) /\ \A i \in 1..Len(s) : r[i] = s[i]
  BY <1>1, ConcatProperties
<1> HIDE DEF r
<1>4. SubSeq(r, 1, Len(s)) = s
  <2> DEFINE u == SubSeq(r, 1, Len(s))
  <2>1. Len(s) \in 0..Len(r)
    BY <1>1, <1>3
  <2>2. u \in Seq(Byte) /\ Len(u) = Len(s) /\ \A i \in 1..Len(s) : u[i] = r[i]
    BY <1>3, <2>1, Split
  <2> HIDE DEF u
  <2>3. u = s
    BY <1>3, <2>2, SeqEqual
  <2> QED BY <2>3 DEF u
<1>5. IsPrefix(s, s)
  BY <1>1, <1>2 DEF IsPrefix
<1>6. IsPrefix(s, r)
  BY <1>1, <1>2, <1>3, <1>4 DEF IsPrefix
<1> QED BY <1>5, <1>6 DEF r

\* A buffer that ends with the terminator is not changed by writing it again.
LEMMA RewriteIsSame ==
    ASSUME NEW b, Sound(b), Seen(b.q, Len(b.q), 5)
    PROVE  rewrite_terminator(b).q = b.q
<1> DEFINE q == b.q
           k == Len(q) - 5
           v == SubSeq(q, k + 1, Len(q))
<1>1. q \in Seq(Byte) /\ Len(q) \in Nat /\ b \in Buffer
  BY DEF Sound, Buffer
<1>2. 5 <= Len(q) /\ \A j \in 1..5 : q[Len(q) - 5 + j] = Terminator[j]
  BY DEF Seen
<1>3. rewrite_terminator(b).q = SubSeq(q, 1, Len(q) - 5) \o Terminator
  <2> DEFINE x == SubSeq(q, 1, Len(q) - 5) \o Terminator
  <2>1. rewrite_terminator(b) = [b EXCEPT !.q = x]
    BY <1>1, <1>2 DEF rewrite_terminator
  <2> HIDE DEF x
  <2>2. [b EXCEPT !.q = x].q = x
    BY <1>1 DEF Buffer
  <2> QED BY <2>1, <2>2 DEF x
<1> HIDE DEF q
<1>4. k \in 0..Len(q) /\ Len(q) - k = 5
  BY <1>1, <1>2
<1>5. /\ v \in Seq(Byte) /\ Len(v) = 5 /\ \A i \in 1..5 : v[i] = q[k + i]
      /\ SubSeq(q, 1, k) \o v = q
  <2>1. /\ v \in Seq(Byte) /\ Len(v) = Len(q) - k
        /\ \A i \in 1..Len(q) - k : v[i] = q[k + i]
        /\ SubSeq(q, 1, k) \o v = q
    <3> HIDE DEF k
    <3> QED BY <1>1, <1>4, Split
  <2> HIDE DEF k, v
  <2> QED BY <1>4, <2>1
<1>6. Terminator \in Seq(Byte) /\ Len(Terminator) = 5
  BY DEF Terminator, Byte
<1> HIDE DEF v
<1>7. v = Terminator
  BY <1>2, <1>5, <1>6, SeqEqual
<1> QED BY <1>3, <1>5, <1>7 DEF q

\* What ends a prefix of f ends whatever this prefix is appended to.
LEMMA SeenBehind ==
    ASSUME NEW w \in Seq(Byte), NEW f \in Seq(Byte), NEW n \in 0..Len(f), Seen(f, n, 5)
    PROVE  Seen(w \o SubSeq(f, 1, n), Len(w \o SubSeq(f, 1, n)), 5)
<1> DEFINE v == SubSeq(f, 1, n)
           r == w \o v
<1>1. Len(w) \in Nat /\ n \in Nat /\ Len(f) \in Nat
  OBVIOUS
<1>2. v \in Seq(Byte) /\ Len(v) = n /\ \A i \in 1..n : v[i] = f[i]
  BY Split
<1> HIDE DEF v
<1>3. r \in Seq(Byte) /\ Len(r) = Len(w) + n
      /\ \A i \in 1..Len(w) + n : r[i] = IF i <= Len(w) THEN w[i] ELSE v[i - Len(w)]
  BY <1>1, <1>2, ConcatProperties
<1> HIDE DEF r
<1>4. 5 <= n /\ \A j \in 1..5 : f[n - 5 + j] = Terminator[j]
  BY DEF Seen
<1>5. ASSUME NEW j \in 1..5 PROVE r[Len(r) - 5 + j] = Terminator[j]
  <2> DEFINE i == Len(r) - 5 + j
  <2>1. i \in 1..Len(w) + n /\ ~(i <= Len(w)) /\ i - Len(w) = n - 5 + j
        /\ n - 5 + j \in 1..n
    BY <1>1, <1>3, <1>4
  <2> HIDE DEF i
  <2>2. r[i] = v[n - 5 + j]
    BY <1>3, <2>1
  <2>3. v[n - 5 + j] = f[n - 5 + j]
    BY <1>2, <2>1
  <2> QED BY <1>4, <2>2, <2>3 DEF i
<1>6. 5 <= Len(r)
  BY <1>1, <1>3, <1>4
<1> QED BY <1>5, <1>6 DEF Seen, r, v

\* The whole message goes into the write buffer at once, up to its terminator.
LEMMA ReadWhole ==
    ASSUME TypeInv, LastLineNotEmpty, Fits, Before, NEW k \in Keys, filesystem_read(k)
    PROVE  /\ pos' = Len(file) /\ done' = (EndOf(file) # {})
           /\ sent' \o wb'.q = ReplyTo(file)
<1>0. file \in Seq(Byte) /\ Len(file) \in Nat /\ file \in FileSet /\ BUFFER_SIZE \in Nat \ {0}
  BY Sizes DEF TypeInv, TypeOK
<1>1. /\ pos = 0 /\ rb = buffer_reset /\ done = FALSE /\ byte_stuffing_st = 0
      /\ Len(file) < BUFFER_SIZE
  BY DEF Before, Fits
<1>2. Chunk = file
  <2>1. Len(file) - pos <= Room(rb)
    BY <1>0, <1>1, ResetIsSound
  <2>2. Chunk = SubSeq(file, 1, Len(file))
    <3>1. pos + Len(Chunk) = Len(file) /\ Chunk = SubSeq(file, pos + 1, pos + Len(Chunk))
      BY <2>1, ChunkIsPiece
    <3>2. pos + 1 = 1
      BY <1>1
    <3> QED BY <3>1, <3>2
  <2> QED BY <1>0, <2>2, SubSeqFull
<1>3. Filled.q = file
  <2>1. Sound(rb) /\ Len(Chunk) <= Room(rb) /\ rb.q = <<>>
    BY <1>0, <1>1, <1>2, ResetIsSound DEF buffer_reset
  <2>2. buffer_write(rb, Chunk).q = rb.q \o Chunk
    BY <1>0, <1>2, <2>1, WriteFits
  <2> QED BY <1>0, <1>2, <2>1, <2>2, ConcatEmptySeq DEF Filled
<1> DEFINE n == Look.looked
           v == SubSeq(file, 1, n)
<1>4. /\ Look.ended = (EndOf(file) # {})
      /\ n = IF EndOf(file) = {} THEN Len(file) ELSE Min(EndOf(file))
  <2>1. Plain(file)
    BY <1>0 DEF LastLineNotEmpty, Plain
  <2>2. Look = Scan(file, 0)
    BY <1>1, <1>3 DEF Look
  <2> QED BY <1>0, <2>1, <2>2, ScanFinds
<1>5. n \in 0..Len(file) /\ (Look.ended => Seen(file, n, 5))
  <2>1. Look = Scan(file, 0)
    BY <1>1, <1>3 DEF Look
  <2> QED BY <1>0, <2>1, ScanStops, ScanIsSound
<1> HIDE DEF n
<1>6. v \in Seq(Byte) /\ Len(v) = n
  BY <1>0, <1>5, Split
<1>7. ReplyTo(file) = <<"OK">> \o v
  <2>1. SubSeq(file, 1, Len(file)) = file
    BY <1>0, SubSeqFull
  <2> QED BY <1>4, <2>1 DEF ReplyTo
<1>8. /\ sent \in Seq(Byte) /\ wb.q \in Seq(Byte) /\ Sound(wb)
      /\ sent \o wb.q = <<"OK">> /\ n <= Room(wb)
  <2>1. CASE wb = OkReply /\ sent = <<>>
    <3>1. wb.q = <<"OK">> /\ wb.read = 0
      BY <2>1 DEF OkReply
    <3>2. Room(wb) = BUFFER_SIZE - 1
      BY <1>0, <3>1 DEF Room
    <3>3. <<"OK">> \in Seq(Byte) /\ <<>> \o <<"OK">> = <<"OK">>
      BY DEF Byte
    <3> QED BY <1>0, <1>1, <1>5, <2>1, <3>1, <3>2, <3>3 DEF TypeInv, TypeOK
  <2>2. CASE wb = buffer_reset /\ sent = <<"OK">>
    <3>1. wb.q = <<>>
      BY <2>2 DEF buffer_reset
    <3>2. Room(wb) = BUFFER_SIZE
      BY <2>2, ResetIsSound
    <3>3. <<"OK">> \in Seq(Byte) /\ <<"OK">> \o <<>> = <<"OK">>
      BY DEF Byte
    <3> QED BY <1>0, <1>1, <1>5, <2>2, <3>1, <3>2, <3>3 DEF TypeInv, TypeOK
  <2> QED BY <2>1, <2>2 DEF Before
<1>9. Sound(Passed) /\ Passed.q = wb.q \o v
  <2>1. Passed = buffer_write(wb, v)
    BY <1>3 DEF Passed, n
  <2> HIDE DEF v
  <2> QED BY <1>6, <1>8, <2>1, WriteFits
<1>10. wb'.q = wb.q \o v
  <2>1. wb' = IF Look.ended THEN rewrite_terminator(Passed) ELSE Passed
    BY ReadTypes
  <2>2. CASE Look.ended
    <3>1. Seen(wb.q \o v, Len(wb.q \o v), 5)
      BY <1>0, <1>5, <1>8, <2>2, SeenBehind
    <3> HIDE DEF v
    <3>2. Seen(Passed.q, Len(Passed.q), 5)
      BY <1>9, <3>1
    <3> QED BY <1>9, <2>1, <2>2, <3>2, RewriteIsSame
  <2>3. CASE ~Look.ended
    BY <1>9, <2>1, <2>3
  <2> QED BY <2>2, <2>3
<1>11. pos' = Len(file) /\ sent' = sent /\ done' = (done \/ Look.ended)
  <2>1. done' = (done \/ Look.ended)
    BY ReadTypes
  <2>2. pos' = pos + Len(Chunk) /\ sent' = sent
    BY DEF filesystem_read
  <2> QED BY <1>0, <1>1, <1>2, <2>1, <2>2
<1> HIDE DEF v
<1>12. sent \o (wb.q \o v) = (sent \o wb.q) \o v
  <2> DEFINE w == wb.q
  <2>1. w \in Seq(Byte)
    BY <1>8
  <2> HIDE DEF w
  <2>2. (sent \o w) \o v = sent \o (w \o v)
    BY <1>6, <1>8, <2>1, Assoc
  <2> QED BY <2>2 DEF w
<1>13. sent' \o wb'.q = ReplyTo(file)
  BY <1>7, <1>8, <1>10, <1>11, <1>12
<1>14. done' = (EndOf(file) # {})
  BY <1>1, <1>4, <1>11
<1> QED BY <1>11, <1>13, <1>14

\* A message that is sent is made of bytes.
LEMMA ReplyType ==
    ASSUME NEW f \in FileSet
    PROVE  /\ ReplyTo(f) \in Seq(Byte)
           /\ \E t \in Seq(Byte) : ReplyTo(f) = <<"OK">> \o t
<1>1. f \in Seq(Byte) /\ <<"OK">> \in Seq(Byte)
  BY Sizes DEF Byte
<1> DEFINE t == IF EndOf(f) = {} THEN f ELSE SubSeq(f, 1, Min(EndOf(f)))
<1>2. t \in Seq(Byte)
  <2>1. CASE EndOf(f) = {}
    BY <1>1, <2>1
  <2>2. CASE EndOf(f) # {}
    <3>1. EndOf(f) \in SUBSET (5..Len(f)) /\ Len(f) \in Nat
      BY <1>1, EndIsSeen
    <3>2. EndOf(f) \in SUBSET Nat
      BY <3>1
    <3>3. Min(EndOf(f)) \in EndOf(f)
      BY <2>2, <3>2, MinIsLeast
    <3>4. Min(EndOf(f)) \in 0..Len(f)
      BY <3>1, <3>3
    <3>5. SubSeq(f, 1, Min(EndOf(f))) \in Seq(Byte)
      BY <1>1, <3>4, Split
    <3> QED BY <2>2, <3>5
  <2> QED BY <2>1, <2>2
<1>3. ReplyTo(f) = <<"OK">> \o t
  BY DEF ReplyTo
<1> HIDE DEF t
<1>4. <<"OK">> \o t \in Seq(Byte)
  BY <1>1, <1>2, ConcatProperties
<1> QED BY <1>2, <1>3, <1>4

\* What was sent and what is queued begin the message.
LEMMA QueueIsNext ==
    ASSUME TypeInv, PromiseInv, Fits, Sending
    PROVE  \E t \in Seq(Byte) : ReplyTo(file) = (sent \o wb.q) \o t
<1>0. file \in FileSet /\ sent \in Seq(Byte) /\ wb.q \in Seq(Byte)
  BY DEF TypeInv, TypeOK
<1>1. CASE Before
  <2>1. sent \o wb.q = <<"OK">>
    <3>1. <<>> \o <<"OK">> = <<"OK">> /\ <<"OK">> \o <<>> = <<"OK">>
      OBVIOUS
    <3>2. OkReply.q = <<"OK">> /\ buffer_reset.q = <<>>
      BY DEF OkReply, buffer_reset
    <3>3. \/ wb = OkReply /\ sent = <<>>
          \/ wb = buffer_reset /\ sent = <<"OK">>
      BY <1>1 DEF Before
    <3>4. \/ wb.q = <<"OK">> /\ sent = <<>>
          \/ wb.q = <<>> /\ sent = <<"OK">>
      BY <3>2, <3>3
    <3> QED BY <3>1, <3>4
  <2> QED BY <1>0, <2>1, ReplyType
<1>2. CASE Behind
  <2>1. sent \o wb.q = ReplyTo(file)
    BY <1>2 DEF Behind
  <2>2. ReplyTo(file) \in Seq(Byte)
    BY <1>0, ReplyType
  <2>3. <<>> \in Seq(Byte) /\ ReplyTo(file) \o <<>> = ReplyTo(file)
    BY <2>2, ConcatEmptySeq, EmptySeq
  <2> QED BY <2>1, <2>3
<1> QED BY <1>1, <1>2 DEF PromiseInv

\* A first part of what is queued continues what was sent, and the rest continues it.
LEMMA SendMore ==
    ASSUME TypeInv, NEW n \in 0..Len(wb.q), NEW t \in Seq(Byte)
    PROVE  /\ IsPrefix(sent, sent \o SubSeq(wb.q, 1, n))
           /\ (sent \o SubSeq(wb.q, 1, n)) \o buffer_read_adv(wb, n).q = sent \o wb.q
           /\ IsPrefix(sent \o SubSeq(wb.q, 1, n), (sent \o wb.q) \o t)
<1> DEFINE s == sent
           u == SubSeq(wb.q, 1, n)
           r == buffer_read_adv(wb, n).q
           w == wb.q
<1>1. s \in Seq(Byte) /\ u \in Seq(Byte) /\ r \in Seq(Byte) /\ s \o u \in Seq(Byte)
  BY SendTypes DEF TypeInv, TypeOK, Sound, Buffer
<1>2. w = u \o r
  BY AdvIsSound DEF TypeInv
<1> HIDE DEF s, u, r, w
<1>3. (s \o u) \o r = s \o (u \o r)
  BY <1>1, Assoc, SMTT(30)
<1>4. r \o t \in Seq(Byte)
  BY <1>1, ConcatProperties
<1>5. ((s \o u) \o r) \o t = (s \o u) \o (r \o t)
  BY <1>1, Assoc
<1>6. IsPrefix(s, s \o u) /\ IsPrefix(s \o u, (s \o u) \o (r \o t))
  BY <1>1, <1>4, PrefixOfMore
<1>7. (s \o u) \o r = s \o w
  BY <1>2, <1>3
<1>8. IsPrefix(s \o u, (s \o w) \o t)
  BY <1>5, <1>6, <1>7
<1> QED BY <1>6, <1>7, <1>8 DEF s, u, r, w

\* What send() takes continues the message.
LEMMA SendContinues ==
    ASSUME TypeInv, PromiseInv, Fits, NEW k \in Keys, mail_write(k)
    PROVE  IsPrefix(sent, sent') /\ IsPrefix(sent', ReplyTo(file))
<1>1. PICK n \in 0..Len(wb.q) : sent' = sent \o SubSeq(wb.q, 1, n)
  BY DEF mail_write
<1>2. Sending
  BY DEF mail_write
<1>3. PICK t \in Seq(Byte) : ReplyTo(file) = (sent \o wb.q) \o t
  BY <1>2, QueueIsNext
<1> QED BY <1>1, <1>3, SendMore

\* While the connection is open, what was sent begins the message.
LEMMA SentBegins ==
    ASSUME TypeInv, PromiseInv, Fits, stm # "CLOSED"
    PROVE  IsPrefix(sent, sent) /\ IsPrefix(sent, ReplyTo(file))
<1>1. sent \in Seq(Byte) /\ wb.q \in Seq(Byte)
  BY DEF TypeInv, TypeOK
<1>2. IsPrefix(sent, sent)
  BY <1>1, PrefixOfMore, EmptySeq
<1>3. CASE Sending
  <2>1. PICK t \in Seq(Byte) : ReplyTo(file) = (sent \o wb.q) \o t
    BY <1>3, QueueIsNext
  <2>2. 0 \in 0..Len(wb.q)
    BY <1>1
  <2>3. SubSeq(wb.q, 1, 0) = <<>>
    OBVIOUS
  <2>4. sent \o <<>> = sent
    BY <1>1, ConcatEmptySeq
  <2>5. IsPrefix(sent \o SubSeq(wb.q, 1, 0), (sent \o wb.q) \o t)
    BY <2>2, SendMore
  <2> QED BY <1>2, <2>1, <2>3, <2>4, <2>5
<1>4. CASE ~Sending
  <2>1. stm = "TRANSACTION"
    BY <1>4 DEF Sending, TypeInv, TypeOK
  <2> QED BY <1>2, <2>1 DEF PromiseInv
<1> QED BY <1>3, <1>4

\* With the whole message queued there is nothing more to read.
LEMMA NothingBehind ==
    ASSUME TypeInv, pos = Len(file)
    PROVE  Chunk = <<>>
<1>1. Chunk \in Seq(Byte) /\ Len(Chunk) \in Nat /\ pos + Len(Chunk) \in 0..Len(file)
  BY ChunkIsPiece
<1>2. Len(file) \in Nat
  BY Sizes DEF TypeInv, TypeOK
<1>3. Len(Chunk) = 0
  BY <1>1, <1>2
<1> QED BY <1>1, <1>3

\* A new session has sent nothing and has empty buffers.
LEMMA PromiseInit == Init => PromiseInv
<1> SUFFICES ASSUME Init PROVE PromiseInv
  OBVIOUS
<1>1. /\ stm = "TRANSACTION" /\ rb = buffer_reset /\ wb = buffer_reset /\ done = FALSE
      /\ sent = <<>> /\ file \in FileSet
  BY DEF Init
<1>2. IsPrefix(sent, ReplyTo(file))
  <2>1. ReplyTo(file) \in Seq(Byte) /\ <<>> \in Seq(Byte)
    BY <1>1, ReplyType
  <2>2. <<>> \o ReplyTo(file) = ReplyTo(file)
    BY <2>1, ConcatEmptySeq
  <2>3. IsPrefix(<<>>, <<>> \o ReplyTo(file))
    BY <2>1, PrefixOfMore
  <2> QED BY <1>1, <2>2, <2>3
<1> QED BY <1>1, <1>2 DEF PromiseInv, Sending

\* The bytes of a message that fits are never lost, repeated or reordered between the
\* file, the two buffers and the socket.
LEMMA PromiseStep ==
    ASSUME TypeInv, LastLineNotEmpty, PromiseInv, [Next]_vars
    PROVE  PromiseInv'
<1>0. /\ interest \in [Keys -> {"NONE", "READ", "WRITE"}]
      /\ sent \in Seq(Byte) /\ wb.q \in Seq(Byte) /\ done \in BOOLEAN
  BY DEF TypeInv, TypeOK, Keys
<1>1. CASE client_read
  <2>1. wb = buffer_reset /\ rb = buffer_reset
    BY <1>1 DEF client_read, PromiseInv
  <2>2. wb' = OkReply
    <3>1. buffer_reset.q = <<>> /\ buffer_reset.read = 0
      BY DEF buffer_reset
    <3>2. <<"OK">> \in Seq(Byte) /\ Len(<<"OK">>) = 1
      BY DEF Byte
    <3>3. wb' = buffer_write(buffer_reset, <<"OK">>)
      BY <1>1, <2>1 DEF client_read
    <3>4. Len(<<"OK">>) <= Room(buffer_reset)
      BY <3>2, ResetIsSound, Sizes
    <3> HIDE DEF buffer_reset
    <3>5. Sound(wb') /\ wb'.read = 0 /\ wb'.q = <<>> \o <<"OK">>
      BY <3>1, <3>2, <3>3, <3>4, WriteFits, ResetIsSound
    <3>6. wb'.q = <<"OK">>
      BY <3>5
    <3>7. wb' \in [q : Seq(Byte), read : Nat]
      BY <3>5 DEF Sound, Buffer
    <3> QED BY <3>5, <3>6, <3>7 DEF OkReply
  <2>3. /\ pos' = 0 /\ stm' = "READING_MAIL" /\ interest'["mail"] = "READ"
        /\ rb' = rb /\ done' = FALSE /\ byte_stuffing_st' = 0 /\ sent' = <<>>
    BY <1>1 DEF client_read
  <2>4. Before'
    BY <2>1, <2>2, <2>3 DEF Before
  <2> QED BY <2>3, <2>4 DEF PromiseInv
<1>2. CASE pop3_done
  BY <1>2 DEF pop3_done, PromiseInv, Sending
<1>3. CASE client_write
  <2>1. CASE UNCHANGED <<stm, rb, wb, done>>
    BY <1>3, <2>1 DEF client_write, PromiseInv, Sending, Fits
  <2> QED BY <1>2, <1>3, <2>1 DEF client_write
<1>4. CASE RecvFails
  BY <1>2, <1>4 DEF RecvFails
<1>5. ASSUME NEW k \in Keys, filesystem_read(k) PROVE PromiseInv'
  <2>1. /\ stm' = "WRITING_MAIL" /\ file' = file /\ UNCHANGED <<input, peer>>
        /\ interest' = [interest EXCEPT ![k] = "WRITE"] /\ Sending /\ Readable(k)
        /\ Chunk # <<>>
    BY <1>5 DEF filesystem_read
  <2>2. CASE Fits
    <3>1. Before
      BY <2>1, <2>2, NothingBehind DEF PromiseInv, Behind
    <3>2. pos' = Len(file) /\ done' = (EndOf(file) # {}) /\ sent' \o wb'.q = ReplyTo(file)
      BY <1>5, <2>2, <3>1, ReadWhole
    <3>3. interest'["mail"] = "READ" => input > 0 \/ peer = "gone"
      BY <1>0, <2>1 DEF Readable, Keys
    <3>4. Behind'
      BY <2>1, <3>2, <3>3 DEF Behind
    <3> QED BY <2>1, <3>4 DEF PromiseInv
  <2>3. CASE ~Fits
    BY <2>1, <2>3 DEF PromiseInv, Fits
  <2> QED BY <2>2, <2>3
<1>6. ASSUME NEW k \in Keys, filesystem_read_fails(k) PROVE PromiseInv'
  BY <1>2, <1>6 DEF filesystem_read_fails
<1>7. ASSUME NEW k \in Keys, NEW drained, End(k, drained), file' = file,
             Fits => IsPrefix(sent', ReplyTo(file))
      PROVE  PromiseInv'
  <2>1. stm' = "TRANSACTION" /\ rb' = buffer_reset /\ wb' = buffer_reset /\ done' = FALSE
    BY <1>7 DEF End
  <2> QED BY <1>7, <2>1 DEF PromiseInv, Fits, Sending
<1>8. ASSUME NEW k \in Keys, mail_write(k) PROVE PromiseInv'
  <2>1. PICK n \in 0..Len(wb.q) :
          /\ n = 0 => wb.q = <<>>
          /\ sent' = sent \o SubSeq(wb.q, 1, n)
          /\ \/ done /\ End(k, n = Len(wb.q))
             \/ /\ ~done
                /\ wb' = buffer_read_adv(wb, n)
                /\ interest' = [interest EXCEPT ![k] = IF n = Len(wb.q) THEN "READ" ELSE @]
                /\ stm' = IF n = Len(wb.q) THEN "READING_MAIL" ELSE stm
                /\ byte_stuffing_st' = IF n = Len(wb.q) /\ stm = "WRITING_MAIL" THEN 0
                                       ELSE byte_stuffing_st
                /\ UNCHANGED <<rb, done>>
    BY <1>8 DEF mail_write
  <2>2. UNCHANGED <<file, pos, input, peer>> /\ Sending /\ interest[k] = "WRITE"
    BY <1>8 DEF mail_write
  <2>3. Fits => IsPrefix(sent', ReplyTo(file))
    BY <1>8, SendContinues
  <2>4. CASE done
    BY <1>7, <2>1, <2>2, <2>3, <2>4
  <2>5. CASE ~done /\ Before /\ Fits
    <3>1. k # "mail" /\ interest'["mail"] = "READ"
      BY <1>0, <2>1, <2>2, <2>5 DEF Before, Keys
    <3>2. n = Len(wb.q) /\ sent' = <<"OK">>
      <4>1. OkReply.q = <<"OK">> /\ buffer_reset.q = <<>>
        BY DEF OkReply, buffer_reset
      <4>2. CASE wb.q = <<"OK">> /\ sent = <<>>
        <5>1. n = 1 /\ Len(wb.q) = 1
          BY <2>1, <4>2
        <5>2. SubSeq(wb.q, 1, 1) = <<"OK">> /\ <<>> \o <<"OK">> = <<"OK">>
          <6>1. <<"OK">> \in Seq(Byte) /\ SubSeq(wb.q, 1, 1) = SubSeq(wb.q, 1, Len(wb.q))
            BY <4>2, <5>1 DEF Byte
          <6>2. SubSeq(wb.q, 1, Len(wb.q)) = wb.q
            BY <1>0, SubSeqFull
          <6> QED BY <4>2, <6>1, <6>2
        <5> QED BY <2>1, <4>2, <5>1, <5>2
      <4>3. CASE wb.q = <<>> /\ sent = <<"OK">>
        <5>1. n = 0 /\ Len(wb.q) = 0
          BY <2>1, <4>3
        <5>2. SubSeq(wb.q, 1, 0) = <<>> /\ <<"OK">> \o <<>> = <<"OK">>
          OBVIOUS
        <5> QED BY <2>1, <4>3, <5>1, <5>2
      <4>4. \/ wb = OkReply /\ sent = <<>>
            \/ wb = buffer_reset /\ sent = <<"OK">>
        <5>1. Before
          BY <2>5
        <5> QED BY <5>1 DEF Before
      <4> QED BY <4>1, <4>2, <4>3, <4>4
    <3>3. wb' = buffer_reset /\ stm' = "READING_MAIL"
      BY <2>1, <2>5, <3>2 DEF buffer_read_adv
    <3>4. pos' = 0 /\ rb' = buffer_reset /\ done' = FALSE /\ byte_stuffing_st' = 0
      BY <2>1, <2>2, <2>5 DEF Before
    <3>5. Before'
      BY <3>1, <3>2, <3>3, <3>4 DEF Before
    <3> QED BY <3>3, <3>5 DEF PromiseInv
  <2>6. CASE ~done /\ Behind /\ Fits
    <3>1. EndOf(file) = {} /\ done' = done
      BY <2>1, <2>6 DEF Behind
    <3>2. sent' \o wb'.q = ReplyTo(file)
      <4>1. wb' = buffer_read_adv(wb, n) /\ sent \o wb.q = ReplyTo(file)
        BY <2>1, <2>6 DEF Behind
      <4> QED BY <2>1, <4>1, SendMore, EmptySeq
    <3>3. Behind'
      BY <2>2, <2>6, <3>1, <3>2 DEF Behind
    <3>4. stm' # "TRANSACTION"
      BY <2>1, <2>2, <2>6 DEF Sending
    <3> QED BY <3>3, <3>4 DEF PromiseInv
  <2>7. CASE ~done /\ ~Fits
    <3>1. stm' # "TRANSACTION"
      BY <2>1, <2>2, <2>7 DEF Sending
    <3> QED BY <2>2, <2>7, <3>1 DEF PromiseInv, Fits
  <2> QED BY <1>0, <2>2, <2>4, <2>5, <2>6, <2>7 DEF PromiseInv
<1>9. ASSUME NEW k \in Keys, mail_write_fails(k) PROVE PromiseInv'
  <2>1. UNCHANGED <<file, sent>> /\ Sending /\ (End(k, FALSE) \/ pop3_done)
    BY <1>9 DEF mail_write_fails
  <2>2. Fits => IsPrefix(sent', ReplyTo(file))
    BY <2>1, SentBegins DEF Sending
  <2> QED BY <1>2, <1>7, <2>1, <2>2
<1>10. CASE ClientSends
  <2>1. UNCHANGED <<file, pos, stm, interest, rb, wb, done, byte_stuffing_st, peer, sent>>
        /\ (input > 0 => input' > 0)
    BY <1>10 DEF ClientSends, TypeInv, TypeOK
  <2> QED BY <2>1 DEF PromiseInv, Before, Behind, Sending, Fits
<1>11. CASE ClientGoes
  BY <1>11 DEF ClientGoes, PromiseInv, Before, Behind, Sending, Fits
<1>12. CASE Closed \/ UNCHANGED vars
  BY <1>12, SMTT(30) DEF Closed, vars, PromiseInv, Before, Behind, Sending, Fits
<1> QED BY <1>1, <1>3, <1>4, <1>5, <1>6, <1>8, <1>9, <1>10, <1>11, <1>12 DEF Next, Keys

\* The strengthened invariant holds in every state.
LEMMA PromiseInvariant == LastLineNotEmpty => (Spec => [](TypeInv /\ PromiseInv))
<1> SUFFICES ASSUME LastLineNotEmpty PROVE Spec => [](TypeInv /\ PromiseInv)
  OBVIOUS
<1>1. Init => TypeInv /\ PromiseInv
  BY TypeInit, PromiseInit
<1>2. TypeInv /\ PromiseInv /\ [Next]_vars => (TypeInv /\ PromiseInv)'
  BY TypeStep, PromiseStep
<1> QED BY <1>1, <1>2, PTL DEF Spec

\* A step of the code is a step of the promise, a stutter, or a reply cut short.
LEMMA MessageStep ==
    ASSUME TypeInv, PromiseInv, [Next]_vars, Fits'
    PROVE  Reply!Next \/ Reply!Cut \/ UNCHANGED Reply!vars
<1> USE DEF Reply!IsPrefix, IsPrefix, Sending
<1>1. CASE client_read
  BY <1>1 DEF client_read, Reply!Next, Reply!Begin
<1>2. ASSUME pop3_done, UNCHANGED <<file, sent>>, stm # "CLOSED"
      PROVE  Reply!Close
  <2>1. stm' = "CLOSED" /\ Fits
    BY <1>2 DEF pop3_done, Fits
  <2>2. IsPrefix(sent, sent') /\ IsPrefix(sent', ReplyTo(file))
    BY <1>2, <2>1, SentBegins
  <2> QED BY <1>2, <2>1, <2>2 DEF Reply!Close, Reply!Extends
<1>3. CASE client_write \/ RecvFails
  <2>1. CASE pop3_done
    BY <1>2, <1>3, <2>1 DEF client_write, RecvFails, Reply!Next
  <2>2. CASE UNCHANGED <<file, stm, sent>>
    BY <2>2 DEF Reply!vars
  <2> QED BY <1>3, <2>1, <2>2 DEF client_write, RecvFails
<1>4. ASSUME NEW k \in Keys, filesystem_read(k) PROVE UNCHANGED Reply!vars
  BY <1>4 DEF filesystem_read, Reply!vars
<1>5. ASSUME NEW k \in Keys, NEW drained, End(k, drained), Sending, file' = file,
             IsPrefix(sent, sent'), IsPrefix(sent', ReplyTo(file))
      PROVE  Reply!Next \/ Reply!Cut
  <2>1. stm' = "TRANSACTION"
    BY <1>5 DEF End
  <2>2. CASE sent' = ReplyTo(file)
    BY <1>5, <2>1, <2>2 DEF Reply!Next, Reply!Finish
  <2>3. CASE sent' # ReplyTo(file)
    BY <1>5, <2>1, <2>3 DEF Reply!Cut, Reply!Extends
  <2> QED BY <2>2, <2>3
<1>6. ASSUME NEW k \in Keys, mail_write(k) PROVE Reply!Next \/ Reply!Cut
  <2>1. file' = file /\ Fits /\ Sending
    BY <1>6 DEF mail_write, Fits
  <2>2. IsPrefix(sent, sent') /\ IsPrefix(sent', ReplyTo(file))
    BY <1>6, <2>1, SendContinues
  <2>3. \/ \E drained : End(k, drained)
        \/ stm' = "READING_MAIL" \/ stm' = stm
    BY <1>6 DEF mail_write
  <2>4. CASE \E drained : End(k, drained)
    BY <1>5, <2>1, <2>2, <2>4
  <2>5. CASE stm' = "READING_MAIL" \/ stm' = stm
    BY <2>1, <2>2, <2>5 DEF Reply!Next, Reply!Send, Reply!Extends
  <2> QED BY <2>3, <2>4, <2>5
<1>7. ASSUME NEW k \in Keys, mail_write_fails(k) PROVE Reply!Next \/ Reply!Cut
  <2>1. UNCHANGED <<file, sent>> /\ Sending /\ (End(k, FALSE) \/ pop3_done) /\ Fits
    BY <1>7 DEF mail_write_fails, Fits
  <2>2. IsPrefix(sent, sent') /\ IsPrefix(sent', ReplyTo(file))
    BY <2>1, SentBegins
  <2> QED BY <1>2, <1>5, <2>1, <2>2 DEF Reply!Next
<1>8. ASSUME NEW k \in Keys, filesystem_read_fails(k) PROVE Reply!Next
  BY <1>2, <1>8 DEF filesystem_read_fails, Reply!Next
<1>9. CASE ClientSends \/ ClientGoes \/ Closed \/ UNCHANGED vars
  BY <1>9 DEF ClientSends, ClientGoes, Closed, vars, Reply!vars
<1> QED BY <1>1, <1>3, <1>4, <1>6, <1>7, <1>8, <1>9 DEF Next, Keys

\* RETR keeps its promise for every message that fits in the buffer and whose last line
\* is not empty: the reply and the bytes of the file up to its terminator are sent in
\* order and each once, whatever the two keys of the selector, partial sends and the
\* client do in between.  Only the last send may cut it short.
THEOREM MessageIsSent == LastLineNotEmpty => (Spec => SendsTheMessage)
<1> SUFFICES ASSUME LastLineNotEmpty PROVE Spec => SendsTheMessage
  OBVIOUS
<1>1. TypeInv /\ PromiseInv /\ [Next]_vars
        => [Fits' => (Reply!Next \/ Reply!Cut \/ UNCHANGED Reply!vars)]_vars
  BY MessageStep
<1> QED BY <1>1, PromiseInvariant, PTL DEF Spec, SendsTheMessage

\* A transfer that fails is disturbed.
LEMMA CloseStep ==
    ASSUME TypeInv, PromiseInv, [Next]_vars,
           Sending, stm' = "CLOSED", Fits, EndOf(file) # {}
    PROVE  input > 0 \/ peer = "gone"
<1>1. stm # "CLOSED" /\ stm # "TRANSACTION"
  BY DEF Sending
<1>2. ASSUME NEW k \in Keys, filesystem_read_fails(k) PROVE input > 0 \/ peer = "gone"
  <2>1. Readable(k) /\ Chunk = <<>>
    BY <1>2 DEF filesystem_read_fails
  <2>2. CASE k = "sock"
    BY <2>1, <2>2 DEF Readable
  <2>3. CASE k = "mail"
    <3>1. interest["mail"] = "READ"
      BY <2>1, <2>3 DEF Readable
    <3>2. ~Before
      <4> SUFFICES ASSUME Before PROVE FALSE
        OBVIOUS
      <4>1. file \in Seq(Byte) /\ Len(file) \in Nat /\ BUFFER_SIZE \in Nat
        BY Sizes DEF TypeInv, TypeOK
      <4>2. Len(file) < BUFFER_SIZE /\ pos = 0 /\ rb = buffer_reset
        BY DEF Fits, Before
      <4>3. Len(file) - pos <= Room(rb)
        BY <4>1, <4>2, ResetIsSound
      <4>4. pos + Len(Chunk) = Len(file)
        BY <4>3, ChunkIsPiece
      <4>5. Len(Chunk) = 0
        BY <2>1
      <4>6. Len(file) = 0
        BY <4>1, <4>2, <4>4, <4>5
      <4>7. EndOf(file) \in SUBSET (5..Len(file))
        BY <4>1, EndIsSeen
      <4> QED BY <4>6, <4>7
    <3> QED BY <3>1, <3>2 DEF PromiseInv, Behind
  <2> QED BY <2>2, <2>3 DEF Keys
<1>3. ASSUME NEW k \in Keys, mail_write_fails(k) PROVE peer = "gone"
  BY <1>3 DEF mail_write_fails, End
<1>4. ASSUME NEW k \in Keys, mail_write(k) PROVE FALSE
  <2>1. stm' = "TRANSACTION" \/ stm' = "READING_MAIL" \/ stm' = stm
    BY <1>4 DEF mail_write, End
  <2> QED BY <1>1, <2>1
<1>5. ASSUME NEW k \in Keys, filesystem_read(k) PROVE FALSE
  BY <1>5 DEF filesystem_read
<1>6. ~client_read /\ ~client_write /\ ~RecvFails
  BY <1>1 DEF client_read, client_write, RecvFails
<1>7. ~(ClientSends \/ ClientGoes \/ Closed \/ UNCHANGED vars)
  BY <1>1 DEF ClientSends, ClientGoes, Closed, vars
<1> QED BY <1>2, <1>3, <1>4, <1>5, <1>6, <1>7 DEF Next, Keys

\* The session of a message that fits and has a terminator behind a line that is not
\* empty is closed in the middle only if the client wrote during the transfer or left.
THEOREM ClosedOnlyThen == LastLineNotEmpty => (Spec => ClosedOnlyIfDisturbed)
<1> SUFFICES ASSUME LastLineNotEmpty PROVE Spec => ClosedOnlyIfDisturbed
  OBVIOUS
<1>1. TypeInv /\ PromiseInv /\ [Next]_vars
        => [Sending /\ stm' = "CLOSED" /\ Fits /\ EndOf(file) # {}
              => input > 0 \/ peer = "gone"]_vars
  BY CloseStep
<1> QED BY <1>1, PromiseInvariant, PTL DEF Spec, ClosedOnlyIfDisturbed

=============================================================================
