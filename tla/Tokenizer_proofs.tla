-------------------------- MODULE Tokenizer_proofs --------------------------
(***************************************************************************)
(* Proofs about Tokenizer, for sizes and lines of any length: the strings  *)
(* stay in their memory, and a command is the words of its line.           *)
(***************************************************************************)
EXTENDS Tokenizer, WellFoundedInduction, SequenceTheorems, TLAPS

\* The byte d is in s.
Has(s, d) == \E i \in 1..Len(s) : s[i] = d

-----------------------------------------------------------------------------
(* Facts about Place, Upto, Past and Cut. *)

\* The first place of a byte exists and is what its definition says.
LEMMA PlaceIsFirst ==
    ASSUME NEW S, NEW s \in Seq(S), NEW d
    PROVE  /\ Place(s, d) \in 1..Len(s) + 1
           /\ Place(s, d) = Len(s) + 1 \/ s[Place(s, d)] = d
           /\ \A i \in 1..Place(s, d) - 1 : s[i] # d
<1> DEFINE P == {n \in 1..Len(s) + 1 : n = Len(s) + 1 \/ s[n] = d}
<1>1. Len(s) \in Nat
  OBVIOUS
<1>2. P \in SUBSET Nat /\ Len(s) + 1 \in P
  BY <1>1
<1> HIDE DEF P
<1>3. PICK n \in P : \A m \in P : ~(<<m, n>> \in OpToRel(<, Nat))
  BY <1>2, WFMin, NatLessThanWellFounded
<1> USE DEF P
<1>4. \A i \in 1..n - 1 : s[i] # d
  <2> SUFFICES ASSUME NEW i \in 1..n - 1, s[i] = d PROVE FALSE
    OBVIOUS
  <2>1. i \in P /\ i < n /\ i \in Nat /\ n \in Nat
    BY <1>1, <1>2
  <2> QED
    BY <1>3, <2>1 DEF OpToRel
<1>5. /\ n \in 1..Len(s) + 1
      /\ n = Len(s) + 1 \/ s[n] = d
      /\ \A i \in 1..n - 1 : s[i] # d
  BY <1>3, <1>4
<1> QED
  BY <1>5 DEF Place

\* Two places that are first are one.
LEMMA PlaceIsUnique ==
    ASSUME NEW S, NEW s \in Seq(S), NEW d, NEW n \in 1..Len(s) + 1,
           n = Len(s) + 1 \/ s[n] = d,
           \A i \in 1..n - 1 : s[i] # d
    PROVE  Place(s, d) = n
<1> DEFINE m == Place(s, d)
<1>1. /\ m \in 1..Len(s) + 1
      /\ m = Len(s) + 1 \/ s[m] = d
      /\ \A i \in 1..m - 1 : s[i] # d
  BY PlaceIsFirst
<1>2. Len(s) \in Nat
  OBVIOUS
<1> HIDE DEF m
<1>3. ~(m < n)
  BY <1>1, <1>2
<1>4. ~(n < m)
  BY <1>1, <1>2
<1>5. m = n
  BY <1>1, <1>2, <1>3, <1>4
<1> QED
  BY <1>5 DEF m

\* Where the byte is not, the place is behind the end.
LEMMA PlaceWithout ==
    ASSUME NEW S, NEW s \in Seq(S), NEW d
    PROVE  /\ Has(s, d) => Place(s, d) \in 1..Len(s) /\ s[Place(s, d)] = d
           /\ ~Has(s, d) => Place(s, d) = Len(s) + 1
<1>1. Len(s) \in Nat
  OBVIOUS
<1>2. CASE Has(s, d)
  <2>1. PICK i \in 1..Len(s) : s[i] = d
    BY <1>2 DEF Has
  <2> DEFINE p == Place(s, d)
  <2>2. /\ p \in 1..Len(s) + 1
        /\ p = Len(s) + 1 \/ s[p] = d
        /\ \A j \in 1..p - 1 : s[j] # d
    BY PlaceIsFirst
  <2> HIDE DEF p
  <2>3. p # Len(s) + 1
    BY <1>1, <2>1, <2>2
  <2>4. p \in 1..Len(s) /\ s[p] = d
    BY <1>1, <2>2, <2>3
  <2> QED
    BY <1>2, <2>4 DEF p
<1>3. CASE ~Has(s, d)
  BY <1>1, <1>3, PlaceIsUnique DEF Has
<1> QED
  BY <1>2, <1>3

\* A byte behind the first place changes what is past it and nothing else.
LEMMA AppendBehind ==
    ASSUME NEW S, NEW s \in Seq(S), NEW d, NEW b \in S, Has(s, d)
    PROVE  /\ Has(Append(s, b), d)
           /\ Upto(Append(s, b), d) = Upto(s, d)
           /\ Past(Append(s, b), d) = Append(Past(s, d), b)
<1> DEFINE t == Append(s, b)
           p == Place(s, d)
<1>1. /\ Len(s) \in Nat /\ t \in Seq(S) /\ Len(t) = Len(s) + 1
      /\ \A i \in 1..Len(s) : t[i] = s[i]
  OBVIOUS
<1>2. /\ p \in 1..Len(s) /\ s[p] = d
      /\ \A i \in 1..p - 1 : s[i] # d
  BY PlaceWithout, PlaceIsFirst
<1>3. Has(t, d)
  BY <1>1, <1>2 DEF Has
<1> HIDE DEF t, p
<1>4. Place(t, d) = p
  <2>1. p \in 1..Len(t) + 1 /\ t[p] = d /\ \A i \in 1..p - 1 : t[i] # d
    BY <1>1, <1>2
  <2>2. /\ Place(t, d) \in 1..Len(t) + 1
        /\ Place(t, d) = Len(t) + 1 \/ t[Place(t, d)] = d
        /\ \A i \in 1..Place(t, d) - 1 : t[i] # d
    BY <1>1, PlaceIsFirst
  <2> QED
    BY <1>1, <2>1, <2>2
<1> USE DEF t, p
<1>5. Upto(t, d) = Upto(s, d)
  BY <1>1, <1>2, <1>4 DEF Upto
<1>6. Past(t, d) = Append(Past(s, d), b)
  <2> DEFINE u == Past(s, d)
             v == Past(t, d)
  <2>1. /\ u \in Seq(S) /\ Len(u) = Len(s) - p
        /\ \A i \in 1..Len(s) - p : u[i] = s[p + i]
    BY <1>1, <1>2 DEF Past
  <2>2. /\ v \in Seq(S) /\ Len(v) = Len(s) + 1 - p
        /\ \A i \in 1..Len(s) + 1 - p : v[i] = t[p + i]
    <3> HIDE DEF t, p
    <3> QED
      BY <1>1, <1>2, <1>4 DEF Past
  <2>3. t[Len(s) + 1] = b
    OBVIOUS
  <2>4. /\ Append(u, b) \in Seq(S) /\ Len(Append(u, b)) = Len(u) + 1
        /\ \A i \in 1..Len(u) : Append(u, b)[i] = u[i]
        /\ Append(u, b)[Len(u) + 1] = b
    BY <2>1, AppendProperties
  <2> HIDE DEF t, p, u, v
  <2>5. \A i \in 1..Len(v) : v[i] = Append(u, b)[i]
    <3> SUFFICES ASSUME NEW i \in 1..Len(v) PROVE v[i] = Append(u, b)[i]
      OBVIOUS
    <3>1. v[i] = t[p + i] /\ Len(v) = Len(u) + 1 /\ Len(u) \in Nat
      BY <1>1, <1>2, <2>1, <2>2
    <3>2. CASE i = Len(u) + 1
      <4>1. p + i = Len(s) + 1
        BY <1>1, <1>2, <2>1, <3>2
      <4> QED
        BY <2>3, <2>4, <3>1, <3>2, <4>1
    <3>3. CASE i \in 1..Len(u)
      <4>1. p + i \in 1..Len(s) /\ i \in 1..Len(s) - p
        BY <1>1, <1>2, <2>1, <3>3
      <4> QED
        BY <1>1, <2>1, <2>4, <3>1, <3>3, <4>1
    <3> QED
      BY <3>1, <3>2, <3>3
  <2>6. Len(v) = Len(Append(u, b))
    BY <1>1, <1>2, <2>1, <2>2, <2>4
  <2>7. v = Append(u, b)
    <3> HIDE DEF t, u, v
    <3> DEFINE w == Append(u, b)
    <3>1. v \in Seq(S) /\ w \in Seq(S) /\ Len(v) = Len(w) /\ \A i \in 1..Len(v) : v[i] = w[i]
      BY <2>2, <2>4, <2>5, <2>6
    <3> HIDE DEF w
    <3>2. v = w
      BY <3>1, SeqEqual
    <3> QED
      BY <3>2 DEF w
  <2> QED
    BY <2>7 DEF t, u, v
<1> QED
  BY <1>3, <1>5, <1>6

\* A byte behind a string without d: part of it, unless it is d.
LEMMA AppendBefore ==
    ASSUME NEW S, NEW s \in Seq(S), NEW d, NEW b \in S, ~Has(s, d)
    PROVE  /\ Upto(s, d) = s /\ Past(s, d) = <<>>
           /\ Past(Append(s, b), d) = <<>>
           /\ b = d => Has(Append(s, b), d) /\ Upto(Append(s, b), d) = s
           /\ b # d => ~Has(Append(s, b), d) /\ Upto(Append(s, b), d) = Append(s, b)
<1> DEFINE t == Append(s, b)
<1>1. /\ Len(s) \in Nat /\ t \in Seq(S) /\ Len(t) = Len(s) + 1 /\ t[Len(s) + 1] = b
      /\ \A i \in 1..Len(s) : t[i] = s[i]
  OBVIOUS
<1>2. Place(s, d) = Len(s) + 1
  BY PlaceWithout
<1>3. Upto(s, d) = s /\ Past(s, d) = <<>>
  BY <1>1, <1>2 DEF Upto, Past
<1>4. \A i \in 1..Len(s) : t[i] # d
  BY <1>1 DEF Has
<1>5. CASE b = d
  <2>1. Has(t, d)
    BY <1>1, <1>5 DEF Has
  <2>2. Place(t, d) = Len(s) + 1
    <3> HIDE DEF t
    <3> QED
      BY <1>1, <1>4, <1>5, PlaceIsUnique
  <2>3. Upto(t, d) = s
    BY <1>1, <2>2 DEF Upto
  <2>4. Past(t, d) = <<>>
    BY <1>1, <2>2 DEF Past
  <2> QED
    BY <1>3, <1>5, <2>1, <2>3, <2>4
<1>6. CASE b # d
  <2>1. ~Has(t, d)
    BY <1>1, <1>4, <1>6 DEF Has
  <2>2. Place(t, d) = Len(t) + 1
    <3> HIDE DEF t
    <3> QED
      BY <1>1, <2>1, PlaceWithout
  <2>3. Upto(t, d) = t /\ Past(t, d) = <<>>
    BY <1>1, <2>2 DEF Upto, Past
  <2> QED
    BY <1>3, <1>6, <2>1, <2>3
<1> QED
  BY <1>5, <1>6

\* What a string holds up to and past a byte is a string.
LEMMA PartsAreStrings ==
    ASSUME NEW S, NEW s \in Seq(S), NEW d
    PROVE  /\ Upto(s, d) \in Seq(S) /\ Past(s, d) \in Seq(S)
           /\ ~Has(Upto(s, d), d)
<1>1. Len(s) \in Nat /\ Place(s, d) \in 1..Len(s) + 1 /\ \A i \in 1..Place(s, d) - 1 : s[i] # d
  BY PlaceIsFirst
<1>2. Upto(s, d) \in Seq(S) /\ Len(Upto(s, d)) = Place(s, d) - 1
      /\ \A i \in 1..Place(s, d) - 1 : Upto(s, d)[i] = s[i]
  BY <1>1 DEF Upto
<1>3. Past(s, d) \in Seq(S)
  BY <1>1 DEF Past
<1> QED
  BY <1>1, <1>2, <1>3 DEF Has

\* A byte more, cut to n.
LEMMA CutAppend ==
    ASSUME NEW S, NEW s \in Seq(S), NEW b \in S, NEW n \in Nat
    PROVE  /\ Cut(s, n) \in Seq(S) /\ Len(Cut(s, n)) <= n
           /\ Cut(Append(s, b), n) = IF Len(Cut(s, n)) < n THEN Append(Cut(s, n), b)
                                     ELSE Cut(s, n)
<1>1. Len(s) \in Nat /\ Len(Append(s, b)) = Len(s) + 1
  OBVIOUS
<1>2. CASE Len(s) < n
  BY <1>1, <1>2 DEF Cut
<1>3. CASE Len(s) = n
  <2>1. Cut(s, n) = s
    BY <1>1, <1>3 DEF Cut
  <2>2. Cut(Append(s, b), n) = SubSeq(Append(s, b), 1, n)
    BY <1>1, <1>3 DEF Cut
  <2>3. SubSeq(Append(s, b), 1, n) = s
    BY <1>1, <1>3
  <2> QED
    BY <1>3, <2>1, <2>2, <2>3
<1>4. CASE Len(s) > n
  <2>1. /\ Cut(s, n) = SubSeq(s, 1, n)
        /\ Cut(Append(s, b), n) = SubSeq(Append(s, b), 1, n)
    BY <1>1, <1>4 DEF Cut
  <2>2. SubSeq(Append(s, b), 1, n) = SubSeq(s, 1, n)
    BY <1>1, <1>4
  <2>3. SubSeq(s, 1, n) \in Seq(S) /\ Len(SubSeq(s, 1, n)) = n
    BY <1>1, <1>4
  <2>4. ~(Len(Cut(s, n)) < n) /\ Len(Cut(s, n)) <= n /\ Cut(s, n) \in Seq(S)
    BY <2>1, <2>3
  <2>5. Cut(Append(s, b), n) = Cut(s, n)
    BY <2>1, <2>2
  <2> QED
    BY <2>4, <2>5, Zenon
<1> QED
  BY <1>1, <1>2, <1>3, <1>4

-----------------------------------------------------------------------------
(* The words of a text, a byte more. *)

\* The state of the automaton after a text without CR.
Stage(text) ==
    IF ~Has(text, SP) THEN "COMMAND_STATE"
    ELSE IF ~Has(Past(text, SP), SP) THEN "FIRST_ARG_STATE"
    ELSE IF ~Has(Past(Past(text, SP), SP), SP) THEN "SECOND_ARG_STATE"
    ELSE "ERR0R_STATE"

\* A string that may grow to n bytes and is given one more.
Grown(w, b, n) == IF Len(w) < n THEN Append(w, b) ELSE w

GrownAt(words, k, b) == [words EXCEPT ![k] = Grown(words[k], b, Size(k))]

\* The words before they are cut.
Raw(text, k) ==
    CASE k = 0 -> Upto(text, SP)
      [] k = 1 -> Upto(Past(text, SP), SP)
      [] k = 2 -> Upto(Past(Past(text, SP), SP), SP)

\* The words of a text are strings of bytes of their size at most.
LEMMA WordsType ==
    ASSUME NEW text \in Seq(Bytes)
    PROVE  /\ \A k \in Slots : Raw(text, k) \in Seq(Bytes)
           /\ \A k \in Slots : Words(text)[k] = Cut(Raw(text, k), Size(k))
           /\ Words(text) \in [Slots -> Seq(Bytes)]
           /\ \A k \in Slots : Len(Words(text)[k]) <= Size(k)
<1>1. \A k \in Slots : Size(k) \in Nat
  BY TokenizerOK DEF TokenizerAssumption, Size
<1>2. Past(text, SP) \in Seq(Bytes) /\ Past(Past(text, SP), SP) \in Seq(Bytes)
  BY PartsAreStrings
<1>3. \A k \in Slots : Raw(text, k) \in Seq(Bytes)
  <2>1. /\ Upto(text, SP) \in Seq(Bytes) /\ Upto(Past(text, SP), SP) \in Seq(Bytes)
        /\ Upto(Past(Past(text, SP), SP), SP) \in Seq(Bytes)
    BY <1>2, PartsAreStrings
  <2> QED
    BY <2>1 DEF Raw, Slots
<1>4. \A k \in Slots : Words(text)[k] = Cut(Raw(text, k), Size(k))
  BY DEF Words, Raw, Slots
<1>5. \A k \in Slots : /\ Cut(Raw(text, k), Size(k)) \in Seq(Bytes)
                       /\ Len(Cut(Raw(text, k), Size(k))) <= Size(k)
  <2> SUFFICES ASSUME NEW k \in Slots
               PROVE  /\ Cut(Raw(text, k), Size(k)) \in Seq(Bytes)
                      /\ Len(Cut(Raw(text, k), Size(k))) <= Size(k)
    OBVIOUS
  <2>1. CR \in Bytes
    BY DEF Bytes
  <2> QED
    BY <1>1, <1>3, <2>1, CutAppend
<1>6. Words(text) = [k \in Slots |-> Cut(Raw(text, k), Size(k))]
  BY DEF Words, Raw, Slots
<1>7. Words(text) \in [Slots -> Seq(Bytes)]
  BY <1>5, <1>6
<1> QED
  BY <1>3, <1>4, <1>5, <1>7

\* A string of one byte more, as a function of the words before they are cut.
LEMMA WordsGrow ==
    ASSUME NEW s \in Seq(Bytes), NEW t \in Seq(Bytes), NEW k \in Slots, NEW b \in Bytes,
           Raw(t, k) = Append(Raw(s, k), b),
           \A j \in Slots \ {k} : Raw(t, j) = Raw(s, j)
    PROVE  Words(t) = GrownAt(Words(s), k, b)
<1>1. \A j \in Slots \ {k} : Words(t)[j] = Words(s)[j]
  BY WordsType
<1>2. Size(k) \in Nat
  BY TokenizerOK DEF TokenizerAssumption, Size
<1>3. Words(t)[k] = Grown(Words(s)[k], b, Size(k))
  <2>1. Words(t)[k] = Cut(Append(Raw(s, k), b), Size(k)) /\ Words(s)[k] = Cut(Raw(s, k), Size(k))
    BY WordsType
  <2>2. Raw(s, k) \in Seq(Bytes)
    BY WordsType
  <2> QED
    BY <1>2, <2>1, <2>2, CutAppend DEF Grown
<1>4. Words(s) \in [Slots -> Seq(Bytes)] /\ Words(t) \in [Slots -> Seq(Bytes)]
  BY WordsType
<1> QED
  BY <1>1, <1>3, <1>4 DEF GrownAt

\* The words that stay as they are.
LEMMA WordsStay ==
    ASSUME NEW s \in Seq(Bytes), NEW t \in Seq(Bytes),
           \A j \in Slots : Raw(t, j) = Raw(s, j)
    PROVE  Words(t) = Words(s)
<1>1. \A j \in Slots : Words(t)[j] = Words(s)[j]
  BY WordsType
<1>2. Words(s) \in [Slots -> Seq(Bytes)] /\ Words(t) \in [Slots -> Seq(Bytes)]
  BY WordsType
<1> QED
  BY <1>1, <1>2

\* A space moves the automaton on and changes no word.
LEMMA SpaceAppended ==
    ASSUME NEW text \in Seq(Bytes)
    PROVE  /\ Words(Append(text, SP)) = Words(text)
           /\ Stage(text) = "COMMAND_STATE" => /\ Stage(Append(text, SP)) = "FIRST_ARG_STATE"
                                               /\ Words(text)[1] = <<>>
           /\ Stage(text) = "FIRST_ARG_STATE" => /\ Stage(Append(text, SP)) = "SECOND_ARG_STATE"
                                                 /\ Words(text)[2] = <<>>
           /\ Stage(text) = "SECOND_ARG_STATE" => Stage(Append(text, SP)) = "ERR0R_STATE"
           /\ Stage(text) = "ERR0R_STATE" => Stage(Append(text, SP)) = "ERR0R_STATE"
<1> DEFINE t == Append(text, SP)
           p == Past(text, SP)
           q == Past(p, SP)
<1>1. SP \in Bytes /\ t \in Seq(Bytes) /\ p \in Seq(Bytes) /\ q \in Seq(Bytes)
      /\ Append(p, SP) \in Seq(Bytes) /\ <<>> \in Seq(Bytes)
  <2>1. SP \in Bytes
    BY DEF Bytes
  <2>2. p \in Seq(Bytes) /\ q \in Seq(Bytes)
    BY PartsAreStrings
  <2> HIDE DEF p, q
  <2> QED
    BY <2>1, <2>2
<1>2. Upto(<<>>, SP) = <<>> /\ Past(<<>>, SP) = <<>> /\ ~Has(<<>>, SP)
  <2>1. ~Has(<<>>, SP)
    BY DEF Has
  <2> DEFINE e == <<>>
  <2>2. e \in Seq(Bytes) /\ ~Has(e, SP)
    BY <1>1, <2>1
  <2> HIDE DEF e
  <2>3. Upto(e, SP) = e /\ Past(e, SP) = <<>>
    BY <1>1, <2>2, AppendBefore
  <2> QED
    BY <2>1, <2>3 DEF e
<1>3. \A n \in Nat : Cut(<<>>, n) = <<>>
  BY DEF Cut
<1>4. Size(1) \in Nat /\ Size(2) \in Nat
  BY TokenizerOK DEF TokenizerAssumption, Size
<1>5. CASE ~Has(text, SP)
  <2>1. Stage(text) = "COMMAND_STATE"
    BY <1>5 DEF Stage
  <2>2. Upto(t, SP) = text /\ Upto(text, SP) = text /\ Past(t, SP) = <<>> /\ p = <<>> /\ Has(t, SP)
    BY <1>1, <1>5, AppendBefore
  <2>3. Stage(t) = "FIRST_ARG_STATE"
    BY <1>2, <2>2 DEF Stage
  <2>4. \A j \in Slots : Raw(t, j) = Raw(text, j)
    BY <2>2 DEF Raw, Slots
  <2>5. Words(t) = Words(text)
    BY <1>1, <2>4, WordsStay
  <2>6. Raw(text, 1) = <<>>
    BY <1>2, <2>2 DEF Raw
  <2>7. Words(text)[1] = <<>>
    BY <1>3, <1>4, <2>6, WordsType DEF Slots
  <2> QED
    BY <2>1, <2>3, <2>5, <2>7
<1>6. CASE Has(text, SP) /\ ~Has(p, SP)
  <2>1. Stage(text) = "FIRST_ARG_STATE"
    BY <1>6 DEF Stage
  <2>2. Has(t, SP) /\ Upto(t, SP) = Upto(text, SP) /\ Past(t, SP) = Append(p, SP)
    BY <1>1, <1>6, AppendBehind
  <2>3. /\ Upto(Append(p, SP), SP) = p /\ Upto(p, SP) = p
        /\ Past(Append(p, SP), SP) = <<>> /\ q = <<>> /\ Has(Append(p, SP), SP)
    BY <1>1, <1>6, AppendBefore
  <2>4. Stage(t) = "SECOND_ARG_STATE"
    BY <1>2, <2>2, <2>3 DEF Stage
  <2>5. \A j \in Slots : Raw(t, j) = Raw(text, j)
    BY <2>2, <2>3 DEF Raw, Slots
  <2>6. Words(t) = Words(text)
    BY <1>1, <2>5, WordsStay
  <2>7. Raw(text, 2) = <<>>
    BY <1>2, <2>3 DEF Raw
  <2>8. Words(text)[2] = <<>>
    BY <1>3, <1>4, <2>7, WordsType DEF Slots
  <2> QED
    BY <2>1, <2>4, <2>6, <2>8
<1>7. CASE Has(text, SP) /\ Has(p, SP)
  <2>1. Has(t, SP) /\ Upto(t, SP) = Upto(text, SP) /\ Past(t, SP) = Append(p, SP)
    BY <1>1, <1>7, AppendBehind
  <2>2. /\ Has(Append(p, SP), SP) /\ Upto(Append(p, SP), SP) = Upto(p, SP)
        /\ Past(Append(p, SP), SP) = Append(q, SP)
    BY <1>1, <1>7, AppendBehind
  <2>3. Has(Append(q, SP), SP) /\ Upto(Append(q, SP), SP) = Upto(q, SP)
    BY <1>1, AppendBehind, AppendBefore
  <2>4. Stage(t) = "ERR0R_STATE"
    BY <2>1, <2>2, <2>3 DEF Stage
  <2>5. Stage(text) \in {"SECOND_ARG_STATE", "ERR0R_STATE"}
    BY <1>7 DEF Stage
  <2>6. \A j \in Slots : Raw(t, j) = Raw(text, j)
    BY <2>1, <2>2, <2>3 DEF Raw, Slots
  <2>7. Words(t) = Words(text)
    BY <1>1, <2>6, WordsStay
  <2> QED
    BY <2>4, <2>5, <2>7
<1> QED
  BY <1>5, <1>6, <1>7

\* Another byte leaves the automaton where it is and grows the word it is in.
LEMMA ByteAppended ==
    ASSUME NEW text \in Seq(Bytes), NEW b \in Bytes, b # SP
    PROVE  /\ Stage(Append(text, b)) = Stage(text)
           /\ Stage(text) = "COMMAND_STATE" =>
                Words(Append(text, b)) = GrownAt(Words(text), 0, b)
           /\ Stage(text) = "FIRST_ARG_STATE" =>
                Words(Append(text, b)) = GrownAt(Words(text), 1, b)
           /\ Stage(text) = "SECOND_ARG_STATE" =>
                Words(Append(text, b)) = GrownAt(Words(text), 2, b)
           /\ Stage(text) = "ERR0R_STATE" => Words(Append(text, b)) = Words(text)
<1> DEFINE t == Append(text, b)
           p == Past(text, SP)
           q == Past(p, SP)
<1>0. 0 \in Slots /\ 1 \in Slots /\ 2 \in Slots
  BY DEF Slots
<1>1. t \in Seq(Bytes) /\ p \in Seq(Bytes) /\ q \in Seq(Bytes)
  <2>1. p \in Seq(Bytes) /\ q \in Seq(Bytes)
    BY PartsAreStrings
  <2> QED
    BY <2>1
<1>2. CASE ~Has(text, SP)
  <2>1. /\ ~Has(t, SP) /\ Upto(t, SP) = Append(Upto(text, SP), b) /\ Past(t, SP) = p
    BY <1>2, AppendBefore
  <2>2. Stage(text) = "COMMAND_STATE" /\ Stage(t) = "COMMAND_STATE"
    BY <1>2, <2>1 DEF Stage
  <2>3. Raw(t, 0) = Append(Raw(text, 0), b) /\ \A j \in Slots \ {0} : Raw(t, j) = Raw(text, j)
    BY <2>1 DEF Raw, Slots
  <2>4. Words(t) = GrownAt(Words(text), 0, b)
    BY <1>0, <1>1, <2>3, WordsGrow
  <2> QED
    BY <2>2, <2>4
<1>3. CASE Has(text, SP)
  <2>1. Has(t, SP) /\ Upto(t, SP) = Upto(text, SP) /\ Past(t, SP) = Append(p, b)
    BY <1>3, AppendBehind
  <2>2. CASE ~Has(p, SP)
    <3>1. /\ ~Has(Append(p, b), SP) /\ Upto(Append(p, b), SP) = Append(Upto(p, SP), b)
          /\ Past(Append(p, b), SP) = q
      BY <1>1, <2>2, AppendBefore
    <3>2. Stage(text) = "FIRST_ARG_STATE" /\ Stage(t) = "FIRST_ARG_STATE"
      BY <1>3, <2>1, <2>2, <3>1 DEF Stage
    <3>3. Raw(t, 1) = Append(Raw(text, 1), b) /\ \A j \in Slots \ {1} : Raw(t, j) = Raw(text, j)
      BY <2>1, <3>1 DEF Raw, Slots
    <3>4. Words(t) = GrownAt(Words(text), 1, b)
      BY <1>0, <1>1, <3>3, WordsGrow
    <3> QED
      BY <3>2, <3>4
  <2>3. CASE Has(p, SP)
    <3>1. /\ Has(Append(p, b), SP) /\ Upto(Append(p, b), SP) = Upto(p, SP)
          /\ Past(Append(p, b), SP) = Append(q, b)
      BY <1>1, <2>3, AppendBehind
    <3>2. CASE ~Has(q, SP)
      <4>1. ~Has(Append(q, b), SP) /\ Upto(Append(q, b), SP) = Append(Upto(q, SP), b)
        BY <1>1, <3>2, AppendBefore
      <4>2. Stage(text) = "SECOND_ARG_STATE" /\ Stage(t) = "SECOND_ARG_STATE"
        BY <1>3, <2>1, <2>3, <3>1, <3>2, <4>1 DEF Stage
      <4>3. Raw(t, 2) = Append(Raw(text, 2), b) /\ \A j \in Slots \ {2} : Raw(t, j) = Raw(text, j)
        BY <2>1, <3>1, <4>1 DEF Raw, Slots
      <4>4. Words(t) = GrownAt(Words(text), 2, b)
        BY <1>0, <1>1, <4>3, WordsGrow
      <4> QED
        BY <4>2, <4>4
    <3>3. CASE Has(q, SP)
      <4>1. Has(Append(q, b), SP) /\ Upto(Append(q, b), SP) = Upto(q, SP)
        BY <1>1, <3>3, AppendBehind
      <4>2. Stage(text) = "ERR0R_STATE" /\ Stage(t) = "ERR0R_STATE"
        BY <1>3, <2>1, <2>3, <3>1, <3>3, <4>1 DEF Stage
      <4>3. \A j \in Slots : Raw(t, j) = Raw(text, j)
        BY <2>1, <3>1, <4>1 DEF Raw, Slots
      <4>4. Words(t) = Words(text)
        BY <1>1, <4>3, WordsStay
      <4> QED
        BY <4>2, <4>4
    <3> QED
      BY <3>2, <3>3
  <2> QED
    BY <2>2, <2>3
<1> QED
  BY <1>2, <1>3

-----------------------------------------------------------------------------
(* The inductive invariant. *)

\* The bytes of the line that is under way, and its text.
Current == IF complete THEN <<>> ELSE line
Text == Upto(Current, CR)

\* The automaton is where the text takes it, or knows whether the last byte was a CR.
StateInv ==
    IF Has(Current, CR)
    THEN /\ state \in {"FINAL_STATE", "ERR0R_STATE"}
         /\ state = "FINAL_STATE" <=> Current[Len(Current)] = CR
    ELSE state = Stage(Current)

\* The index is at the end of the word that is being stored.
IndexInv ==
    /\ state = "COMMAND_STATE" => index = Len(commands[0])
    /\ state = "FIRST_ARG_STATE" => index = Len(commands[1])
    /\ state = "SECOND_ARG_STATE" => index = Len(commands[2])

IInv ==
    /\ TypeOK
    /\ StateInv /\ IndexInv
    /\ commands = Words(Text)
    /\ Ends(Current) = {}
    /\ ReadsTheLine
    /\ OneCommandPerLine

\* The end of a line is an LF behind a CR.
LEMMA EndsAppend ==
    ASSUME NEW s \in Seq(Bytes), NEW b \in Bytes, Ends(s) = {}
    PROVE  Ends(Append(s, b)) = IF b = LF /\ Has(s, CR) /\ s[Len(s)] = CR
                                THEN {Len(s) + 1} ELSE {}
<1> DEFINE t == Append(s, b)
<1>1. /\ Len(s) \in Nat /\ Len(t) = Len(s) + 1 /\ t[Len(s) + 1] = b
      /\ \A i \in 1..Len(s) : t[i] = s[i]
  BY AppendProperties
<1>2. \A i \in 2..Len(s) : ~(s[i - 1] = CR /\ s[i] = LF)
  BY DEF Ends
<1>3. Has(s, CR) => Len(s) >= 1
  BY <1>1 DEF Has
<1>4. Len(s) >= 1 /\ s[Len(s)] = CR => Has(s, CR)
  BY <1>1 DEF Has
<1> HIDE DEF t
<1>5. \A i \in 2..Len(t) : t[i - 1] = CR /\ t[i] = LF
                            <=> i = Len(s) + 1 /\ b = LF /\ Len(s) >= 1 /\ s[Len(s)] = CR
  <2> SUFFICES ASSUME NEW i \in 2..Len(t)
               PROVE  t[i - 1] = CR /\ t[i] = LF
                            <=> i = Len(s) + 1 /\ b = LF /\ Len(s) >= 1 /\ s[Len(s)] = CR
    OBVIOUS
  <2>1. CASE i = Len(s) + 1
    BY <1>1, <2>1
  <2>2. CASE i \in 2..Len(s)
    BY <1>1, <1>2, <2>2
  <2> QED
    BY <1>1, <2>1, <2>2
<1>6. Ends(t) = {i \in 2..Len(t) : i = Len(s) + 1 /\ b = LF /\ Len(s) >= 1 /\ s[Len(s)] = CR}
  BY <1>5 DEF Ends
<1>7. Ends(t) = IF b = LF /\ Has(s, CR) /\ s[Len(s)] = CR THEN {Len(s) + 1} ELSE {}
  BY <1>1, <1>3, <1>4, <1>6
<1> QED
  BY <1>7 DEF t

\* CR is no text, and a text with a CR is not changed by what follows.
LEMMA TextAppend ==
    ASSUME NEW s \in Seq(Bytes), NEW b \in Bytes
    PROVE  /\ Upto(s, CR) \in Seq(Bytes)
           /\ Has(s, CR) \/ b = CR => /\ Has(Append(s, b), CR)
                                      /\ Upto(Append(s, b), CR) = Upto(s, CR)
           /\ ~Has(s, CR) => Upto(s, CR) = s
           /\ ~Has(s, CR) /\ b # CR => /\ ~Has(Append(s, b), CR)
                                       /\ Upto(Append(s, b), CR) = Append(s, b)
           /\ Append(s, b)[Len(Append(s, b))] = b
<1>1. Upto(s, CR) \in Seq(Bytes)
  BY PartsAreStrings
<1>2. Append(s, b)[Len(Append(s, b))] = b
  BY AppendProperties
<1>3. CASE Has(s, CR)
  BY <1>1, <1>2, <1>3, AppendBehind
<1>4. CASE ~Has(s, CR)
  BY <1>1, <1>2, <1>4, AppendBefore
<1> QED
  BY <1>3, <1>4

\* What feeding a byte that completes nothing does to the line.
LEMMA FeedStep ==
    ASSUME TypeOK, NEW b \in Bytes, Feed(b), complete' = FALSE
    PROVE  /\ Current \in Seq(Bytes)
           /\ line' = Append(Current, b) /\ line' \in Seq(Bytes)
           /\ Current' = Append(Current, b)
           /\ called' = NoCommand
<1>1. Current \in Seq(Bytes)
  BY DEF TypeOK, Current
<1>2. line' = Append(Current, b)
  <2>1. <<b>> = Append(<<>>, b)
    OBVIOUS
  <2> QED
    BY <2>1 DEF Feed, Current
<1>3. Current' = line'
  BY DEF Current
<1>4. Append(Current, b) \in Seq(Bytes)
  BY <1>1, AppendProperties
<1>5. called' = NoCommand
  BY DEF Feed
<1> QED
  BY <1>1, <1>2, <1>3, <1>4, <1>5

\* A fed byte that completes nothing keeps what the invariant says of the line.
LEMMA FeedKeepsLines ==
    ASSUME IInv, NEW b \in Bytes, Feed(b), complete' = FALSE,
           b # LF \/ state # "FINAL_STATE"
    PROVE  Ends(Current)' = {} /\ ReadsTheLine' /\ OneCommandPerLine'
<1>1. /\ Current \in Seq(Bytes) /\ line' = Append(Current, b) /\ Current' = Append(Current, b)
  BY FeedStep DEF IInv
<1>2. ~(b = LF /\ Has(Current, CR) /\ Current[Len(Current)] = CR)
  BY DEF IInv, StateInv
<1>3. Ends(Append(Current, b)) = {}
  BY <1>1, <1>2, EndsAppend DEF IInv
<1>4. Ends(Current)' = {} /\ Ends(line)' = {}
  BY <1>1, <1>3 DEF Ends
<1> QED
  BY <1>4 DEF ReadsTheLine, OneCommandPerLine

\* A step that stores nothing and completes nothing keeps the types.
LEMMA FeedKeepsTypes ==
    ASSUME IInv, NEW b \in Bytes, Feed(b), complete' = FALSE, state' \in States,
           commands' = commands, index' \in Nat
    PROVE  TypeOK'
<1>1. line' \in Seq(Bytes) /\ called' = NoCommand
  BY FeedStep DEF IInv
<1>2. \A k \in Slots : Size(k) \in Nat
  BY TokenizerOK DEF TokenizerAssumption, Size
<1>3. NoCommand \in [Slots -> Seq(Bytes)] /\ \A k \in Slots : Len(NoCommand[k]) <= Size(k)
  BY <1>2 DEF NoCommand
<1> QED
  BY <1>1, <1>3 DEF IInv, TypeOK

-----------------------------------------------------------------------------
(* The steps. *)

\* The words of nothing.
LEMMA EmptyText == Words(<<>>) = NoCommand
<1> DEFINE e == <<>>
<1>1. \A k \in Slots : Size(k) \in Nat
  BY TokenizerOK DEF TokenizerAssumption, Size
<1>2. \A n \in Nat : Cut(e, n) = e
  BY DEF Cut
<1>3. e \in Seq(Bytes) /\ ~Has(e, SP) /\ SP \in Bytes
  BY DEF Has, Bytes
<1> HIDE DEF e
<1>4. Upto(e, SP) = e /\ Past(e, SP) = <<>>
  BY <1>3, AppendBefore
<1>5. \A k \in Slots : Raw(e, k) = e
  BY <1>4 DEF Raw, Slots, e
<1>6. \A k \in Slots : Words(e)[k] = e
  BY <1>1, <1>2, <1>3, <1>5, WordsType
<1>7. Words(e) \in [Slots -> Seq(Bytes)]
  BY <1>3, WordsType
<1>8. Words(e) = [k \in Slots |-> e]
  BY <1>6, <1>7
<1> QED
  BY <1>8 DEF NoCommand, e

\* IInv holds before the first byte.
LEMMA InitEstablishes == Init => IInv
<1> SUFFICES ASSUME Init PROVE IInv
  OBVIOUS
<1>1. \A k \in Slots : Size(k) \in Nat
  BY TokenizerOK DEF TokenizerAssumption, Size
<1>2. TypeOK
  <2>1. NoCommand \in [Slots -> Seq(Bytes)] /\ \A k \in Slots : Len(NoCommand[k]) <= Size(k)
    BY <1>1 DEF NoCommand
  <2>2. commands = NoCommand /\ called = NoCommand /\ index \in Nat /\ line \in Seq(Bytes)
    BY DEF Init
  <2>3. complete \in BOOLEAN /\ state \in States
    BY DEF Init, States
  <2> QED
    BY <2>1, <2>2, <2>3 DEF TypeOK
<1>3. Current = <<>> /\ line = <<>> /\ ~Has(Current, CR) /\ ~Has(Current, SP)
  BY DEF Init, Current, Has
<1>4. Current \in Seq(Bytes)
  BY <1>2 DEF TypeOK, Current
<1>5. Text = <<>>
  BY <1>3, <1>4, AppendBefore, TextAppend DEF Text, Bytes
<1>6. Words(Text) = NoCommand
  BY <1>5, EmptyText
<1>7. StateInv
  BY <1>3 DEF Init, StateInv, Stage
<1>8. IndexInv
  BY DEF Init, IndexInv, NoCommand, Slots
<1>9. Ends(<<>>) = {}
  BY DEF Ends
<1> QED
  BY <1>2, <1>3, <1>6, <1>7, <1>8, <1>9
     DEF IInv, Init, ReadsTheLine, OneCommandPerLine

\* The space between two words keeps it.
LEMMA SpaceStep == IInv /\ restart_index => IInv'
<1> SUFFICES ASSUME IInv, restart_index PROVE IInv'
  OBVIOUS
<1>1. SP \in Bytes /\ SP # CR /\ SP # LF
  BY TokenizerOK DEF TokenizerAssumption, Bytes
<1>2. Feed(SP) /\ complete' = FALSE /\ state' \in States /\ commands' = commands /\ index' = 0
  BY DEF restart_index, Goes, States
<1>3. TypeOK'
  BY <1>1, <1>2, FeedKeepsTypes
<1>4. Ends(Current)' = {} /\ ReadsTheLine' /\ OneCommandPerLine'
  BY <1>1, <1>2, FeedKeepsLines
<1>5. Current \in Seq(Bytes) /\ Current' = Append(Current, SP)
  BY <1>1, <1>2, FeedStep DEF IInv
<1>6. ~Has(Current, CR) /\ state = Stage(Current)
  BY DEF IInv, StateInv, restart_index, Goes
<1>7. /\ ~Has(Append(Current, SP), CR) /\ Upto(Append(Current, SP), CR) = Append(Current, SP)
      /\ Upto(Current, CR) = Current
  BY <1>1, <1>5, <1>6, TextAppend
<1>8. StateInv'
  <2>1. state' = Stage(Append(Current, SP))
    BY <1>5, <1>6, SpaceAppended DEF restart_index, Goes
  <2> QED
    BY <1>5, <1>7, <2>1 DEF StateInv
<1>9. (commands = Words(Text))'
  <2>1. Text = Current /\ Text' = Append(Current, SP)
    BY <1>5, <1>7 DEF Text, Upto, Place
  <2>2. commands = Words(Current) /\ Words(Append(Current, SP)) = Words(Current)
    BY <1>5, <2>1, SpaceAppended DEF IInv
  <2> QED
    BY <1>2, <2>1, <2>2
<1>10. IndexInv'
  <2>1. commands = Words(Current)
    BY <1>7 DEF IInv, Text
  <2>2. /\ state' = "FIRST_ARG_STATE" => commands[1] = <<>>
        /\ state' = "SECOND_ARG_STATE" => commands[2] = <<>>
        /\ state' \in {"FIRST_ARG_STATE", "SECOND_ARG_STATE"}
    BY <1>5, <1>6, <2>1, SpaceAppended DEF restart_index, Goes
  <2> QED
    BY <1>2, <2>2 DEF IndexInv
<1> QED
  BY <1>3, <1>4, <1>8, <1>9, <1>10 DEF IInv

\* So does a space behind the third word.
LEMMA ThirdSpaceStep == IInv /\ TooManyArguments => IInv'
<1> SUFFICES ASSUME IInv, TooManyArguments PROVE IInv'
  OBVIOUS
<1>1. SP \in Bytes /\ SP # CR /\ SP # LF
  BY TokenizerOK DEF TokenizerAssumption, Bytes
<1>2. /\ Feed(SP) /\ complete' = FALSE /\ state' = "ERR0R_STATE" /\ state' \in States
      /\ commands' = commands /\ index' = index /\ index' \in Nat
  BY DEF TooManyArguments, Goes, States, IInv, TypeOK
<1>3. TypeOK'
  BY <1>1, <1>2, FeedKeepsTypes
<1>4. Ends(Current)' = {} /\ ReadsTheLine' /\ OneCommandPerLine'
  BY <1>1, <1>2, FeedKeepsLines
<1>5. Current \in Seq(Bytes) /\ Current' = Append(Current, SP)
  BY <1>1, <1>2, FeedStep DEF IInv
<1>6. ~Has(Current, CR) /\ state = Stage(Current) /\ state = "SECOND_ARG_STATE"
  BY DEF IInv, StateInv, TooManyArguments, Goes
<1>7. /\ ~Has(Append(Current, SP), CR) /\ Upto(Append(Current, SP), CR) = Append(Current, SP)
      /\ Upto(Current, CR) = Current
  BY <1>1, <1>5, <1>6, TextAppend
<1>8. StateInv'
  <2>1. state' = Stage(Append(Current, SP))
    BY <1>2, <1>5, <1>6, SpaceAppended
  <2> QED
    BY <1>5, <1>7, <2>1 DEF StateInv
<1>9. (commands = Words(Text))'
  <2>1. Text = Current /\ Text' = Append(Current, SP)
    BY <1>5, <1>7 DEF Text, Upto, Place
  <2>2. commands = Words(Current) /\ Words(Append(Current, SP)) = Words(Current)
    BY <1>5, <2>1, SpaceAppended DEF IInv
  <2> QED
    BY <1>2, <2>1, <2>2
<1>10. IndexInv'
  BY <1>2 DEF IndexInv
<1> QED
  BY <1>3, <1>4, <1>8, <1>9, <1>10 DEF IInv

\* Where the text is over, a byte changes no word.
LEMMA AfterText ==
    ASSUME IInv, NEW b \in Bytes, Feed(b), complete' = FALSE,
           b # LF \/ state # "FINAL_STATE",
           Has(Current, CR) \/ b = CR,
           state' \in {"FINAL_STATE", "ERR0R_STATE"},
           state' = "FINAL_STATE" <=> b = CR,
           commands' = commands, index' = index
    PROVE  IInv'
<1>1. TypeOK'
  BY FeedKeepsTypes DEF IInv, TypeOK, States
<1>2. Ends(Current)' = {} /\ ReadsTheLine' /\ OneCommandPerLine'
  BY FeedKeepsLines
<1>3. Current \in Seq(Bytes) /\ Current' = Append(Current, b)
  BY FeedStep DEF IInv
<1>4. /\ Has(Append(Current, b), CR) /\ Upto(Append(Current, b), CR) = Upto(Current, CR)
      /\ Append(Current, b)[Len(Append(Current, b))] = b
  BY <1>3, TextAppend
<1>5. StateInv'
  BY <1>3, <1>4 DEF StateInv
<1>6. (commands = Words(Text))'
  <2>1. Text' = Text
    BY <1>3, <1>4 DEF Text, Upto, Place
  <2> QED
    BY <2>1 DEF IInv
<1>7. IndexInv'
  BY DEF IndexInv
<1> QED
  BY <1>1, <1>2, <1>5, <1>6, <1>7 DEF IInv

\* So does the CR that ends the text of a line.
LEMMA EndOfTextStep == IInv /\ EndOfText => IInv'
<1> SUFFICES ASSUME IInv, EndOfText PROVE IInv'
  OBVIOUS
<1>1. CR \in Bytes /\ CR # LF
  BY TokenizerOK DEF TokenizerAssumption, Bytes
<1>2. /\ Feed(CR) /\ complete' = FALSE /\ state' = "FINAL_STATE"
      /\ commands' = commands /\ index' = index
  BY DEF EndOfText, Goes
<1> QED
  BY <1>1, <1>2, AfterText

\* Bytes in an error that came before the CR: the fourth word and on.
LEMMA DroppedByte ==
    ASSUME IInv, NEW b \in Bytes, b # CR, Feed(b), ~Has(Current, CR),
           Goes("ERR0R_STATE", "ERR0R_STATE"), commands' = commands, index' = index
    PROVE  IInv'
<1>1. /\ complete' = FALSE /\ state = "ERR0R_STATE" /\ state' = "ERR0R_STATE"
      /\ state' \in States /\ index' \in Nat
  BY DEF Goes, States, IInv, TypeOK
<1>2. TypeOK'
  BY <1>1, FeedKeepsTypes
<1>3. Ends(Current)' = {} /\ ReadsTheLine' /\ OneCommandPerLine'
  BY <1>1, FeedKeepsLines
<1>4. Current \in Seq(Bytes) /\ Current' = Append(Current, b)
  BY <1>1, FeedStep DEF IInv
<1>5. /\ ~Has(Append(Current, b), CR) /\ Upto(Append(Current, b), CR) = Append(Current, b)
      /\ Upto(Current, CR) = Current
  BY <1>4, TextAppend
<1>6. Stage(Current) = "ERR0R_STATE"
  BY <1>1 DEF IInv, StateInv
<1>7. Stage(Append(Current, b)) = "ERR0R_STATE" /\ Words(Append(Current, b)) = Words(Current)
  <2>1. CASE b = SP
    BY <1>4, <1>6, <2>1, SpaceAppended
  <2>2. CASE b # SP
    BY <1>4, <1>6, <2>2, ByteAppended
  <2> QED
    BY <2>1, <2>2
<1>8. StateInv'
  BY <1>1, <1>4, <1>5, <1>7 DEF StateInv
<1>9. (commands = Words(Text))'
  <2>1. Text = Current /\ Text' = Append(Current, b)
    BY <1>4, <1>5 DEF Text, Upto, Place
  <2> QED
    BY <1>7, <2>1 DEF IInv
<1>10. IndexInv'
  BY <1>1 DEF IndexInv
<1> QED
  BY <1>2, <1>3, <1>8, <1>9, <1>10 DEF IInv

\* So does a byte between CR and LF.
LEMMA StrayStep == IInv /\ Stray => IInv'
<1> SUFFICES ASSUME IInv, Stray PROVE IInv'
  OBVIOUS
<1>1. PICK b \in Bytes \ {CR} :
        /\ Feed(b)
        /\ \/ b # LF /\ Goes("FINAL_STATE", "ERR0R_STATE")
           \/ Goes("ERR0R_STATE", "ERR0R_STATE")
  BY DEF Stray
<1>2. commands' = commands /\ index' = index /\ b \in Bytes /\ b # CR
  BY <1>1 DEF Stray
<1>3. CASE Has(Current, CR)
  <2>1. /\ complete' = FALSE /\ state' = "ERR0R_STATE"
        /\ b # LF \/ state # "FINAL_STATE"
    BY <1>1 DEF Goes
  <2> QED
    BY <1>1, <1>2, <1>3, <2>1, AfterText
<1>4. CASE ~Has(Current, CR)
  <2>1. Goes("ERR0R_STATE", "ERR0R_STATE")
    BY <1>1, <1>4 DEF IInv, StateInv, Stage, Goes
  <2> QED
    BY <1>1, <1>2, <1>4, <2>1, DroppedByte
<1> QED
  BY <1>3, <1>4

\* store puts the byte at the end of the word and stays within its size.
LEMMA StoreGrows ==
    ASSUME TypeOK, NEW k \in Slots, NEW b \in Bytes, store(k, b), index = Len(commands[k])
    PROVE  /\ commands' = GrownAt(commands, k, b)
           /\ commands' \in [Slots -> Seq(Bytes)]
           /\ \A j \in Slots : Len(commands'[j]) <= Size(j)
           /\ index' = Len(commands'[k]) /\ index' \in Nat
<1>1. /\ commands \in [Slots -> Seq(Bytes)] /\ commands[k] \in Seq(Bytes)
      /\ \A j \in Slots : Len(commands[j]) <= Size(j)
      /\ Len(commands[k]) \in Nat
  BY DEF TypeOK
<1>2. Size(k) \in Nat
  BY TokenizerOK DEF TokenizerAssumption, Size
<1>3. CASE index < Size(k)
  <2> DEFINE w == [i \in 1..index + 1 |-> IF i <= index THEN commands[k][i] ELSE b]
  <2>1. commands' = [commands EXCEPT ![k] = w] /\ index' = index + 1
    BY <1>3 DEF store
  <2>2. w = Append(commands[k], b)
    <3>1. /\ Append(commands[k], b) \in Seq(Bytes)
          /\ Len(Append(commands[k], b)) = index + 1
          /\ \A i \in 1..index : Append(commands[k], b)[i] = commands[k][i]
          /\ Append(commands[k], b)[index + 1] = b
      BY <1>1, AppendProperties
    <3> DEFINE v == Append(commands[k], b)
    <3>2. v \in [1..index + 1 -> Bytes]
      BY <1>1, <3>1, LenProperties
    <3> HIDE DEF v
    <3>3. \A i \in 1..index + 1 : v[i] = w[i]
      BY <1>1, <3>1 DEF v
    <3>4. v = w
      BY <3>2, <3>3
    <3> QED
      BY <3>4 DEF v
  <2>3. /\ Append(commands[k], b) \in Seq(Bytes) /\ Len(Append(commands[k], b)) = index + 1
    BY <1>1, AppendProperties
  <2> HIDE DEF w
  <2>4. commands' = [commands EXCEPT ![k] = Append(commands[k], b)]
    BY <2>1, <2>2
  <2>5. commands' = GrownAt(commands, k, b)
    BY <1>3, <2>4 DEF GrownAt, Grown
  <2>6. commands' \in [Slots -> Seq(Bytes)] /\ commands'[k] = Append(commands[k], b)
    BY <1>1, <2>3, <2>4
  <2>7. \A j \in Slots : Len(commands'[j]) <= Size(j)
    <3> SUFFICES ASSUME NEW j \in Slots PROVE Len(commands'[j]) <= Size(j)
      OBVIOUS
    <3>1. CASE j = k
      BY <1>1, <1>2, <1>3, <2>3, <2>6, <3>1
    <3>2. CASE j # k
      BY <1>1, <2>4, <3>2
    <3> QED
      BY <3>1, <3>2
  <2> QED
    BY <1>1, <2>1, <2>3, <2>5, <2>6, <2>7
<1>4. CASE ~(index < Size(k))
  <2>1. commands' = commands /\ index' = index
    BY <1>4 DEF store
  <2>2. GrownAt(commands, k, b) = commands
    BY <1>1, <1>4 DEF GrownAt, Grown
  <2> QED
    BY <1>1, <2>1, <2>2
<1> QED
  BY <1>3, <1>4

\* A byte of the k-th word.
LEMMA WordByte ==
    ASSUME IInv, NEW k \in Slots, NEW b \in Others \cup {LF}, Feed(b), complete' = FALSE,
           NEW st, state = st, state' = st,
           \/ k = 0 /\ st = "COMMAND_STATE"
           \/ k = 1 /\ st = "FIRST_ARG_STATE"
           \/ k = 2 /\ st = "SECOND_ARG_STATE",
           store(k, b)
    PROVE  IInv'
<1>1. b \in Bytes /\ b # SP /\ b # CR
  BY TokenizerOK DEF TokenizerAssumption, Bytes
<1>2. TypeOK /\ index = Len(commands[k]) /\ state # "FINAL_STATE"
  BY DEF IInv, IndexInv
<1>3. /\ commands' = GrownAt(commands, k, b)
      /\ commands' \in [Slots -> Seq(Bytes)]
      /\ \A j \in Slots : Len(commands'[j]) <= Size(j)
      /\ index' = Len(commands'[k]) /\ index' \in Nat
  BY <1>1, <1>2, StoreGrows
<1>4. /\ Current \in Seq(Bytes) /\ line' \in Seq(Bytes)
      /\ Current' = Append(Current, b) /\ called' = NoCommand
  BY <1>1, <1>2, FeedStep
<1>5. TypeOK'
  <2>1. \A j \in Slots : Size(j) \in Nat
    BY TokenizerOK DEF TokenizerAssumption, Size
  <2>2. NoCommand \in [Slots -> Seq(Bytes)] /\ \A j \in Slots : Len(NoCommand[j]) <= Size(j)
    BY <2>1 DEF NoCommand
  <2>3. state' \in States /\ complete' \in BOOLEAN
    BY <1>2 DEF TypeOK
  <2> QED
    BY <1>3, <1>4, <2>2, <2>3 DEF TypeOK
<1>6. Ends(Current)' = {} /\ ReadsTheLine' /\ OneCommandPerLine'
  BY <1>1, <1>2, FeedKeepsLines
<1>7. ~Has(Current, CR) /\ Stage(Current) = st
  BY DEF IInv, StateInv
<1>8. /\ ~Has(Append(Current, b), CR) /\ Upto(Append(Current, b), CR) = Append(Current, b)
      /\ Upto(Current, CR) = Current
  BY <1>1, <1>4, <1>7, TextAppend
<1>9. /\ Stage(Append(Current, b)) = st
      /\ Words(Append(Current, b)) = GrownAt(Words(Current), k, b)
  BY <1>1, <1>4, <1>7, ByteAppended
<1>10. StateInv'
  BY <1>4, <1>8, <1>9 DEF StateInv
<1>11. (commands = Words(Text))'
  <2>1. Text = Current /\ Text' = Append(Current, b)
    BY <1>4, <1>8 DEF Text, Upto, Place
  <2> QED
    BY <1>3, <1>9, <2>1 DEF IInv
<1>12. IndexInv'
  BY <1>3 DEF IndexInv
<1> QED
  BY <1>5, <1>6, <1>10, <1>11, <1>12 DEF IInv

\* So does a byte of a word, stored or cut.
LEMMA StoreStep == IInv /\ Store => IInv'
<1> SUFFICES ASSUME IInv, Store PROVE IInv'
  OBVIOUS
<1>1. PICK b \in Others \cup {LF} :
        /\ Feed(b)
        /\ \/ Goes("COMMAND_STATE", "COMMAND_STATE") /\ store(0, b)
           \/ Goes("FIRST_ARG_STATE", "FIRST_ARG_STATE") /\ store(1, b)
           \/ Goes("SECOND_ARG_STATE", "SECOND_ARG_STATE") /\ store(2, b)
  BY DEF Store
<1>2. 0 \in Slots /\ 1 \in Slots /\ 2 \in Slots
  BY DEF Slots
<1>3. CASE Goes("COMMAND_STATE", "COMMAND_STATE") /\ store(0, b)
  BY <1>1, <1>2, <1>3, WordByte DEF Goes
<1>4. CASE Goes("FIRST_ARG_STATE", "FIRST_ARG_STATE") /\ store(1, b)
  BY <1>1, <1>2, <1>4, WordByte DEF Goes
<1>5. CASE Goes("SECOND_ARG_STATE", "SECOND_ARG_STATE") /\ store(2, b)
  BY <1>1, <1>2, <1>5, WordByte DEF Goes
<1> QED
  BY <1>1, <1>3, <1>4, <1>5

\* So does the LF that runs the command.
LEMMA CompletedStep == IInv /\ completed => IInv'
<1> SUFFICES ASSUME IInv, completed PROVE IInv'
  OBVIOUS
<1>1. LF \in Bytes /\ LF # CR
  BY TokenizerOK DEF TokenizerAssumption, Bytes
<1>2. /\ state = "FINAL_STATE" /\ state' = "COMMAND_STATE" /\ complete' = TRUE
      /\ called' = commands /\ commands' = NoCommand /\ index' = 0
  BY DEF completed
<1>3. Current \in Seq(Bytes) /\ Has(Current, CR) /\ Current[Len(Current)] = CR
  BY <1>2 DEF IInv, TypeOK, Current, StateInv, Stage
<1>4. line' = Append(Current, LF)
  BY <1>3 DEF completed, Current, Has
<1>5. TypeOK'
  <2>1. \A k \in Slots : Size(k) \in Nat
    BY TokenizerOK DEF TokenizerAssumption, Size
  <2>2. NoCommand \in [Slots -> Seq(Bytes)] /\ \A k \in Slots : Len(NoCommand[k]) <= Size(k)
    BY <2>1 DEF NoCommand
  <2>3. called' \in [Slots -> Seq(Bytes)] /\ \A k \in Slots : Len(called'[k]) <= Size(k)
    BY <1>2 DEF IInv, TypeOK
  <2>4. state' \in States /\ complete' \in BOOLEAN /\ index' \in Nat
    BY <1>2 DEF States
  <2>5. line' \in Seq(Bytes)
    BY <1>1, <1>3, <1>4, AppendProperties
  <2> QED
    BY <1>2, <2>2, <2>3, <2>4, <2>5 DEF TypeOK
<1>6. Current' = <<>>
  BY <1>2 DEF Current
<1>7. StateInv' /\ IndexInv' /\ (commands = Words(Text))' /\ Ends(Current)' = {}
  <2>1. ~Has(<<>>, CR) /\ ~Has(<<>>, SP) /\ Ends(<<>>) = {}
    BY DEF Has, Ends
  <2>2. StateInv'
    BY <1>2, <1>6, <2>1 DEF StateInv, Stage
  <2>3. IndexInv'
    BY <1>2 DEF IndexInv, NoCommand, Slots
  <2>4. Text' = <<>>
    <3> DEFINE e == <<>>
    <3>1. e \in Seq(Bytes) /\ ~Has(e, CR) /\ CR \in Bytes
      BY <2>1 DEF Bytes
    <3> HIDE DEF e
    <3>2. Upto(e, CR) = e
      BY <3>1, AppendBefore
    <3> QED
      BY <1>6, <3>2 DEF e, Text, Upto, Place
  <2>5. Words(<<>>) = NoCommand
    BY EmptyText
  <2> QED
    BY <1>2, <1>6, <2>1, <2>2, <2>3, <2>4, <2>5
<1>8. ReadsTheLine'
  <2>1. Upto(line', CR) = Upto(Current, CR)
    BY <1>1, <1>3, <1>4, TextAppend
  <2>2. commands = Words(Upto(Current, CR))
    BY DEF IInv, Text
  <2>3. called' = Words(Upto(line', CR))
    BY <1>2, <2>1, <2>2
  <2> QED
    BY <2>3 DEF ReadsTheLine
<1>9. OneCommandPerLine'
  <2>1. Ends(Current) = {}
    BY DEF IInv
  <2>2. Ends(Append(Current, LF)) = {Len(Current) + 1}
    BY <1>1, <1>3, <2>1, EndsAppend
  <2>3. Len(Append(Current, LF)) = Len(Current) + 1
    BY <1>1, <1>3, AppendProperties
  <2>4. Ends(line') = {Len(line')}
    BY <1>4, <2>2, <2>3
  <2> QED
    BY <1>2, <2>4 DEF OneCommandPerLine
<1> QED
  BY <1>5, <1>7, <1>8, <1>9 DEF IInv

\* So does every step.
LEMMA StepPreserves == IInv /\ [Next]_vars => IInv'
<1> SUFFICES ASSUME IInv, [Next]_vars PROVE IInv'
  OBVIOUS
<1>1. CASE restart_index
  BY <1>1, SpaceStep
<1>2. CASE TooManyArguments
  BY <1>2, ThirdSpaceStep
<1>3. CASE EndOfText
  BY <1>3, EndOfTextStep
<1>4. CASE Stray
  BY <1>4, StrayStep
<1>5. CASE Store
  BY <1>5, StoreStep
<1>6. CASE completed
  BY <1>6, CompletedStep
<1>7. CASE UNCHANGED vars
  BY <1>7 DEF vars, IInv, TypeOK, StateInv, IndexInv, Text, Current, ReadsTheLine,
              OneCommandPerLine
<1> QED
  BY <1>1, <1>2, <1>3, <1>4, <1>5, <1>6, <1>7 DEF Next, Full

\* So IInv holds in every state.
LEMMA Inductive == Spec => []IInv
<1> QED
  BY InitEstablishes, StepPreserves, PTL DEF Spec

-----------------------------------------------------------------------------
(* The theorems. *)

\* The strings of a command stay within the memory that store_* allocated, for lines of
\* any length and any bytes.
THEOREM TypeCorrect == Spec => []TypeOK
<1>1. IInv => TypeOK
  BY DEF IInv
<1> QED
  BY <1>1, Inductive, PTL

\* A handler is called with the words of its own line, whatever came before it.
THEOREM CommandIsItsLine == Spec => []ReadsTheLine
<1>1. IInv => ReadsTheLine
  BY DEF IInv
<1> QED
  BY <1>1, Inductive, PTL

\* A command is run at every CR LF and nowhere else.
THEOREM LinesAreToldApart == Spec => []OneCommandPerLine
<1>1. IInv => OneCommandPerLine
  BY DEF IInv
<1> QED
  BY <1>1, Inductive, PTL
=============================================================================
