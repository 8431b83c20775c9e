--------------------------- MODULE Monitor_proofs ---------------------------
(***************************************************************************)
(* Proofs about Monitor, for any number of connections, any requests and   *)
(* any sizes: the types, and the names of the administrators.              *)
(***************************************************************************)
EXTENDS Monitor, WellFoundedInduction, SequenceTheorems, TLAPS

-----------------------------------------------------------------------------
(* Sizes, and strings in the data of a request. *)

\* What ConstantsAssumption says of the sizes.
LEMMA Sizes ==
    /\ BYTE \in Nat /\ BYTE > 6 /\ MAX_PATH \in Nat /\ MAX_PATH = BYTE - 1
    /\ TOKEN_SIZE \in Nat /\ TOKEN_SIZE > 0 /\ MAX_NAME \in Nat /\ MAX_NAME > 0
    /\ MAX_PASS_LEN \in Nat /\ MAX_ADMIN \in Nat /\ MAX_ADMIN > 0
    /\ max_pool \in Nat /\ MaxRuns \in Nat /\ Padding \in Nat /\ Padding > 0
    /\ 2 * MAX_NAME + 1 + TOKEN_SIZE <= MAX_PATH /\ 2 * MAX_NAME + 1 + MAX_PASS_LEN <= MAX_PATH
    /\ MAX_NAME \in DataIndex /\ {0, 1, 2, 3, 4, 5, 6} \subseteq Bytes
    /\ 0 \in StructIndex /\ MAX_NAME \in StructIndex /\ MAX_PATH \in StructIndex
    /\ \A k \in 0..MAX_PATH : k \in StructIndex
BY ConstantsOK DEF ConstantsAssumption, DataIndex, StructIndex, Bytes

\* The bytes of a struct; beyond the union they are 0.
LEMMA MemoryIs ==
    ASSUME NEW m \in Memory
    PROVE  /\ m \in [StructIndex -> Bytes]
           /\ \A k \in StructIndex \ DataIndex : m[k] = 0
           /\ m[MAX_PATH] = 0
<1>1. MAX_PATH \in StructIndex \ DataIndex
  BY Sizes DEF DataIndex
<1> QED BY <1>1 DEF Memory

\* A byte inside the union, or a 0 in the padding, leaves the struct a struct.
LEMMA PutType ==
    ASSUME NEW f \in Memory, NEW k \in StructIndex, NEW v \in Bytes, k \in DataIndex \/ v = 0
    PROVE  /\ Put(f, k, v) \in Memory
           /\ \A i \in StructIndex : Put(f, k, v)[i] = IF i = k THEN v ELSE f[i]
<1>1. /\ f \in [StructIndex -> Bytes] /\ DOMAIN f \cup {k} = StructIndex
      /\ \A i \in StructIndex \ DataIndex : f[i] = 0
  BY MemoryIs
<1>2. Put(f, k, v) = [i \in StructIndex |-> IF i = k THEN v ELSE f[i]]
  BY <1>1 DEF Put
<1>3. Put(f, k, v) \in [StructIndex -> Bytes]
  BY <1>1, <1>2
<1>4. \A i \in StructIndex : Put(f, k, v)[i] = IF i = k THEN v ELSE f[i]
  BY <1>2
<1>5. \A i \in StructIndex \ DataIndex : Put(f, k, v)[i] = 0
  BY <1>1, <1>4
<1> QED BY <1>3, <1>4, <1>5 DEF Memory

\* The string at an index ends at the next 0.
LEMMA CStringIsThere ==
    ASSUME NEW data \in Memory, NEW k \in 0..MAX_PATH
    PROVE  /\ CString(data, k) \in String
           /\ Len(CString(data, k)) \in Nat /\ k + Len(CString(data, k)) <= MAX_PATH
           /\ \A j \in 1..Len(CString(data, k)) : CString(data, k)[j] = data[k + j - 1]
           /\ data[k + Len(CString(data, k))] = 0
<1> DEFINE P == {e \in k..MAX_PATH : data[e] = 0}
<1>1. /\ k \in Nat /\ MAX_PATH \in Nat /\ k <= MAX_PATH /\ BYTE \in Nat
      /\ data \in [StructIndex -> Bytes] /\ data[MAX_PATH] = 0
      /\ \A j \in 0..MAX_PATH : j \in StructIndex
  BY Sizes, MemoryIs
<1>2. P \in SUBSET Nat /\ MAX_PATH \in P
  BY <1>1
<1> HIDE DEF P
<1>3. PICK n \in P : \A m \in P : ~(<<m, n>> \in OpToRel(<, Nat))
  BY <1>2, WFMin, NatLessThanWellFounded
<1> USE DEF P
<1>4. \A j \in k..n - 1 : data[j] # 0
  <2> SUFFICES ASSUME NEW j \in k..n - 1, data[j] = 0 PROVE FALSE
    OBVIOUS
  <2>1. j \in P /\ j < n /\ j \in Nat /\ n \in Nat
    BY <1>1, <1>2
  <2> QED
    BY <1>3, <2>1 DEF OpToRel
<1> DEFINE end == CHOOSE e \in k..MAX_PATH : data[e] = 0 /\ \A j \in k..e - 1 : data[j] # 0
<1>5. end \in k..MAX_PATH /\ data[end] = 0 /\ \A j \in k..end - 1 : data[j] # 0
  BY <1>3, <1>4
<1>6. CString(data, k) = [j \in 1..end - k |-> data[k + j - 1]]
  BY DEF CString
<1> HIDE DEF end
<1>7. end - k \in Nat /\ end \in Nat
  BY <1>1, <1>5
<1>8. ASSUME NEW j \in 1..end - k PROVE data[k + j - 1] \in Bytes \ {0}
  <2>1. k + j - 1 \in k..end - 1 /\ k + j - 1 \in 0..MAX_PATH
    BY <1>1, <1>5, <1>7
  <2> QED BY <1>1, <1>5, <2>1
<1>9. CString(data, k) \in Seq(Bytes \ {0}) /\ Len(CString(data, k)) = end - k
  <2>1. [j \in 1..end - k |-> data[k + j - 1]] \in Seq(Bytes \ {0})
    BY <1>7, <1>8, IsASeq
  <2> QED BY <1>6, <1>7, <2>1
<1>10. k + (end - k) = end
  BY <1>1, <1>7
<1> QED BY <1>1, <1>5, <1>6, <1>7, <1>9, <1>10 DEF String

\* Bytes that are not 0, and a 0 after them, are the string.
LEMMA CStringIs ==
    ASSUME NEW data \in Memory, NEW k \in 0..MAX_PATH, NEW t \in Seq(Bytes),
           k + Len(t) <= MAX_PATH, data[k + Len(t)] = 0,
           \A j \in 1..Len(t) : t[j] # 0 /\ data[k + j - 1] = t[j]
    PROVE  CString(data, k) = t
<1> DEFINE c == CString(data, k)
<1>1. /\ c \in Seq(Bytes) /\ Len(c) \in Nat /\ k + Len(c) <= MAX_PATH
      /\ \A j \in 1..Len(c) : c[j] = data[k + j - 1] /\ c[j] # 0
      /\ data[k + Len(c)] = 0
  BY CStringIsThere DEF String
<1>2. k \in Nat /\ MAX_PATH \in Nat /\ Len(t) \in Nat
  BY Sizes
<1> HIDE DEF c
<1>3. ~(Len(c) < Len(t))
  <2> SUFFICES ASSUME Len(c) < Len(t) PROVE FALSE
    OBVIOUS
  <2>1. Len(c) + 1 \in 1..Len(t) /\ k + (Len(c) + 1) - 1 = k + Len(c)
    BY <1>1, <1>2
  <2>2. data[k + Len(c)] # 0
    BY <2>1
  <2> QED BY <1>1, <1>2, <2>2
<1>4. ~(Len(t) < Len(c))
  <2> SUFFICES ASSUME Len(t) < Len(c) PROVE FALSE
    OBVIOUS
  <2>1. Len(t) + 1 \in 1..Len(c) /\ k + (Len(t) + 1) - 1 = k + Len(t)
    BY <1>1, <1>2
  <2> QED BY <1>1, <2>1
<1>5. Len(c) = Len(t) /\ \A j \in 1..Len(c) : c[j] = t[j]
  BY <1>1, <1>2, <1>3, <1>4
<1>6. c = t
  BY <1>1, <1>5, SeqEqual
<1> QED BY <1>6 DEF c

\* What strncpy keeps of a name of an administrator is the name strcmp looks for.
LEMMA AdminNameIsName ==
    ASSUME NEW x \in AdminConnection
    PROVE  AdminName(name(x), secret(x)) = name(x)
<1> DEFINE data == x.data
           n == name(x)
           t == secret(x)
<1>1. data \in Memory /\ 0 \in 0..MAX_PATH /\ MAX_NAME \in 0..MAX_PATH
      /\ MAX_NAME \in Nat /\ MAX_PATH \in Nat /\ MAX_NAME > 0 /\ MAX_NAME <= MAX_PATH
  BY Sizes DEF AdminConnection, DataIndex
<1>2. /\ n \in Seq(Bytes) /\ Len(n) \in Nat /\ Len(n) <= MAX_PATH
      /\ \A j \in 1..Len(n) : n[j] = data[j - 1] /\ n[j] # 0
      /\ data[Len(n)] = 0
  <2>1. \A j \in 1..Len(n) : 0 + j - 1 = j - 1
    BY CStringIsThere
  <2>2. /\ n \in String /\ Len(n) \in Nat /\ 0 + Len(n) <= MAX_PATH
        /\ \A j \in 1..Len(n) : n[j] = data[0 + j - 1]
        /\ data[0 + Len(n)] = 0
    BY <1>1, CStringIsThere DEF name
  <2>3. \A j \in 1..Len(n) : n[j] # 0
    BY <2>2 DEF String
  <2> QED BY <2>2, <2>3 DEF String
<1>3. /\ t \in Seq(Bytes) /\ Len(t) \in Nat /\ MAX_NAME + Len(t) <= MAX_PATH
      /\ \A j \in 1..Len(t) : t[j] = data[MAX_NAME + j - 1] /\ t[j] # 0
      /\ data[MAX_NAME + Len(t)] = 0
  <2>2. /\ t \in String /\ Len(t) \in Nat /\ MAX_NAME + Len(t) <= MAX_PATH
        /\ \A j \in 1..Len(t) : t[j] = data[MAX_NAME + j - 1]
        /\ data[MAX_NAME + Len(t)] = 0
    BY <1>1, CStringIsThere DEF secret
  <2>3. \A j \in 1..Len(t) : t[j] # 0
    BY <2>2 DEF String
  <2> QED BY <2>2, <2>3 DEF String
<1> HIDE DEF data, n, t
<1>4. CASE Len(n) < MAX_NAME
  BY <1>4 DEF AdminName, n
<1>5. CASE ~(Len(n) < MAX_NAME)
  <2> DEFINE a == SubSeq(n, 1, MAX_NAME) \o t
  <2>1. /\ SubSeq(n, 1, MAX_NAME) \in Seq(Bytes) /\ Len(SubSeq(n, 1, MAX_NAME)) = MAX_NAME
        /\ \A j \in 1..MAX_NAME : SubSeq(n, 1, MAX_NAME)[j] = n[j]
    BY <1>1, <1>2, <1>5
  <2>2. /\ a \in Seq(Bytes) /\ Len(a) = MAX_NAME + Len(t)
        /\ \A j \in 1..MAX_NAME : a[j] = n[j]
        /\ \A j \in 1..Len(t) : a[MAX_NAME + j] = t[j]
    BY <1>1, <1>3, <2>1, SMTT(30)
  <2>3. \A j \in 1..Len(a) : a[j] = data[j - 1] /\ a[j] # 0
    <3> SUFFICES ASSUME NEW j \in 1..Len(a) PROVE a[j] = data[j - 1] /\ a[j] # 0
      OBVIOUS
    <3>1. CASE j <= MAX_NAME
      BY <1>1, <1>2, <1>5, <2>2, <3>1
    <3>2. CASE j > MAX_NAME
      <4>1. PICK i \in 1..Len(t) : j = MAX_NAME + i
        <5>1. j - MAX_NAME \in 1..Len(t) /\ j = MAX_NAME + (j - MAX_NAME)
          BY <1>1, <1>3, <2>2, <3>2
        <5> QED BY <5>1
      <4>2. a[j] = t[i]
        BY <2>2, <4>1
      <4>3. t[i] = data[MAX_NAME + i - 1] /\ t[i] # 0
        BY <1>3
      <4>4. MAX_NAME + i - 1 = j - 1
        BY <1>1, <1>3, <4>1
      <4> QED BY <4>2, <4>3, <4>4, <4>1
    <3> QED BY <1>1, <3>1, <3>2
  <2> HIDE DEF a
  <2>4. ~(Len(a) < Len(n))
    <3> SUFFICES ASSUME Len(a) < Len(n) PROVE FALSE
      OBVIOUS
    <3>1. Len(a) + 1 \in 1..Len(n) /\ (Len(a) + 1) - 1 = Len(a)
      BY <1>1, <1>2, <1>3, <2>2
    <3>2. data[Len(a)] # 0
      BY <1>2, <3>1
    <3> QED BY <1>1, <1>2, <1>3, <2>2, <3>2
  <2>5. ~(Len(n) < Len(a))
    <3> SUFFICES ASSUME Len(n) < Len(a) PROVE FALSE
      OBVIOUS
    <3>1. Len(n) + 1 \in 1..Len(a) /\ (Len(n) + 1) - 1 = Len(n)
      BY <1>1, <1>2, <1>3, <2>2
    <3>2. data[Len(n)] # 0
      BY <2>3, <3>1
    <3> QED BY <1>1, <1>2, <1>3, <2>2, <3>2
  <2>6. Len(a) = Len(n) /\ \A j \in 1..Len(a) : a[j] = n[j]
    <3>1. Len(a) = Len(n)
      BY <1>2, <1>3, <2>2, <2>4, <2>5
    <3>2. \A j \in 1..Len(a) : a[j] = data[j - 1]
      BY <2>3
    <3>3. \A j \in 1..Len(n) : n[j] = data[j - 1]
      BY <1>2
    <3> QED BY <3>1, <3>2, <3>3
  <2>7. a = n
    BY <1>2, <2>2, <2>6, SeqEqual
  <2> QED BY <1>5, <2>7 DEF AdminName, a, n, t
<1> QED BY <1>4, <1>5

-----------------------------------------------------------------------------
(* The bytes of a request. *)

\* The elements of a concatenation, counted in each part.
LEMMA ConcatIs ==
    ASSUME NEW q \in Seq(Bytes), NEW t \in Seq(Bytes), NEW p, p = q \o t
    PROVE  /\ p \in Seq(Bytes) /\ Len(p) = Len(q) + Len(t)
           /\ \A i \in 1..Len(q) : p[i] = q[i]
           /\ \A i \in 1..Len(t) : p[Len(q) + i] = t[i]
<1>1. /\ p \in Seq(Bytes) /\ Len(p) = Len(q) + Len(t)
      /\ \A i \in 1..Len(q) + Len(t) : p[i] = IF i <= Len(q) THEN q[i] ELSE t[i - Len(q)]
  BY ConcatProperties
<1>2. Len(q) \in Nat /\ Len(t) \in Nat
  OBVIOUS
<1>3. \A i \in 1..Len(q) : p[i] = q[i]
  BY <1>1, <1>2
<1>4. ASSUME NEW i \in 1..Len(t) PROVE p[Len(q) + i] = t[i]
  <2>1. Len(q) + i \in 1..Len(q) + Len(t) /\ ~(Len(q) + i <= Len(q)) /\ (Len(q) + i) - Len(q) = i
    BY <1>2
  <2> QED BY <1>1, <2>1
<1> QED BY <1>1, <1>3, <1>4

\* The data of a request, and what the client program makes sure of.
LEMMA DataIs ==
    ASSUME NEW r \in Request, parse_args(r)
    PROVE  /\ Data(r) \in Seq(Bytes) /\ Len(Data(r)) \in Nat /\ Len(Data(r)) <= MAX_PATH
           /\ Len(r.name) \in Nat /\ Len(r.secret) \in Nat
           /\ ~Adds(r) => Data(r) = r.name
           /\ Adds(r) =>
                /\ Len(r.name) >= 1 /\ Len(r.name) <= MAX_NAME
                /\ MAX_NAME + Len(r.secret) <= MAX_PATH - MAX_NAME - 1
                /\ Len(Data(r)) = Len(r.name) + 1 + Len(r.secret)
                /\ \A i \in 1..Len(r.name) : Data(r)[i] = r.name[i]
                /\ Data(r)[Len(r.name) + 1] = 0
                /\ \A i \in 1..Len(r.secret) : Data(r)[Len(r.name) + 1 + i] = r.secret[i]
<1>1. /\ r.name \in Seq(Bytes) /\ r.secret \in Seq(Bytes)
      /\ Len(r.name) \in Nat /\ Len(r.secret) \in Nat /\ Len(r.name) <= MAX_PATH
  BY DEF Request, String, parse_args
<1>2. CASE ~Adds(r)
  BY <1>1, <1>2 DEF Data
<1>3. CASE Adds(r)
  <2>1. r.name # <<>> /\ Len(r.name) <= MAX_NAME
        /\ (Len(r.secret) = TOKEN_SIZE \/ Len(r.secret) <= MAX_PASS_LEN)
    BY <1>3 DEF Adds, parse_args, add_admin, add_pop3
  <2>2. <<0>> \in Seq(Bytes) /\ Len(<<0>>) = 1 /\ <<0>>[1] = 0
    BY Sizes
  <2>4. Data(r) = r.name \o <<0>> \o r.secret
    BY <1>3 DEF Data
  <2>3. /\ Data(r) \in Seq(Bytes)
        /\ Len(Data(r)) = Len(r.name) + 1 + Len(r.secret)
        /\ \A i \in 1..Len(r.name) : Data(r)[i] = r.name[i]
        /\ Data(r)[Len(r.name) + 1] = 0
        /\ \A i \in 1..Len(r.secret) : Data(r)[Len(r.name) + 1 + i] = r.secret[i]
    <3> DEFINE q == r.name \o <<0>>
    <3>1. /\ q \in Seq(Bytes) /\ Len(q) = Len(r.name) + 1
          /\ \A i \in 1..Len(r.name) : q[i] = r.name[i]
          /\ q[Len(r.name) + 1] = 0
      <4>1. /\ q \in Seq(Bytes) /\ Len(q) = Len(r.name) + Len(<<0>>)
            /\ \A i \in 1..Len(r.name) : q[i] = r.name[i]
            /\ \A i \in 1..Len(<<0>>) : q[Len(r.name) + i] = <<0>>[i]
        <5> HIDE DEF q
        <5>1. q = r.name \o <<0>>
          BY DEF q
        <5> QED BY <1>1, <2>2, <5>1, ConcatIs
      <4>2. q[Len(r.name) + 1] = <<0>>[1]
        BY <2>2, <4>1
      <4> QED BY <1>1, <2>2, <4>1, <4>2
    <3> HIDE DEF q
    <3>2. Data(r) = q \o r.secret
      BY <2>4 DEF q
    <3>3. /\ Data(r) \in Seq(Bytes) /\ Len(Data(r)) = Len(q) + Len(r.secret)
          /\ \A i \in 1..Len(q) : Data(r)[i] = q[i]
          /\ \A i \in 1..Len(r.secret) : Data(r)[Len(q) + i] = r.secret[i]
      <4>1. q \in Seq(Bytes) /\ r.secret \in Seq(Bytes)
        BY <1>1, <3>1
      <4> QED BY <3>2, <4>1, ConcatIs
    <3>4. Len(Data(r)) = Len(r.name) + 1 + Len(r.secret)
      BY <3>1, <3>3
    <3>5. \A i \in 1..Len(r.name) : Data(r)[i] = r.name[i]
      <4>1. \A i \in 1..Len(r.name) : i \in 1..Len(q)
        BY <1>1, <3>1
      <4> QED BY <3>1, <3>3, <4>1
    <3>6. Data(r)[Len(r.name) + 1] = 0
      <4>1. Len(r.name) + 1 \in 1..Len(q)
        BY <1>1, <3>1
      <4> QED BY <3>1, <3>3, <4>1
    <3>7. \A i \in 1..Len(r.secret) : Data(r)[Len(r.name) + 1 + i] = r.secret[i]
      BY <3>1, <3>3
    <3> QED BY <3>3, <3>4, <3>5, <3>6, <3>7
  <2>5. Len(r.name) >= 1
    BY <1>1, <2>1
  <2>6. MAX_NAME + Len(r.secret) <= MAX_PATH - MAX_NAME - 1
        /\ Len(Data(r)) <= MAX_PATH /\ Len(Data(r)) \in Nat
    <3> DEFINE n == Len(r.name)
               s == Len(r.secret)
               d == Len(Data(r))
    <3>1. n \in Nat /\ s \in Nat /\ n <= MAX_NAME /\ d = n + 1 + s
          /\ (s = TOKEN_SIZE \/ s <= MAX_PASS_LEN)
      BY <1>1, <2>1, <2>3
    <3> HIDE DEF n, s, d
    <3>2. MAX_NAME + s <= MAX_PATH - MAX_NAME - 1 /\ d <= MAX_PATH /\ d \in Nat
      BY <3>1, Sizes
    <3> QED BY <3>2 DEF s, d
  <2> QED BY <1>1, <1>3, <2>1, <2>3, <2>5, <2>6
<1> QED BY <1>2, <1>3

\* A length below BYTE is its own low byte.
LEMMA SmallDivision ==
    ASSUME NEW n \in Nat, n < BYTE
    PROVE  n \div BYTE = 0 /\ n % BYTE = n
BY Sizes

\* Where each byte of a request is.
LEMMA WireIs ==
    ASSUME NEW r \in Request, parse_args(r)
    PROVE  LET w == serialize_request(r)
           IN  /\ w \in Seq(Bytes)
               /\ Len(w) = 5 + TOKEN_SIZE + Len(Data(r))
               /\ w[1] = r.ver
               /\ \A i \in 1..TOKEN_SIZE : w[1 + i] = r.token[i]
               /\ w[2 + TOKEN_SIZE] = r.type /\ w[3 + TOKEN_SIZE] = r.target
               /\ w[4 + TOKEN_SIZE] = 0 /\ w[5 + TOKEN_SIZE] = Len(Data(r))
               /\ \A i \in 1..Len(Data(r)) : w[5 + TOKEN_SIZE + i] = Data(r)[i]
<1> DEFINE w == serialize_request(r)
           h == <<r.ver>> \o r.token
           f == <<r.type, r.target, Len(Data(r)) \div BYTE, Len(Data(r)) % BYTE>>
           g == h \o f
<1>1. /\ r.ver \in Bytes /\ r.type \in Bytes /\ r.target \in Bytes
      /\ r.token \in Seq(Bytes) /\ Len(r.token) = TOKEN_SIZE /\ TOKEN_SIZE \in Nat
  BY Sizes DEF Request, String, parse_args
<1>2. /\ Data(r) \in Seq(Bytes) /\ Len(Data(r)) \in Nat /\ Len(Data(r)) \in Bytes
      /\ Len(Data(r)) \div BYTE = 0 /\ Len(Data(r)) % BYTE = Len(Data(r)) /\ 0 \in Bytes
  <2> DEFINE n == Len(Data(r))
  <2>1. Data(r) \in Seq(Bytes) /\ n \in Nat /\ n <= MAX_PATH
    BY DataIs
  <2>2. BYTE \in Nat /\ MAX_PATH = BYTE - 1 /\ 0 \in Bytes
    BY Sizes
  <2> HIDE DEF n
  <2>3. n < BYTE /\ n \in Bytes
    BY <2>1, <2>2 DEF Bytes
  <2>4. n \div BYTE = 0 /\ n % BYTE = n
    BY <2>1, <2>3, SmallDivision
  <2> QED BY <2>1, <2>2, <2>3, <2>4 DEF n
<1>3. /\ h \in Seq(Bytes) /\ Len(h) = 1 + TOKEN_SIZE
      /\ h[1] = r.ver /\ \A i \in 1..TOKEN_SIZE : h[1 + i] = r.token[i]
  <2>1. <<r.ver>> \in Seq(Bytes) /\ Len(<<r.ver>>) = 1 /\ <<r.ver>>[1] = r.ver
    BY <1>1
  <2> HIDE DEF h
  <2>2. h = <<r.ver>> \o r.token
    BY DEF h
  <2> QED BY <1>1, <2>1, <2>2
<1>4. /\ f \in Seq(Bytes) /\ Len(f) = 4
      /\ f[1] = r.type /\ f[2] = r.target /\ f[3] = 0 /\ f[4] = Len(Data(r))
  BY <1>1, <1>2
<1> HIDE DEF h, f
<1>5. /\ g \in Seq(Bytes) /\ Len(g) = 5 + TOKEN_SIZE
      /\ \A i \in 1..1 + TOKEN_SIZE : g[i] = h[i]
      /\ g[2 + TOKEN_SIZE] = f[1] /\ g[3 + TOKEN_SIZE] = f[2]
      /\ g[4 + TOKEN_SIZE] = f[3] /\ g[5 + TOKEN_SIZE] = f[4]
  <2>1. /\ g \in Seq(Bytes) /\ Len(g) = Len(h) + Len(f)
        /\ \A i \in 1..Len(h) : g[i] = h[i]
        /\ \A i \in 1..Len(f) : g[Len(h) + i] = f[i]
    <3>1. h \in Seq(Bytes) /\ f \in Seq(Bytes)
      BY <1>3, <1>4
    <3> HIDE DEF g
    <3>2. g = h \o f
      BY DEF g
    <3> QED BY <3>1, <3>2, ConcatIs
  <2>2. g[Len(h) + 1] = f[1] /\ g[Len(h) + 2] = f[2] /\ g[Len(h) + 3] = f[3]
        /\ g[Len(h) + 4] = f[4]
    BY <1>4, <2>1
  <2> HIDE DEF g
  <2>3. /\ Len(h) + 1 = 2 + TOKEN_SIZE /\ Len(h) + 2 = 3 + TOKEN_SIZE
        /\ Len(h) + 3 = 4 + TOKEN_SIZE /\ Len(h) + 4 = 5 + TOKEN_SIZE
    BY <1>1, <1>3
  <2> QED BY <1>3, <1>4, <2>1, <2>2, <2>3
<1> HIDE DEF g
<1>6. w = g \o Data(r)
  BY DEF serialize_request, g, h, f
<1>7. /\ w \in Seq(Bytes) /\ Len(w) = 5 + TOKEN_SIZE + Len(Data(r))
      /\ \A i \in 1..5 + TOKEN_SIZE : w[i] = g[i]
      /\ \A i \in 1..Len(Data(r)) : w[5 + TOKEN_SIZE + i] = Data(r)[i]
  BY <1>2, <1>5, <1>6, ConcatIs, SMTT(30)
<1> HIDE DEF w
<1>8. w[1] = r.ver /\ \A i \in 1..TOKEN_SIZE : w[1 + i] = r.token[i]
  <2>1. w[1] = r.ver
    BY <1>1, <1>3, <1>5, <1>7
  <2>2. ASSUME NEW i \in 1..TOKEN_SIZE PROVE w[1 + i] = r.token[i]
    <3>1. 1 + i \in 1..1 + TOKEN_SIZE /\ 1 + i \in 1..5 + TOKEN_SIZE
      BY <1>1
    <3> QED BY <1>3, <1>5, <1>7, <3>1
  <2> QED BY <2>1, <2>2
<1>9. /\ w[2 + TOKEN_SIZE] = r.type /\ w[3 + TOKEN_SIZE] = r.target
      /\ w[4 + TOKEN_SIZE] = 0 /\ w[5 + TOKEN_SIZE] = Len(Data(r))
  BY <1>1, <1>4, <1>5, <1>7
<1> QED BY <1>7, <1>8, <1>9 DEF w

-----------------------------------------------------------------------------
(* Types.  One lemma for each of the operators the actions share. *)

\* What is read of the data as a name or a secret is a string.
LEMMA NamesType ==
    ASSUME NEW x \in AdminConnection
    PROVE  name(x) \in String /\ secret(x) \in String
<1>1. x.data \in Memory /\ 0 \in 0..MAX_PATH /\ MAX_NAME \in 0..MAX_PATH
  BY Sizes DEF AdminConnection, DataIndex
<1> QED BY <1>1, CStringIsThere DEF name, secret

\* A connection cleared by memset has its type, also when it is closed.
LEMMA ZeroedType ==
    /\ Zeroed \in AdminConnection
    /\ [Zeroed EXCEPT !.st = "closed"] \in AdminConnection
    /\ \A status \in Statuses : [Zeroed EXCEPT !.st = "closed", !.status = status] \in AdminConnection
<1>1. /\ <<>> \in Seq(Bytes) /\ 0 \in Bytes /\ [k \in StructIndex |-> 0] \in Memory
      /\ 0 \in Nat /\ 6 \in Statuses /\ "version" \in Reading
  BY Sizes DEF Statuses, Reading, Memory
<1> QED BY <1>1 DEF Zeroed, AdminConnection

\* So has a client that does nothing.
LEMMA IdleType == Idle \in Client /\ NoRequest \in Request
<1>1. <<>> \in String /\ <<>> \in Seq(Bytes) /\ <<0>> \in Seq(Bytes) /\ {0, 1} \subseteq Bytes
  BY Sizes DEF String
<1>2. NoRequest \in Request
  BY <1>1 DEF NoRequest, Request, get
<1> QED BY <1>1, <1>2 DEF Idle, Client

\* Queueing an answer keeps the types.
LEMMA AnswerType ==
    ASSUME TypeOK, NEW c \in Conns, cli[c].out # <<>>, NEW x \in AdminConnection,
           NEW st \in Replying, NEW status \in Statuses, Answer(c, x, st, status)
    PROVE  conn' \in [Conns -> AdminConnection] /\ cli' \in [Conns -> Client]
           /\ UNCHANGED <<server, pools, runs>>
<1>1. conn \in [Conns -> AdminConnection] /\ cli \in [Conns -> Client]
  BY DEF TypeOK
<1>2. Reply(status) \in Seq(Bytes)
  <2>1. status \in Bytes /\ 0 \in Bytes /\ 1 \in Bytes
    BY Sizes DEF Statuses, Bytes
  <2> QED BY <2>1 DEF Reply
<1> DEFINE y == [x EXCEPT !.st = st, !.status = status, !.wb = Reply(status)]
<1>3. y \in AdminConnection
  BY <1>2 DEF AdminConnection
<1>4. conn' = [conn EXCEPT ![c] = y] /\ UNCHANGED <<server, pools, runs>>
  BY DEF Answer
<1> HIDE DEF y
<1>5. conn' \in [Conns -> AdminConnection]
  BY <1>1, <1>3, <1>4
<1>6. PICK out \in {Tail(cli[c].out), <<>>} : cli' = [cli EXCEPT ![c].out = out]
  BY DEF Answer
<1>7. out \in Seq(Bytes)
  <2>1. cli[c].out \in Seq(Bytes) /\ <<>> \in Seq(Bytes)
    BY <1>1 DEF Client
  <2>2. Tail(cli[c].out) \in Seq(Bytes)
    BY <2>1
  <2> QED BY <1>6, <2>1, <2>2
<1>8. cli' \in [Conns -> Client]
  BY <1>1, <1>6, <1>7 DEF Client
<1> QED BY <1>4, <1>5, <1>8

\* Reading a byte without an answer keeps the types.
LEMMA ParsedType ==
    ASSUME TypeOK, NEW c \in Conns, cli[c].out # <<>>, NEW x \in AdminConnection, Parsed(c, x)
    PROVE  conn' \in [Conns -> AdminConnection] /\ cli' \in [Conns -> Client]
           /\ UNCHANGED <<server, book, pools, runs>>
<1>1. conn \in [Conns -> AdminConnection] /\ cli \in [Conns -> Client]
  BY DEF TypeOK
<1>2. Tail(cli[c].out) \in Seq(Bytes)
  <2>1. cli[c].out \in Seq(Bytes)
    BY <1>1 DEF Client
  <2> QED BY <2>1
<1>3. /\ conn' = [conn EXCEPT ![c] = x] /\ cli' = [cli EXCEPT ![c].out = Tail(@)]
      /\ UNCHANGED <<server, book, pools, runs>>
  BY DEF Parsed
<1>4. conn' \in [Conns -> AdminConnection]
  BY <1>1, <1>3
<1>5. cli' \in [Conns -> Client]
  BY <1>1, <1>2, <1>3 DEF Client
<1> QED BY <1>3, <1>4, <1>5

\* The accounts and what is shared have their types.
BookOK ==
    /\ server \in {"running", "freed_list"}
    /\ admins \in Seq(Account) /\ Len(admins) <= MAX_ADMIN
    /\ clients \in Seq([user : String, pass : String])
    /\ dangling \in BOOLEAN /\ maildir \in String

\* Carrying a request out keeps the types, those of the accounts included.
LEMMA ActionType ==
    ASSUME TypeOK, NEW c \in Conns, cli[c].out # <<>>, NEW x \in AdminConnection,
           monitor_action(c, x)
    PROVE  conn' \in [Conns -> AdminConnection] /\ cli' \in [Conns -> Client]
           /\ BookOK' /\ UNCHANGED <<pools, runs>>
<1> USE DEF pools, book, statics
<1> DEFINE Wrapped == conn' \in [Conns -> AdminConnection] /\ cli' \in [Conns -> Client]
                      /\ UNCHANGED <<server, pools, runs>>
<1>1. ASSUME NEW st \in Replying, NEW status \in Statuses, Answer(c, x, st, status) PROVE Wrapped
  BY <1>1, AnswerType
<1>2. name(x) \in String /\ secret(x) \in String
  BY NamesType
<1>3. Success(c, x) => Wrapped
  <2>1. "finish" \in Replying /\ success \in Statuses
    BY DEF Replying, Statuses, success
  <2> QED BY <1>1, <2>1 DEF Success
<1>4. Refusal(c, x) => Wrapped
  <2>1. "finish" \in Replying /\ invalid_data \in Statuses
    BY DEF Replying, Statuses, invalid_data
  <2> QED BY <1>1, <2>1 DEF Refusal
<1>5. Answer(c, x, "finish", invalid_auth) => Wrapped
  <2>1. "finish" \in Replying /\ invalid_auth \in Statuses
    BY DEF Replying, Statuses, invalid_auth
  <2> QED BY <1>1, <2>1
<1> HIDE DEF Wrapped
<1>6. BookOK /\ MAX_ADMIN \in Nat
  BY Sizes DEF TypeOK, BookOK
<1>7. CASE Wrapped /\ UNCHANGED book
  BY <1>6, <1>7 DEF Wrapped, BookOK
<1>8. CASE Success(c, x) /\ maildir' = name(x) /\ UNCHANGED <<admins, clients, dangling>>
  BY <1>2, <1>3, <1>6, <1>8 DEF Wrapped, BookOK
<1>9. CASE add_new_admin(c, x) /\ UNCHANGED <<clients, dangling, maildir>>
  <2>1. CASE UNCHANGED admins /\ Refusal(c, x)
    BY <1>4, <1>6, <1>9, <2>1 DEF Wrapped, BookOK
  <2>2. CASE /\ Len(admins) < MAX_ADMIN
             /\ admins' = Append(admins, [user |-> AdminName(name(x), secret(x)),
                                          token |-> secret(x)])
             /\ Success(c, x)
    <3> DEFINE a == [user |-> AdminName(name(x), secret(x)), token |-> secret(x)]
    <3>1. a \in Account
      BY <1>2, AdminNameIsName DEF Account
    <3> HIDE DEF a
    <3>2. admins' = Append(admins, a)
      BY <2>2 DEF a
    <3>3. admins' \in Seq(Account) /\ Len(admins') = Len(admins) + 1 /\ Len(admins) \in Nat
      BY <1>6, <3>1, <3>2 DEF BookOK
    <3>4. Len(admins') <= MAX_ADMIN
      BY <1>6, <2>2, <3>3
    <3> QED BY <1>3, <1>6, <1>9, <2>2, <3>3, <3>4 DEF Wrapped, BookOK
  <2> QED BY <1>9, <2>1, <2>2 DEF add_new_admin
<1>10. CASE RemoveAdmin(c, x) /\ UNCHANGED <<clients, dangling, maildir>>
  <2>1. CASE UNCHANGED admins /\ Refusal(c, x)
    BY <1>4, <1>6, <1>10, <2>1 DEF Wrapped, BookOK
  <2>2. CASE /\ HasAdmin(name(x)) /\ Success(c, x)
             /\ admins' = SubSeq(admins, 1, Len(admins) - 1)
    <3>1. admins \in Seq(Account) /\ Len(admins) \in Nat /\ Len(admins) - 1 <= Len(admins)
          /\ Len(admins) - 1 \in Nat
      <4>1. admins \in Seq(Account) /\ Len(admins) \in Nat /\ DOMAIN admins = 1..Len(admins)
        BY <1>6 DEF BookOK
      <4> QED BY <2>2, <4>1 DEF HasAdmin
    <3>2. admins' \in Seq(Account) /\ Len(admins') = Len(admins) - 1
      <4> DEFINE a == SubSeq(admins, 1, Len(admins) - 1)
      <4>1. a \in Seq(Account) /\ Len(a) = Len(admins) - 1
        <5>1. \A i \in 1..Len(admins) - 1 : admins[i] \in Account
          BY <3>1
        <5>2. 1 \in Int /\ Len(admins) - 1 \in Int
          BY <3>1
        <5>3. a \in Seq(Account)
              /\ Len(a) = IF 1 <= Len(admins) - 1 THEN Len(admins) - 1 - 1 + 1 ELSE 0
          BY <5>1, <5>2, SubSeqProperties
        <5> DEFINE m == Len(admins) - 1
        <5>4. m \in Nat /\ m - 1 + 1 = m
          BY <3>1
        <5> HIDE DEF a, m
        <5>5. (IF 1 <= m THEN m - 1 + 1 ELSE 0) = m
          BY <5>4
        <5> QED BY <5>3, <5>5 DEF m
      <4> HIDE DEF a
      <4>2. admins' = a
        BY <2>2 DEF a
      <4> QED BY <4>1, <4>2
    <3>3. Len(admins') <= MAX_ADMIN
      BY <1>6, <3>1, <3>2 DEF BookOK
    <3> QED BY <1>3, <1>6, <1>10, <2>2, <3>2, <3>3 DEF Wrapped, BookOK
  <2> QED BY <1>10, <2>1, <2>2 DEF RemoveAdmin
<1>11. CASE FreedList
  <2>1. conn \in [Conns -> AdminConnection] /\ cli \in [Conns -> Client]
    BY DEF TypeOK
  <2> QED BY <1>6, <1>11, <2>1 DEF FreedList, BookOK
<1>12. CASE register_user(c, x) /\ UNCHANGED <<admins, dangling, maildir>>
  <2>1. CASE UNCHANGED clients /\ Refusal(c, x)
    BY <1>4, <1>6, <1>12, <2>1 DEF Wrapped, BookOK
  <2>2. CASE clients' = Append(clients, [user |-> name(x), pass |-> secret(x)]) /\ Success(c, x)
    <3> DEFINE a == [user |-> name(x), pass |-> secret(x)]
    <3>1. a \in [user : String, pass : String]
      BY <1>2
    <3> HIDE DEF a
    <3>2. clients' = Append(clients, a)
      BY <2>2 DEF a
    <3>3. clients' \in Seq([user : String, pass : String])
      BY <1>6, <3>1, <3>2 DEF BookOK
    <3> QED BY <1>3, <1>6, <1>12, <2>2, <3>3 DEF Wrapped, BookOK
  <2> QED BY <1>12, <2>1, <2>2 DEF register_user
<1>13. CASE unregister_user(c, x) /\ UNCHANGED <<admins, maildir>>
  <2>1. CASE UNCHANGED <<clients, dangling>> /\ Refusal(c, x)
    BY <1>4, <1>6, <1>13, <2>1 DEF Wrapped, BookOK
  <2>2. ASSUME NEW k \in DOMAIN clients, Success(c, x), dangling' = (k = 1),
               clients' = SubSeq(clients, 1, k - 1) \o SubSeq(clients, k + 1, Len(clients))
        PROVE  Wrapped /\ BookOK'
    <3> DEFINE S == [user : String, pass : String]
               p == SubSeq(clients, 1, k - 1)
               t == SubSeq(clients, k + 1, Len(clients))
    <3>1. clients \in Seq(S) /\ k \in 1..Len(clients) /\ Len(clients) \in Nat
      BY <1>6 DEF BookOK
    <3> HIDE DEF S
    <3>2. p \in Seq(S) /\ t \in Seq(S)
      BY <3>1
    <3>3. clients' \in Seq(S)
      BY <2>2, <3>2
    <3>4. dangling' \in BOOLEAN
      BY <2>2
    <3> QED BY <1>3, <1>6, <1>13, <2>2, <3>3, <3>4 DEF Wrapped, BookOK, S
  <2> QED BY <1>13, <2>1, <2>2 DEF unregister_user, Wrapped
<1>14. QED
  <2>1. CASE ~check_monitor_admin(x.token) /\ Answer(c, x, "finish", invalid_auth)
             /\ UNCHANGED book
    BY <1>5, <1>7, <2>1
  <2>2. CASE Success(c, x) /\ UNCHANGED book
    BY <1>3, <1>7, <2>2
  <2> QED BY <1>8, <1>9, <1>10, <1>11, <1>12, <1>13, <2>1, <2>2 DEF monitor_action

\* monitor_end puts an empty struct in the place of the connection.
LEMMA EndType ==
    ASSUME TypeOK, NEW c \in Conns, monitor_end(c)
    PROVE  /\ conn' \in [Conns -> AdminConnection] /\ disturbed' \subseteq Conns
           /\ pool_size' \in 0..max_pool /\ pool' \in 0..pool_size'
<1>1. /\ conn \in [Conns -> AdminConnection] /\ disturbed \subseteq Conns
      /\ pool_size \in 0..max_pool /\ pool \in 0..pool_size /\ max_pool \in Nat
  BY Sizes DEF TypeOK
<1> DEFINE y == [Zeroed EXCEPT !.st = "closed", !.status = conn[c].status]
<1>2. y \in AdminConnection
  <2>1. conn[c].status \in Statuses
    BY <1>1 DEF AdminConnection
  <2> QED BY <2>1, ZeroedType
<1> HIDE DEF y
<1>3. /\ conn' = [conn EXCEPT ![c] = y] /\ disturbed' = disturbed \ {c}
      /\ admin_connection_destroy(pool)
  BY DEF monitor_end, y
<1>4. conn' \in [Conns -> AdminConnection] /\ disturbed' \subseteq Conns
  BY <1>1, <1>2, <1>3
<1>5. pool_size' \in 0..max_pool /\ pool' \in 0..pool_size'
  BY <1>1, <1>3 DEF admin_connection_destroy
<1> QED BY <1>4, <1>5

\* The parts of TypeOK each kind of step leaves alone.
LEMMA TypeParts ==
    TypeOK <=> /\ BookOK
               /\ conn \in [Conns -> AdminConnection] /\ cli \in [Conns -> Client]
               /\ combinedlen \in Bytes /\ username_len \in Nat
               /\ pool_size \in 0..max_pool /\ pool \in 0..pool_size
               /\ disturbed \subseteq Conns /\ runs \in 0..MaxRuns
BY DEF TypeOK, BookOK

\* The types hold when the server starts.
LEMMA InitType == Init => TypeOK
<1> SUFFICES ASSUME Init PROVE TypeOK
  OBVIOUS
<1>1. conn \in [Conns -> AdminConnection]
  <2> DEFINE y == [Zeroed EXCEPT !.st = "closed"]
  <2>2. y \in AdminConnection
    BY ZeroedType
  <2> HIDE DEF y
  <2>3. conn = [c \in Conns |-> y]
    BY DEF Init, y
  <2> QED BY <2>2, <2>3
<1>2. cli \in [Conns -> Client]
  BY IdleType DEF Init
<1>3. admins \in Seq(Account) /\ Len(admins) <= MAX_ADMIN
  <2>1. Root \in Account /\ MAX_ADMIN \in Nat /\ MAX_ADMIN > 0
    BY ConstantsOK DEF ConstantsAssumption, Account
  <2> QED BY <2>1 DEF Init
<1>4. clients \in Seq([user : String, pass : String])
  BY ConstantsOK DEF ConstantsAssumption, Init
<1>5. maildir \in String /\ 0 \in Bytes
  BY Sizes DEF Init, String
<1>6. /\ combinedlen \in Bytes /\ username_len \in Nat /\ runs \in 0..MaxRuns
      /\ pool_size \in 0..max_pool /\ pool \in 0..pool_size
  BY <1>5, Sizes DEF Init
<1>7. server = "running" /\ dangling \in BOOLEAN /\ disturbed \subseteq Conns
  BY DEF Init
<1> QED BY <1>1, <1>2, <1>3, <1>4, <1>5, <1>6, <1>7 DEF TypeOK

\* The steps of the client program keep the types.
LEMMA ClientType ==
    ASSUME TypeOK, NEW c \in Conns, Send(c) \/ ClientStep(c) \/ Interrupt(c)
    PROVE  TypeOK'
<1> USE DEF book, statics, pools
<1>1. /\ conn \in [Conns -> AdminConnection] /\ cli \in [Conns -> Client] /\ runs \in 0..MaxRuns
      /\ MaxRuns \in Nat
  BY Sizes DEF TypeOK
<1>2. Idle \in Client /\ 0 \in Bytes /\ <<>> \in Seq(Bytes)
  BY IdleType, Sizes
<1>3. /\ UNCHANGED <<server, conn, book, statics, pools, disturbed>>
      /\ runs' = runs \/ (runs < MaxRuns /\ runs' = runs + 1)
  BY DEF Send, ClientStep, Receive, process_response, Reset, Interrupt
<1>4. runs' \in 0..MaxRuns
  BY <1>1, <1>3
<1>5. cli' \in [Conns -> Client]
  <2>1. CASE Send(c)
    <3>1. PICK r \in Asks[c] : parse_args(r)
              /\ cli' = [cli EXCEPT ![c] = [Idle EXCEPT !.st = "queued", !.req = r,
                                                        !.out = serialize_request(r)]]
      BY <2>1 DEF Send
    <3>2. r \in Request
      BY ConstantsOK DEF ConstantsAssumption
    <3>3. serialize_request(r) \in Seq(Bytes)
      BY <3>1, <3>2, WireIs
    <3>4. [Idle EXCEPT !.st = "queued", !.req = r, !.out = serialize_request(r)] \in Client
      BY <1>2, <3>2, <3>3 DEF Client
    <3> QED BY <1>1, <3>1, <3>4
  <2>2. CASE Receive(c)
    <3>1. Head(cli[c].inn) \in Bytes
      <4>1. cli[c].inn \in Seq(Bytes) /\ cli[c].inn # <<>>
        BY <1>1, <2>2 DEF Client, Receive
      <4> QED BY <4>1
    <3> QED BY <1>1, <1>2, <2>2, <3>1 DEF Receive, Client
  <2>3. CASE process_response(c)
    BY <1>1, <1>2, <2>3 DEF process_response, Client
  <2>4. CASE Reset(c)
    BY <1>1, <1>2, <2>4 DEF Reset, Client
  <2>5. CASE Interrupt(c)
    <3> DEFINE f == [cli EXCEPT ![c].st = "gone"]
               g == [f EXCEPT ![c].inn = <<>>]
               h == [g EXCEPT ![c].buf = 0]
    <3>1. f \in [Conns -> Client]
      BY <1>1 DEF Client
    <3> HIDE DEF f
    <3>2. g \in [Conns -> Client]
      BY <1>2, <3>1 DEF Client
    <3> HIDE DEF g
    <3>3. h \in [Conns -> Client]
      BY <1>2, <3>2 DEF Client
    <3> HIDE DEF h
    <3>4. [h EXCEPT ![c].pieces = 0] \in [Conns -> Client]
      BY <3>3, SMTT(30) DEF Client
    <3>5. cli' = [h EXCEPT ![c].pieces = 0]
      BY <2>5 DEF Interrupt, h, g, f
    <3> QED BY <3>4, <3>5
  <2> QED BY <2>1, <2>2, <2>3, <2>4, <2>5 DEF ClientStep
<1> QED BY <1>3, <1>4, <1>5 DEF TypeOK

\* So do the acceptance of a connection, its end, and what send() takes.
LEMMA ConnectionType ==
    ASSUME TypeOK, NEW c \in Conns,
           monitor_passive_accept(c) \/ AcceptFails(c) \/ ReadFails(c) \/ monitor_write(c)
    PROVE  TypeOK'
<1> USE DEF book, statics, pools
<1>1. /\ conn \in [Conns -> AdminConnection] /\ cli \in [Conns -> Client] /\ disturbed \subseteq Conns
      /\ pool_size \in 0..max_pool /\ pool \in 0..pool_size /\ max_pool \in Nat
  BY Sizes DEF TypeOK
<1>2. UNCHANGED <<server, book, statics, runs>>
  BY DEF monitor_passive_accept, AcceptFails, ReadFails, monitor_write
<1>3. CASE monitor_passive_accept(c)
  <2>1. conn' \in [Conns -> AdminConnection]
    <3>1. Zeroed \in AdminConnection
      BY ZeroedType
    <3> QED BY <1>1, <1>3, <3>1 DEF monitor_passive_accept, new_admin_connection
  <2>2. cli' \in [Conns -> Client]
    BY <1>1, <1>3 DEF monitor_passive_accept, Client
  <2>3. pool_size' = pool_size /\ pool' \in 0..pool_size' /\ disturbed' = disturbed
    BY <1>1, <1>3 DEF monitor_passive_accept, Taken
  <2> QED BY <1>2, <2>1, <2>2, <2>3 DEF TypeOK
<1>4. CASE AcceptFails(c)
  <2>1. cli' \in [Conns -> Client] /\ conn' = conn /\ disturbed' = disturbed
    BY <1>1, <1>4 DEF AcceptFails, Client
  <2>2. pool_size' \in 0..max_pool /\ pool' \in 0..pool_size'
    <3>1. Taken \in 0..pool_size /\ Taken <= pool
      BY <1>1 DEF Taken
    <3> QED BY <1>1, <1>4, <3>1 DEF AcceptFails, admin_connection_destroy
  <2> QED BY <1>2, <2>1, <2>2 DEF TypeOK
<1>5. CASE monitor_end(c) /\ UNCHANGED cli
  BY <1>2, <1>5, EndType DEF TypeOK
<1>6. ASSUME NEW k \in 1..Len(conn[c].wb),
             cli' = [cli EXCEPT ![c].inn =
                        IF cli[c].st = "gone" THEN @ ELSE @ \o SubSeq(conn[c].wb, 1, k)],
             IF k = Len(conn[c].wb)
             THEN monitor_end(c)
             ELSE /\ conn' = [conn EXCEPT ![c].wb = SubSeq(@, k + 1, Len(@))]
                  /\ UNCHANGED <<pools, disturbed>>
      PROVE  TypeOK'
  <2>1. conn[c].wb \in Seq(Bytes) /\ Len(conn[c].wb) \in Nat /\ k \in Nat
    BY <1>1 DEF AdminConnection
  <2>2. SubSeq(conn[c].wb, 1, k) \in Seq(Bytes)
        /\ SubSeq(conn[c].wb, k + 1, Len(conn[c].wb)) \in Seq(Bytes)
    BY <2>1
  <2>3. cli[c].inn \o SubSeq(conn[c].wb, 1, k) \in Seq(Bytes)
    <3>1. cli[c].inn \in Seq(Bytes)
      BY <1>1 DEF Client
    <3> QED BY <2>2, <3>1
  <2>4. cli' \in [Conns -> Client]
    <3> DEFINE v == IF cli[c].st = "gone" THEN cli[c].inn
                    ELSE cli[c].inn \o SubSeq(conn[c].wb, 1, k)
    <3>1. v \in Seq(Bytes)
      BY <1>1, <2>3 DEF Client
    <3>2. cli' = [cli EXCEPT ![c].inn = v]
      BY <1>6
    <3> HIDE DEF v
    <3> QED BY <1>1, <3>1, <3>2 DEF Client
  <2>5. CASE k = Len(conn[c].wb)
    <3>1. monitor_end(c)
      BY <1>6, <2>5
    <3> QED BY <1>2, <2>4, <3>1, EndType DEF TypeOK
  <2>6. CASE k # Len(conn[c].wb)
    <3> DEFINE v == SubSeq(conn[c].wb, k + 1, Len(conn[c].wb))
    <3>1. conn' = [conn EXCEPT ![c].wb = v] /\ UNCHANGED <<pools, disturbed>>
      BY <1>6, <2>6
    <3>2. conn' \in [Conns -> AdminConnection]
      <4>1. v \in Seq(Bytes)
        BY <2>2
      <4> HIDE DEF v
      <4> DEFINE y == [conn[c] EXCEPT !.wb = v]
      <4>2. conn[c] \in AdminConnection /\ conn \in [Conns -> AdminConnection]
        BY <1>1
      <4>3. y \in AdminConnection
        BY <4>1, <4>2 DEF AdminConnection
      <4>4. conn' = [conn EXCEPT ![c] = y]
        BY <3>1
      <4> HIDE DEF y
      <4> QED BY <4>2, <4>3, <4>4
    <3> QED BY <1>2, <2>4, <3>1, <3>2 DEF TypeOK
  <2> QED BY <2>5, <2>6
<1>7. CASE ReadFails(c)
  BY <1>5, <1>7 DEF ReadFails
<1>8. CASE monitor_write(c)
  BY <1>5, <1>6, <1>8 DEF monitor_write
<1> QED BY <1>3, <1>4, <1>7, <1>8

\* Where the next byte of data goes, and the 0 after it, there is room.
InBounds ==
    \A c \in Conns : conn[c].st = "data" /\ cli[c].out # <<>> =>
        /\ conn[c].read < MAX_PATH
        /\ conn[c].target \in {add_admin, add_pop3} => MAX_NAME + conn[c].read < MAX_PATH
        /\ conn[c].finish_user => username_len <= MAX_NAME + conn[c].read

\* A byte is one more that was parsed, the end of a request, or an error.
LEMMA FeedIs ==
    ASSUME TypeOK, InBounds, NEW c \in Conns, monitor_parser_feed(c)
    PROVE  /\ cli[c].out # <<>> /\ conn[c].st \in Reading /\ server = "running"
           /\ \E y \in AdminConnection :
                \/ Parsed(c, y) /\ y.st \in Reading
                \/ monitor_action(c, y)
                \/ \E status \in Statuses : Error(c, y, status)
           /\ combinedlen' \in Bytes /\ username_len' \in Nat /\ disturbed' \subseteq Conns
<1> USE DEF book, statics, pools
<1> DEFINE b == Next_byte(c)
           x == conn[c]
           Goal == /\ \E y \in AdminConnection :
                        \/ Parsed(c, y) /\ y.st \in Reading
                        \/ monitor_action(c, y)
                        \/ \E status \in Statuses : Error(c, y, status)
                   /\ combinedlen' \in Bytes /\ username_len' \in Nat
                   /\ disturbed' \subseteq Conns
<1>1. /\ conn \in [Conns -> AdminConnection] /\ cli \in [Conns -> Client]
      /\ combinedlen \in Bytes /\ username_len \in Nat /\ disturbed \subseteq Conns
      /\ BookOK /\ runs \in 0..MaxRuns /\ pool_size \in 0..max_pool /\ pool \in 0..pool_size
  BY TypeParts
<1>2. /\ x \in AdminConnection /\ cli[c].out # <<>> /\ b \in Bytes
      /\ conn[c].st \in Reading /\ server = "running"
  <2>1. cli[c].out # <<>> /\ conn[c].st \in Reading /\ server = "running"
    BY DEF monitor_parser_feed, Feed, parse_version, parse_token, parse_type, parser_target,
           parse_dlen, parse_data_text, parse_data_separator, parse_data_account, Reading
  <2>2. cli[c].out \in Seq(Bytes)
    BY <1>1 DEF Client
  <2>3. Head(cli[c].out) \in Bytes
    BY <2>1, <2>2
  <2> QED BY <1>1, <2>1, <2>3 DEF Next_byte
<1>3. /\ x.token \in Seq(Bytes) /\ x.data \in Memory /\ x.read \in Nat
      /\ x.len \in Nat /\ 0 \in Bytes /\ BYTE \in Nat /\ Bytes \subseteq Nat
  <2>1. BYTE \in Nat \ {0}
    BY Sizes
  <2>2. 0 \in Bytes /\ Bytes \subseteq Nat
    BY <2>1 DEF Bytes
  <2>3. /\ x.token \in Seq(Bytes) /\ x.data \in Memory
        /\ x.read \in Nat /\ x.len \in Nat
    <3> HIDE DEF x
    <3> QED BY <1>2, SMTT(30) DEF AdminConnection
  <2> QED BY <2>1, <2>2, <2>3
<1>4. ASSUME NEW y \in AdminConnection, Parsed(c, y), y.st \in Reading,
             combinedlen' \in Bytes, username_len' \in Nat, disturbed' \subseteq Conns
      PROVE  Goal
  BY <1>4
<1>5. ASSUME NEW y \in AdminConnection, monitor_action(c, y),
             combinedlen' \in Bytes, username_len' \in Nat, disturbed' \subseteq Conns
      PROVE  Goal
  BY <1>5
<1>6. ASSUME NEW y \in AdminConnection, NEW status \in Statuses,
             Error(c, y, status)
      PROVE  Goal
  BY <1>1, <1>6 DEF Error
<1> SUFFICES Goal
  BY <1>2
<1> HIDE DEF Goal
<1>7. ASSUME x.st = "data", NEW at \in Nat, NEW v \in Bytes, at < MAX_PATH
      PROVE  Put(x.data, at, v) \in Memory
  <2>1. at \in DataIndex /\ at \in StructIndex
    BY <1>7, Sizes DEF DataIndex
  <2> QED BY <1>3, <1>7, <2>1, PutType
<1>17. ASSUME NEW f \in Memory, NEW at \in Nat, at <= MAX_PATH
       PROVE  Put(f, at, 0) \in Memory
  <2>1. at \in StructIndex
    BY <1>17, Sizes
  <2> QED BY <1>3, <1>17, <2>1, PutType
<1>18. ASSUME x.st = "data"
       PROVE  /\ x.read < MAX_PATH /\ x.read + 1 \in Nat /\ x.read + 1 <= MAX_PATH
              /\ x.target \in {add_admin, add_pop3} =>
                    /\ MAX_NAME + (x.read + 1) \in Nat /\ MAX_NAME + (x.read + 1) <= MAX_PATH
                    /\ x.finish_user => /\ MAX_NAME + x.read - username_len \in Nat
                                        /\ MAX_NAME + x.read - username_len < MAX_PATH
  <2>1. /\ x.read < MAX_PATH
        /\ x.target \in {add_admin, add_pop3} => MAX_NAME + x.read < MAX_PATH
        /\ x.finish_user => username_len <= MAX_NAME + x.read
    BY <1>2, <1>18 DEF InBounds
  <2>2. /\ MAX_PATH \in Nat /\ MAX_NAME \in Nat /\ username_len \in Nat /\ x.read \in Nat
    BY <1>1, <1>3, Sizes
  <2>3. x.finish_user /\ x.target \in {add_admin, add_pop3} =>
          /\ MAX_NAME + x.read - username_len \in Nat
          /\ MAX_NAME + x.read - username_len < MAX_PATH
    <3> HIDE DEF x
    <3>1. ASSUME NEW d \in Nat, NEW l \in Nat, l <= d, d < MAX_PATH
          PROVE  d - l \in Nat /\ d - l < MAX_PATH
      BY <2>2, <3>1
    <3>2. MAX_NAME + x.read \in Nat
      BY <2>2
    <3> QED BY <2>1, <2>2, <3>1, <3>2
  <2> HIDE DEF x
  <2> QED BY <2>1, <2>2, <2>3
<1>8. /\ unsuported_ver \in Statuses /\ no_such_method \in Statuses
      /\ no_such_target \in Statuses /\ invalid_data \in Statuses
  BY DEF Statuses, unsuported_ver, no_such_method, no_such_target, invalid_data
<1>9. CASE parse_version(c)
  <2>1. [x EXCEPT !.st = "token"] \in AdminConnection
        /\ [x EXCEPT !.st = "token"].st \in Reading
    BY <1>2 DEF AdminConnection, Reading
  <2> QED BY <1>1, <1>2, <1>4, <1>6, <1>8, <1>9, <2>1 DEF parse_version
<1>10. CASE parse_token(c)
  <2> DEFINE y == [x EXCEPT !.token = Append(@, b),
                            !.st = IF Len(x.token) + 1 = TOKEN_SIZE THEN "method" ELSE "token"]
  <2>1. Append(x.token, b) \in Seq(Bytes)
    BY <1>2, <1>3
  <2>2. y \in AdminConnection /\ y.st \in Reading
    BY <1>2, <2>1 DEF AdminConnection, Reading
  <2>3. Parsed(c, y) /\ UNCHANGED <<statics, disturbed>>
    BY <1>10 DEF parse_token
  <2> HIDE DEF y
  <2> QED BY <1>1, <1>4, <2>2, <2>3
<1>11. CASE parse_type(c)
  <2>1. [x EXCEPT !.type = b, !.st = "target"] \in AdminConnection
        /\ [x EXCEPT !.type = b, !.st = "target"].st \in Reading
    BY <1>2 DEF AdminConnection, Reading
  <2> QED BY <1>1, <1>2, <1>4, <1>6, <1>8, <1>11, <2>1 DEF parse_type
<1>12. CASE parser_target(c)
  <2> DEFINE y == [x EXCEPT !.target = b]
             z == [y EXCEPT !.st = "dlen", !.read = 0, !.len = 2]
  <2>1. y \in AdminConnection
    BY <1>2 DEF AdminConnection
  <2>2. z \in AdminConnection /\ z.st \in Reading
    BY <1>2 DEF AdminConnection, Reading
  <2>3. \/ monitor_action(c, y) /\ UNCHANGED <<statics, disturbed>>
        \/ Parsed(c, z) /\ UNCHANGED <<statics, disturbed>>
        \/ Error(c, x, no_such_target)
    BY <1>12 DEF parser_target
  <2> HIDE DEF y, z
  <2> QED BY <1>1, <1>2, <1>4, <1>5, <1>6, <1>8, <2>1, <2>2, <2>3
<1>13. CASE parse_dlen(c)
  <2>1. CASE /\ combinedlen' = b /\ Parsed(c, [x EXCEPT !.read = 1])
             /\ UNCHANGED <<username_len, disturbed>>
    <3>1. [x EXCEPT !.read = 1] \in AdminConnection /\ [x EXCEPT !.read = 1].st \in Reading
      BY <1>2 DEF AdminConnection
    <3> QED BY <1>1, <1>2, <1>4, <2>1, <3>1
  <2>2. CASE /\ Parsed(c, [x EXCEPT !.st = "data", !.read = 0, !.len = BYTE * combinedlen + b])
             /\ UNCHANGED <<combinedlen, username_len, disturbed>>
    <3>1. BYTE * combinedlen + b \in Nat
      <4>1. BYTE \in Nat /\ combinedlen \in Nat /\ b \in Nat
        BY <1>1, <1>2, <1>3
      <4> HIDE DEF b
      <4>2. BYTE * combinedlen \in Nat
        BY <4>1
      <4> QED BY <4>1, <4>2
    <3> DEFINE y == [x EXCEPT !.st = "data", !.read = 0, !.len = BYTE * combinedlen + b]
    <3>2. y \in AdminConnection /\ y.st \in Reading
      BY <1>2, <3>1 DEF AdminConnection, Reading
    <3>3. Parsed(c, y)
      BY <2>2
    <3> HIDE DEF y
    <3> QED BY <1>1, <1>4, <2>2, <3>2, <3>3
  <2> QED BY <1>13, <2>1, <2>2 DEF parse_dlen
<1>14. CASE parse_data_text(c)
  <2> DEFINE y == [x EXCEPT !.data = Put(@, x.read, b), !.read = @ + 1]
             z == [y EXCEPT !.data = Put(@, y.read, 0), !.finish_user = FALSE]
  <2>1. x.st = "data" /\ Put(x.data, x.read, b) \in Memory /\ x.read + 1 \in Nat
    BY <1>2, <1>3, <1>7, <1>14, <1>18 DEF parse_data_text, Feed
  <2>2. /\ y \in AdminConnection /\ y.data \in Memory /\ y.st \in Reading
        /\ y.read = x.read + 1
    BY <1>2, <2>1 DEF AdminConnection
  <2>3. UNCHANGED <<statics, disturbed>>
        /\ (Parsed(c, y) \/ monitor_action(c, z) \/ Error(c, x, invalid_data))
    BY <1>14 DEF parse_data_text, Complete
  <2> HIDE DEF y
  <2>4. z \in AdminConnection
    <3>1. Put(y.data, y.read, 0) \in Memory
      BY <1>17, <1>18, <2>1, <2>2
    <3> QED BY <2>2, <3>1 DEF AdminConnection
  <2> HIDE DEF z
  <2> QED BY <1>1, <1>2, <1>4, <1>5, <1>6, <1>8, <2>2, <2>3, <2>4
<1>15. CASE parse_data_separator(c)
  <2> DEFINE y == [x EXCEPT !.data = Put(@, x.read, 0), !.read = @ + 1, !.finish_user = TRUE]
             z == [y EXCEPT !.data = Put(@, MAX_NAME + y.read, 0), !.finish_user = FALSE]
  <2>1. /\ x.st = "data" /\ x.target \in {add_admin, add_pop3}
        /\ Put(x.data, x.read, 0) \in Memory /\ x.read + 1 \in Nat
    BY <1>2, <1>3, <1>7, <1>15, <1>18 DEF parse_data_separator, Feed
  <2>2. /\ y \in AdminConnection /\ y.data \in Memory /\ y.st \in Reading
        /\ y.read = x.read + 1
    BY <1>2, <2>1 DEF AdminConnection
  <2>3. /\ username_len' \in Nat /\ disturbed' \subseteq Conns /\ combinedlen' = combinedlen
        /\ (Parsed(c, y) \/ monitor_action(c, z))
    BY <1>1, <1>15, <2>1 DEF parse_data_separator, Complete
  <2> HIDE DEF y
  <2>4. z \in AdminConnection
    <3>1. Put(y.data, MAX_NAME + y.read, 0) \in Memory
      BY <1>17, <1>18, <2>1, <2>2
    <3> QED BY <2>2, <3>1 DEF AdminConnection
  <2> HIDE DEF z
  <2> QED BY <1>1, <1>4, <1>5, <2>2, <2>3, <2>4
<1>16. CASE parse_data_account(c)
  <2> DEFINE at == IF x.finish_user THEN MAX_NAME + x.read - username_len ELSE x.read
             y == [x EXCEPT !.data = Put(@, at, b), !.read = @ + 1]
             z == [y EXCEPT !.data = Put(@, MAX_NAME + y.read, 0), !.finish_user = FALSE]
  <2>1. /\ x.st = "data" /\ x.target \in {add_admin, add_pop3} /\ x.read + 1 \in Nat
        /\ Put(x.data, at, b) \in Memory
    <3>1. x.st = "data" /\ x.target \in {add_admin, add_pop3} /\ x.read + 1 \in Nat
      BY <1>16, <1>18 DEF parse_data_account, Feed
    <3>2. at \in Nat /\ at < MAX_PATH
      BY <1>3, <1>18, <3>1
    <3> QED BY <1>2, <1>7, <3>1, <3>2
  <2>2. /\ y \in AdminConnection /\ y.data \in Memory /\ y.st \in Reading
        /\ y.read = x.read + 1
    BY <1>2, <2>1 DEF AdminConnection
  <2>3. UNCHANGED <<statics, disturbed>>
        /\ (Parsed(c, y) \/ monitor_action(c, z) \/ Error(c, x, invalid_data))
    BY <1>16 DEF parse_data_account, Complete
  <2> HIDE DEF y
  <2>4. z \in AdminConnection
    <3>1. Put(y.data, MAX_NAME + y.read, 0) \in Memory
      BY <1>17, <1>18, <2>1, <2>2
    <3> QED BY <2>2, <3>1 DEF AdminConnection
  <2> HIDE DEF z
  <2> QED BY <1>1, <1>2, <1>4, <1>5, <1>6, <1>8, <2>2, <2>3, <2>4
<1> QED
  BY <1>9, <1>10, <1>11, <1>12, <1>13, <1>14, <1>15, <1>16 DEF monitor_parser_feed

\* So each state of the parser keeps the types.
LEMMA ParserType ==
    ASSUME TypeOK, InBounds, NEW c \in Conns, monitor_parser_feed(c)
    PROVE  TypeOK'
<1>1. PICK y \in AdminConnection :
        \/ Parsed(c, y) /\ y.st \in Reading
        \/ monitor_action(c, y)
        \/ \E status \in Statuses : Error(c, y, status)
  BY FeedIs
<1>2. /\ cli[c].out # <<>>
      /\ combinedlen' \in Bytes /\ username_len' \in Nat /\ disturbed' \subseteq Conns
  BY FeedIs
<1>3. CASE Parsed(c, y)
  BY <1>2, <1>3, ParsedType DEF TypeOK, book, pools
<1>4. CASE monitor_action(c, y)
  BY <1>2, <1>4, ActionType DEF TypeOK, BookOK, pools
<1>5. ASSUME NEW status \in Statuses, Error(c, y, status) PROVE TypeOK'
  <2>1. "error" \in Replying
    BY DEF Replying
  <2> QED BY <1>2, <1>5, <2>1, AnswerType DEF TypeOK, Error, book, statics, pools
<1> QED BY <1>1, <1>3, <1>4, <1>5

\* Every step keeps the types.
LEMMA TypeStep == TypeOK /\ InBounds /\ [Next]_vars => TypeOK'
<1> SUFFICES ASSUME TypeOK, InBounds, [Next]_vars PROVE TypeOK'
  OBVIOUS
<1>1. CASE UNCHANGED vars
  BY <1>1 DEF vars, book, statics, pools, TypeOK
<1>2. ASSUME NEW c \in Conns, Send(c) \/ ClientStep(c) \/ Interrupt(c) PROVE TypeOK'
  BY <1>2, ClientType
<1>3. ASSUME NEW c \in Conns, ServerStep(c) PROVE TypeOK'
  BY <1>3, ConnectionType, ParserType DEF ServerStep
<1>4. CASE validate_user
  BY <1>4 DEF validate_user, book, statics, pools, TypeOK
<1>5. CASE Done
  BY <1>1, <1>5 DEF Done
<1> QED BY <1>1, <1>2, <1>3, <1>4, <1>5 DEF Next

-----------------------------------------------------------------------------
(* The administrators. *)

\* Every change of the list is one administrator more, with a new name, or the last one less.
AdminsMove ==
    \/ UNCHANGED admins
    \/ \E a \in Account : ~HasAdmin(a.user) /\ admins' = Append(admins, a)
    \/ Len(admins) >= 1 /\ admins' = SubSeq(admins, 1, Len(admins) - 1)

\* A request does one of these to the list.
LEMMA ActionAdmins ==
    ASSUME TypeOK, NEW c \in Conns, NEW x \in AdminConnection, monitor_action(c, x)
    PROVE  AdminsMove
<1> USE DEF book
<1>1. CASE add_new_admin(c, x)
  <2>1. CASE UNCHANGED admins
    BY <2>1 DEF AdminsMove
  <2>2. CASE /\ ~HasAdmin(name(x))
             /\ admins' = Append(admins, [user |-> AdminName(name(x), secret(x)),
                                          token |-> secret(x)])
    <3> DEFINE a == [user |-> AdminName(name(x), secret(x)), token |-> secret(x)]
    <3>1. a \in Account /\ a.user = name(x)
      BY AdminNameIsName, NamesType DEF Account
    <3>2. admins' = Append(admins, a)
      BY <2>2
    <3> HIDE DEF a
    <3> QED BY <2>2, <3>1, <3>2 DEF AdminsMove
  <2> QED BY <1>1, <2>1, <2>2 DEF add_new_admin
<1>2. CASE RemoveAdmin(c, x)
  <2>1. CASE HasAdmin(name(x))
    <3>1. Len(admins) >= 1
      <4>1. admins \in Seq(Account) /\ DOMAIN admins = 1..Len(admins) /\ Len(admins) \in Nat
        BY DEF TypeOK
      <4> QED BY <2>1, <4>1 DEF HasAdmin
    <3> QED BY <1>2, <2>1, <3>1 DEF RemoveAdmin, AdminsMove
  <2> QED BY <1>2, <2>1 DEF RemoveAdmin, AdminsMove
<1>3. \/ UNCHANGED admins \/ add_new_admin(c, x) \/ RemoveAdmin(c, x)
  BY DEF monitor_action, FreedList
<1> QED BY <1>1, <1>2, <1>3 DEF AdminsMove

\* A step leaves the administrators as they are, enters one with a new name, or drops the
\* last.
LEMMA AdminsStep ==
    ASSUME TypeOK, InBounds, [Next]_vars
    PROVE  AdminsMove
<1> USE DEF book, statics, pools
<1>1. CASE UNCHANGED admins
  BY <1>1 DEF AdminsMove
<1>2. ASSUME NEW c \in Conns, monitor_parser_feed(c) PROVE AdminsMove
  <2>1. PICK y \in AdminConnection :
          \/ Parsed(c, y) /\ y.st \in Reading
          \/ monitor_action(c, y)
          \/ \E status \in Statuses : Error(c, y, status)
    BY <1>2, FeedIs
  <2> QED BY <1>1, <2>1, ActionAdmins DEF Parsed, Error
<1>3. ASSUME NEW c \in Conns, Send(c) \/ ClientStep(c) \/ Interrupt(c) PROVE UNCHANGED admins
  BY <1>3 DEF Send, ClientStep, Receive, process_response, Reset, Interrupt
<1>4. ASSUME NEW c \in Conns,
             monitor_passive_accept(c) \/ AcceptFails(c) \/ ReadFails(c) \/ monitor_write(c)
      PROVE  UNCHANGED admins
  BY <1>4 DEF monitor_passive_accept, AcceptFails, ReadFails, monitor_write
<1>5. CASE validate_user \/ Done \/ UNCHANGED vars
  BY <1>1, <1>5 DEF validate_user, Done, vars
<1> QED BY <1>1, <1>2, <1>3, <1>4, <1>5 DEF Next, ServerStep

\* The names stay different: a name is appended only when it is new as strcmp sees it, and
\* what strncpy leaves of it is that name.
LEMMA OneTokenStep ==
    ASSUME TypeOK, InBounds, OneTokenPerAdmin, [Next]_vars
    PROVE  OneTokenPerAdmin'
<1>1. admins \in Seq(Account) /\ Len(admins) \in Nat /\ DOMAIN admins = 1..Len(admins)
  BY DEF TypeOK
<1>2. CASE UNCHANGED admins
  BY <1>2 DEF OneTokenPerAdmin
<1>3. ASSUME NEW a \in Account, ~HasAdmin(a.user), admins' = Append(admins, a)
      PROVE  OneTokenPerAdmin'
  <2>1. /\ admins' \in Seq(Account) /\ Len(admins') = Len(admins) + 1
        /\ \A i \in 1..Len(admins) : admins'[i] = admins[i]
        /\ admins'[Len(admins) + 1] = a
    BY <1>1, <1>3
  <2>2. DOMAIN admins' = 1..Len(admins) + 1
    BY <2>1
  <2>3. \A i \in 1..Len(admins) : admins[i].user # a.user
    BY <1>1, <1>3 DEF HasAdmin
  <2>4. \A i \in 1..Len(admins) + 1 : i \in 1..Len(admins) \/ i = Len(admins) + 1
    BY <1>1
  <2> QED BY <1>1, <2>1, <2>2, <2>3, <2>4 DEF OneTokenPerAdmin
<1>4. ASSUME Len(admins) >= 1, admins' = SubSeq(admins, 1, Len(admins) - 1)
      PROVE  OneTokenPerAdmin'
  <2> DEFINE m == Len(admins) - 1
  <2>1. m \in Nat /\ m <= Len(admins) /\ 1..m \subseteq 1..Len(admins)
    BY <1>1, <1>4
  <2>2. admins' = SubSeq(admins, 1, m)
    BY <1>4
  <2> HIDE DEF m
  <2>3. DOMAIN admins' = 1..m /\ \A i \in 1..m : admins'[i] = admins[i]
    BY <1>1, <2>1, <2>2
  <2> QED BY <1>1, <2>1, <2>3 DEF OneTokenPerAdmin
<1> QED BY <1>2, <1>3, <1>4, AdminsStep DEF AdminsMove

-----------------------------------------------------------------------------
(* What the client is told. *)

\* The first byte that waits for the client, or that it has read, is the status.
Telling(c) ==
    /\ cli[c].st = "queued" => cli[c].inn = <<>> /\ cli[c].pieces = 0 /\ conn[c].st = "closed"
    /\ conn[c].st # "closed" => cli[c].st \in {"connected", "gone"}
    /\ cli[c].st = "connected" =>
        /\ conn[c].st \in Reading => cli[c].inn = <<>> /\ cli[c].pieces = 0
        /\ cli[c].pieces = 0 /\ cli[c].inn # <<>> => Head(cli[c].inn) = conn[c].status
        /\ cli[c].pieces = 0 /\ cli[c].inn = <<>> /\ conn[c].st \in Replying =>
                conn[c].wb = Reply(conn[c].status)
    /\ cli[c].st \in {"connected", "told"} /\ cli[c].pieces = 1 => cli[c].buf = conn[c].status

TellingInv == \A c \in Conns : Telling(c)

\* A byte that was fed, or the end of a request, leaves the reply before the client.
LEMMA TellingFeed ==
    ASSUME TypeOK, InBounds, TellingInv, NEW c \in Conns, monitor_parser_feed(c)
    PROVE  TellingInv'
<1>1. conn \in [Conns -> AdminConnection] /\ cli \in [Conns -> Client]
      /\ Reading \cap Replying = {} /\ "closed" \notin Reading \cup Replying
  BY DEF TypeOK, Reading, Replying
<1>2. conn[c].st \in Reading /\ Telling(c)
  BY FeedIs DEF TellingInv
<1>3. \A d \in Conns \ {c} : conn'[d] = conn[d] /\ cli'[d] = cli[d] => Telling(d)'
  BY DEF TellingInv, Telling
<1>4. \A y : Parsed(c, y) => conn' = [conn EXCEPT ![c] = y] /\ cli' = [cli EXCEPT ![c].out = Tail(@)]
  BY DEF Parsed
<1>5. ASSUME NEW x, NEW st \in Replying, NEW status, Answer(c, x, st, status), x \in AdminConnection
      PROVE  TellingInv'
  <2> DEFINE y == [x EXCEPT !.st = st, !.status = status, !.wb = Reply(status)]
  <2>1. PICK out : cli' = [cli EXCEPT ![c].out = out]
    BY <1>5 DEF Answer
  <2>2. conn' = [conn EXCEPT ![c] = y]
    BY <1>5 DEF Answer
  <2>3. y.st = st /\ y.status = status /\ y.wb = Reply(status)
    BY <1>5 DEF AdminConnection
  <2> HIDE DEF y
  <2>4. /\ conn'[c].st \in Replying /\ conn'[c].wb = Reply(conn'[c].status)
        /\ cli'[c].st = cli[c].st /\ cli'[c].inn = cli[c].inn /\ cli'[c].pieces = cli[c].pieces
    BY <1>1, <2>1, <2>2, <2>3 DEF Client
  <2>5. \A d \in Conns \ {c} : conn'[d] = conn[d] /\ cli'[d] = cli[d]
    BY <1>1, <2>1, <2>2
  <2>6. Telling(c)'
    BY <1>1, <1>2, <2>4 DEF Telling, Reading, Replying
  <2> QED BY <1>3, <2>5, <2>6 DEF TellingInv
<1>6. ASSUME NEW y \in AdminConnection, y.st \in Reading, Parsed(c, y) PROVE TellingInv'
  <2>1. /\ conn'[c].st \in Reading
        /\ cli'[c].st = cli[c].st /\ cli'[c].inn = cli[c].inn /\ cli'[c].pieces = cli[c].pieces
    BY <1>1, <1>4, <1>6 DEF Client
  <2>2. \A d \in Conns \ {c} : conn'[d] = conn[d] /\ cli'[d] = cli[d]
    BY <1>1, <1>4, <1>6
  <2>3. Telling(c)'
    BY <1>1, <1>2, <2>1 DEF Telling, Reading, Replying
  <2> QED BY <1>3, <2>2, <2>3 DEF TellingInv
<1>7. PICK y \in AdminConnection :
        \/ Parsed(c, y) /\ y.st \in Reading
        \/ monitor_action(c, y)
        \/ \E status \in Statuses : Error(c, y, status)
  BY FeedIs
<1>8. ASSUME monitor_action(c, y) \/ \E status \in Statuses : Error(c, y, status)
      PROVE  FreedList \/ \E st \in Replying, status \in Statuses : Answer(c, y, st, status)
  <2>1. "finish" \in Replying /\ "error" \in Replying
        /\ {success, invalid_data, invalid_auth} \subseteq Statuses
    BY DEF Replying, Statuses, success, invalid_data, invalid_auth
  <2> QED
    BY <1>8, <2>1 DEF monitor_action, Error, Success, Refusal, add_new_admin, RemoveAdmin,
                      register_user, unregister_user
<1>9. CASE FreedList
  BY <1>9 DEF FreedList, TellingInv, Telling
<1>10. QED
  <2>1. CASE Parsed(c, y) /\ y.st \in Reading
    BY <1>6, <2>1
  <2>2. CASE monitor_action(c, y) \/ \E status \in Statuses : Error(c, y, status)
    BY <1>5, <1>8, <1>9, <2>2
  <2> QED BY <1>7, <2>1, <2>2

\* The steps of the client: what it reads first is the first byte that waited.
LEMMA TellingClient ==
    ASSUME TypeOK, TellingInv, NEW c \in Conns, Send(c) \/ ClientStep(c) \/ Interrupt(c)
    PROVE  TellingInv'
<1>1. cli \in [Conns -> Client] /\ conn \in [Conns -> AdminConnection] /\ Telling(c)
      /\ Reading \cap Replying = {} /\ "closed" \notin Reading \cup Replying
  BY DEF TypeOK, TellingInv, Reading, Replying
<1>2. conn' = conn
  BY DEF Send, ClientStep, Receive, process_response, Reset, Interrupt
<1>3. \A d \in Conns \ {c} : cli'[d] = cli[d]
  BY <1>1 DEF Send, ClientStep, Receive, process_response, Reset, Interrupt
<1>4. \A d \in Conns \ {c} : Telling(d)'
  BY <1>2, <1>3 DEF TellingInv, Telling
<1>5. CASE Send(c)
  <2>1. PICK r : cli' = [cli EXCEPT ![c] = [Idle EXCEPT !.st = "queued", !.req = r,
                                                        !.out = serialize_request(r)]]
    BY <1>5 DEF Send
  <2>2. cli'[c].st = "queued" /\ cli'[c].inn = <<>> /\ cli'[c].pieces = 0 /\ conn[c].st = "closed"
    BY <1>1, <1>5, <2>1 DEF Idle, Send
  <2>3. Telling(c)'
    BY <1>2, <2>2 DEF Telling
  <2> QED BY <1>4, <2>3 DEF TellingInv
<1>6. CASE Receive(c)
  <2>1. /\ cli'[c].st = "connected" /\ cli'[c].inn = <<>> /\ cli[c].st = "connected"
        /\ cli'[c].buf = Head(cli[c].inn)
        /\ cli'[c].pieces = (IF cli[c].pieces = 0 THEN 1 ELSE 2) /\ cli[c].inn # <<>>
    BY <1>1, <1>6 DEF Receive, Client
  <2>2. Telling(c)'
    BY <1>1, <1>2, <2>1 DEF Telling, Reading, Replying
  <2> QED BY <1>4, <2>2 DEF TellingInv
<1>7. CASE process_response(c)
  <2>1. /\ cli'[c].st = "told" /\ cli[c].st = "connected" /\ conn[c].st = "closed"
        /\ cli'[c].buf = cli[c].buf /\ cli'[c].pieces = cli[c].pieces
    BY <1>1, <1>7 DEF process_response, Idle
  <2>2. Telling(c)'
    BY <1>1, <1>2, <2>1 DEF Telling
  <2> QED BY <1>4, <2>2 DEF TellingInv
<1>8. CASE Reset(c)
  <2>1. cli'[c].st = "aborted" /\ conn[c].st = "closed"
    BY <1>1, <1>8 DEF Reset, Idle
  <2>2. Telling(c)'
    BY <1>1, <1>2, <2>1 DEF Telling
  <2> QED BY <1>4, <2>2 DEF TellingInv
<1>9. CASE Interrupt(c)
  <2>1. cli'[c].st = "gone"
    BY <1>1, <1>9 DEF Interrupt, Client
  <2>2. Telling(c)'
    BY <1>1, <1>2, <2>1 DEF Telling
  <2> QED BY <1>4, <2>2 DEF TellingInv
<1> QED BY <1>5, <1>6, <1>7, <1>8, <1>9 DEF ClientStep

\* A connection is accepted without a reply; what send() takes of it comes in order, and the
\* struct that is put away keeps the status.
LEMMA TellingConnection ==
    ASSUME TypeOK, TellingInv, NEW c \in Conns,
           monitor_passive_accept(c) \/ AcceptFails(c) \/ ReadFails(c) \/ monitor_write(c)
    PROVE  TellingInv'
<1>1. cli \in [Conns -> Client] /\ conn \in [Conns -> AdminConnection] /\ Telling(c)
      /\ Reading \cap Replying = {} /\ "closed" \notin Reading \cup Replying
      /\ conn[c].wb \in Seq(Bytes) /\ cli[c].inn \in Seq(Bytes)
  BY DEF TypeOK, TellingInv, Reading, Replying, AdminConnection, Client
<1>2. ASSUME \A d \in Conns \ {c} : conn'[d] = conn[d] /\ cli'[d] = cli[d], Telling(c)'
      PROVE  TellingInv'
  <2>1. \A d \in Conns \ {c} : Telling(d)'
    BY <1>2 DEF TellingInv, Telling
  <2> QED BY <1>2, <2>1 DEF TellingInv
<1>3. CASE monitor_passive_accept(c)
  <2>1. \A d \in Conns \ {c} : conn'[d] = conn[d] /\ cli'[d] = cli[d]
    BY <1>1, <1>3 DEF monitor_passive_accept
  <2>2. /\ cli[c].st = "queued" /\ cli'[c].st = "connected" /\ conn'[c].st = "version"
        /\ cli'[c].inn = cli[c].inn /\ cli'[c].pieces = cli[c].pieces
    BY <1>1, <1>3 DEF monitor_passive_accept, new_admin_connection, Zeroed, Client
  <2>3. Telling(c)'
    BY <1>1, <2>2 DEF Telling, Reading, Replying
  <2> QED BY <1>2, <2>1, <2>3
<1>4. CASE AcceptFails(c)
  <2>1. \A d \in Conns \ {c} : conn'[d] = conn[d] /\ cli'[d] = cli[d]
    BY <1>1, <1>4 DEF AcceptFails
  <2>2. /\ cli[c].st = "queued" /\ cli'[c].st = "connected" /\ conn'[c] = conn[c]
        /\ cli'[c].inn = cli[c].inn /\ cli'[c].pieces = cli[c].pieces
    BY <1>1, <1>4 DEF AcceptFails, Client
  <2>3. Telling(c)'
    BY <1>1, <2>2 DEF Telling, Reading, Replying
  <2> QED BY <1>2, <2>1, <2>3
<1>5. ASSUME monitor_end(c)
      PROVE  /\ conn'[c].st = "closed" /\ conn'[c].status = conn[c].status
             /\ \A d \in Conns \ {c} : conn'[d] = conn[d]
  BY <1>1, <1>5 DEF monitor_end, Zeroed
<1>6. CASE ReadFails(c)
  <2>1. cli'[c].st = "gone" /\ cli' = cli /\ monitor_end(c)
    BY <1>1, <1>6 DEF ReadFails
  <2>2. Telling(c)'
    BY <1>5, <2>1 DEF Telling
  <2> QED BY <1>2, <1>5, <2>1, <2>2
<1>7. CASE monitor_write(c) /\ cli[c].st = "gone"
  <2>1. cli'[c].st = "gone" /\ \A d \in Conns \ {c} : cli'[d] = cli[d]
    BY <1>1, <1>7 DEF monitor_write, Client
  <2>2. \A d \in Conns \ {c} : conn'[d] = conn[d]
    BY <1>1, <1>5, <1>7 DEF monitor_write
  <2>3. Telling(c)'
    BY <2>1 DEF Telling
  <2> QED BY <1>2, <2>1, <2>2, <2>3
<1>8. CASE monitor_write(c) /\ cli[c].st # "gone"
  <2>1. conn[c].st \in Replying /\ cli[c].st = "connected"
    BY <1>1, <1>8 DEF monitor_write, Telling
  <2>2. PICK k \in 1..Len(conn[c].wb) :
          /\ cli' = [cli EXCEPT ![c].inn =
                        IF cli[c].st = "gone" THEN @ ELSE @ \o SubSeq(conn[c].wb, 1, k)]
          /\ IF k = Len(conn[c].wb)
             THEN monitor_end(c)
             ELSE /\ conn' = [conn EXCEPT ![c].wb = SubSeq(@, k + 1, Len(@))]
                  /\ UNCHANGED <<pools, disturbed>>
    BY <1>8 DEF monitor_write
  <2> DEFINE p == SubSeq(conn[c].wb, 1, k)
             q == cli[c].inn \o p
  <2>3. p \in Seq(Bytes) /\ p # <<>> /\ Head(p) = conn[c].wb[1]
    BY <1>1
  <2> HIDE DEF p
  <2>4. /\ q # <<>>
        /\ cli[c].inn # <<>> => Head(q) = Head(cli[c].inn)
        /\ cli[c].inn = <<>> => Head(q) = conn[c].wb[1]
    BY <1>1, <2>3
  <2>5. cli' = [cli EXCEPT ![c].inn = q]
    BY <2>1, <2>2 DEF p
  <2> HIDE DEF q
  <2>6. /\ cli'[c].st = "connected" /\ cli'[c].inn = q /\ cli'[c].pieces = cli[c].pieces
        /\ cli'[c].buf = cli[c].buf /\ \A d \in Conns \ {c} : cli'[d] = cli[d]
    BY <1>1, <2>1, <2>5 DEF Client
  <2>7. /\ conn'[c].st \in {"closed", conn[c].st} /\ conn'[c].status = conn[c].status
        /\ \A d \in Conns \ {c} : conn'[d] = conn[d]
    <3>1. CASE k = Len(conn[c].wb)
      BY <1>5, <2>2, <3>1
    <3>2. CASE k # Len(conn[c].wb)
      BY <1>1, <2>2, <3>2 DEF AdminConnection
    <3> QED BY <3>1, <3>2
  <2>8. Reply(conn[c].status)[1] = conn[c].status
    BY DEF Reply
  <2>9. Telling(c)'
    BY <1>1, <2>1, <2>4, <2>6, <2>7, <2>8 DEF Telling, Reading, Replying
  <2> QED BY <1>2, <2>6, <2>7, <2>9
<1> QED BY <1>3, <1>4, <1>6, <1>7, <1>8

\* Every step keeps what is under way to a client equal to what the server decided.
LEMMA TellingStep == TypeOK /\ InBounds /\ TellingInv /\ [Next]_vars => TellingInv'
<1> SUFFICES ASSUME TypeOK, InBounds, TellingInv, [Next]_vars PROVE TellingInv'
  OBVIOUS
<1>1. CASE UNCHANGED <<conn, cli>>
  BY <1>1 DEF TellingInv, Telling
<1>2. CASE validate_user \/ Done \/ UNCHANGED vars
  BY <1>1, <1>2 DEF validate_user, Done, vars
<1>3. ASSUME NEW c \in Conns, Send(c) \/ ClientStep(c) \/ ServerStep(c) \/ Interrupt(c)
      PROVE  TellingInv'
  BY <1>3, TellingFeed, TellingClient, TellingConnection DEF ServerStep
<1> QED BY <1>2, <1>3 DEF Next
=============================================================================
