------------------------- MODULE MonitorParse_proofs -------------------------
(***************************************************************************)
(* Proofs that the requests of Monitor are carried out as they were made,  *)
(* however the bytes of the connections are mixed.  The invariant says, of *)
(* each connection, which bytes of its request it has taken and where each *)
(* of them is: at its place in the struct, in the variable the connections *)
(* share, or in the socket.                                                *)
(***************************************************************************)
EXTENDS Monitor_proofs

-----------------------------------------------------------------------------
(* How far the parser is in a request. *)

\* The bytes it has taken.
Fed(x) ==
    CASE x.st = "version" -> 0
      [] x.st = "token"   -> 1 + Len(x.token)
      [] x.st = "method"  -> 1 + TOKEN_SIZE
      [] x.st = "target"  -> 2 + TOKEN_SIZE
      [] x.st = "dlen"    -> 3 + TOKEN_SIZE + x.read
      [] OTHER            -> 5 + TOKEN_SIZE + x.read

\* `out' is the rest of request r.
Rest(x, r, out) ==
    LET w == serialize_request(r)
    IN  /\ Len(out) = Len(w) - Fed(x)
        /\ \A i \in 1..Len(out) : out[i] = w[Fed(x) + i]

\* The fields before data are those of the request.
Header(x, r) ==
    /\ x.st # "version" => r.ver = 1
    /\ \A i \in 1..Len(x.token) : x.token[i] = r.token[i]
    /\ x.st = "version" => x.token = <<>>
    /\ x.st = "token" => Len(x.token) < TOKEN_SIZE
    /\ x.st \in {"method", "target", "dlen", "data"} => Len(x.token) = TOKEN_SIZE
    /\ x.st \in {"target", "dlen", "data"} => x.type = r.type /\ r.type \in {get, config}
    /\ x.st \in {"dlen", "data"} =>
            r.type = config /\ x.target = r.target /\ r.target \in ConfigTargets
    /\ x.st = "dlen" => x.read \in {0, 1}
    /\ x.st # "data" => ~x.finish_user /\ \A k \in StructIndex : x.data[k] = 0
    /\ x.st = "data" => x.len = Len(Data(r)) /\ x.read <= x.len

\* Before a separator, data holds the bytes as they came.
Plain(x, r) ==
    /\ ~x.finish_user
    /\ \A k \in StructIndex : x.data[k] = IF k < x.read THEN Data(r)[k + 1] ELSE 0
    /\ \A i \in 1..x.read : Accepts(r.target, Data(r)[i])

\* A separator inside the name: the one after the name will be refused.
Doomed(x, r) ==
    /\ x.finish_user /\ Adds(r)
    /\ x.read >= 1 /\ x.read <= Len(r.name) /\ \E i \in 1..Len(r.name) : r.name[i] = 0

\* After the separator of the name.
InSecret(x, r) ==
    /\ x.finish_user /\ Adds(r)
    /\ x.read > Len(r.name) /\ AllIn(r.name, Letters)
    /\ \A i \in 1..x.read - Len(r.name) - 1 : r.secret[i] \in Letters

\* Where the name and the secret are, when username_len is the length of this name.
Placed(x, r) ==
    LET n == Len(r.name)
    IN  \A k \in StructIndex :
            x.data[k] = IF k < n THEN r.name[k + 1]
                        ELSE IF MAX_NAME <= k /\ k < MAX_NAME + (x.read - n - 1)
                        THEN r.secret[k - MAX_NAME + 1] ELSE 0

Progress(x, r, out) ==
    /\ Rest(x, r, out) /\ Header(x, r)
    /\ x.st = "data" => Plain(x, r) \/ Doomed(x, r) \/ InSecret(x, r)

\* The server answers as the request is.
Outcome(x, r, undisturbed) ==
    /\ x.st = "finish" <=> WellFormed(r)
    /\ x.st = "finish" =>
            x.token = r.token /\ x.type = r.type /\ x.target = r.target /\ ~x.finish_user
    /\ x.st = "finish" /\ undisturbed /\ ShortName(r) => Understood(x) = Means(r)

\* username_len belongs to the connections that are in a secret and were not disturbed.
Own(x, r, len) ==
    InSecret(x, r) => /\ len = Len(r.name) + 1
                      /\ Len(r.name) < MAX_NAME => Placed(x, r)

\* What connection c has read is a part of what its client sent, or it was answered.
Local(c) ==
    /\ cli[c].st = "queued" \/ conn[c].st # "closed" =>
            cli[c].req \in Asks[c] /\ parse_args(cli[c].req)
    /\ cli[c].st = "queued" =>
            conn[c].st = "closed" /\ cli[c].out = serialize_request(cli[c].req)
    /\ conn[c].st # "closed" => cli[c].st \in {"connected", "gone"}
    /\ conn[c].st \in Reading => Progress(conn[c], cli[c].req, cli[c].out)
    /\ conn[c].st = "data" /\ c \notin disturbed => Own(conn[c], cli[c].req, username_len)
    /\ conn[c].st \in Replying => Outcome(conn[c], cli[c].req, c \notin disturbed)

\* The high byte of every length is 0, so what combinedlen holds for one connection is what
\* it holds for all.  What username_len holds for one may be another's, but no name is longer
\* than MAX_NAME.
ParseInv ==
    /\ combinedlen = 0 /\ username_len <= MAX_NAME + 1
    /\ \A c \in Conns : Local(c)

-----------------------------------------------------------------------------
(* One byte more. *)

\* The states of the parser that read, those that reply and the closed one are disjoint.
LEMMA Kinds ==
    /\ Reading \cap Replying = {} /\ "closed" \notin Reading \cup Replying
    /\ {"version", "token", "method", "target", "dlen", "data"} = Reading
    /\ "finish" \in Replying /\ "error" \in Replying
BY DEF Reading, Replying

\* The number of bytes of a request that were read is a natural number.
LEMMA FedIsNat == ASSUME NEW x \in AdminConnection PROVE Fed(x) \in Nat
<1>1. TOKEN_SIZE \in Nat /\ Len(x.token) \in Nat /\ x.read \in Nat
  BY Sizes DEF AdminConnection
<1> QED BY <1>1, SMTT(30) DEF Fed

\* The next byte is the one of the request at that place, and the others follow.
LEMMA NextByteIs ==
    ASSUME NEW r \in Request, parse_args(r), NEW x \in AdminConnection,
           NEW out \in Seq(Bytes), out # <<>>, Rest(x, r, out)
    PROVE  /\ Head(out) = serialize_request(r)[Fed(x) + 1]
           /\ Fed(x) < Len(serialize_request(r)) /\ Fed(x) \in Nat
           /\ \A y : Fed(y) = Fed(x) + 1 => Rest(y, r, Tail(out))
<1> DEFINE w == serialize_request(r)
<1>1. w \in Seq(Bytes) /\ Len(w) \in Nat /\ Fed(x) \in Nat
  BY WireIs, FedIsNat
<1>2. Len(out) = Len(w) - Fed(x) /\ \A i \in 1..Len(out) : out[i] = w[Fed(x) + i]
  BY DEF Rest
<1> HIDE DEF w
<1>3. /\ Len(out) \in Nat /\ Len(out) >= 1 /\ Head(out) = out[1]
      /\ Tail(out) \in Seq(Bytes) /\ Len(Tail(out)) = Len(out) - 1
      /\ \A i \in 1..Len(Tail(out)) : Tail(out)[i] = out[i + 1]
  BY HeadTailProperties
<1>4. Head(out) = w[Fed(x) + 1] /\ Fed(x) < Len(w)
  BY <1>1, <1>2, <1>3
<1>5. ASSUME NEW y, Fed(y) = Fed(x) + 1 PROVE Rest(y, r, Tail(out))
  <2>1. Len(Tail(out)) = Len(w) - Fed(y)
    BY <1>1, <1>2, <1>3, <1>5
  <2>2. ASSUME NEW i \in 1..Len(Tail(out)) PROVE Tail(out)[i] = w[Fed(y) + i]
    <3>1. i + 1 \in 1..Len(out) /\ Fed(x) + (i + 1) = Fed(y) + i
      BY <1>1, <1>3, <1>5
    <3>2. Tail(out)[i] = out[i + 1]
      BY <1>3
    <3>3. out[i + 1] = w[Fed(x) + (i + 1)]
      BY <1>2, <3>1
    <3> QED BY <3>1, <3>2, <3>3
  <2> QED BY <2>1, <2>2 DEF Rest, w
<1> QED BY <1>1, <1>4, <1>5 DEF w

\* The steps of one connection are seen by the others in disturbed and username_len only.
LEMMA LocalOthers ==
    ASSUME ParseInv, NEW c \in Conns, combinedlen' = 0, username_len' <= MAX_NAME + 1, Local(c)',
           \A d \in Conns \ {c} : conn'[d] = conn[d] /\ cli'[d] = cli[d],
           \A d \in Conns \ {c} : d \notin disturbed' =>
                d \notin disturbed /\ (conn[d].finish_user => username_len' = username_len)
    PROVE  ParseInv'
<1>1. ASSUME NEW d \in Conns \ {c} PROVE Local(d)'
  <2>1. Local(d) /\ conn'[d] = conn[d] /\ cli'[d] = cli[d]
    BY DEF ParseInv
  <2>2. ASSUME d \notin disturbed', Own(conn[d], cli[d].req, username_len)
        PROVE  Own(conn[d], cli[d].req, username_len)'
    BY <2>1, <2>2 DEF Own, InSecret
  <2>3. ASSUME Outcome(conn[d], cli[d].req, d \notin disturbed)
        PROVE  Outcome(conn[d], cli[d].req, d \notin disturbed)'
    BY <2>1, <2>3 DEF Outcome
  <2>4. d \notin disturbed' => d \notin disturbed
    OBVIOUS
  <2> QED BY <2>1, <2>2, <2>3, <2>4 DEF Local
<1> QED BY <1>1 DEF ParseInv

\* The parser goes on with y.
LEMMA LocalParsed ==
    ASSUME TypeOK, NEW c \in Conns, conn[c].st \in Reading, Local(c), NEW y \in AdminConnection,
           Parsed(c, y), Progress(y, cli[c].req, Tail(cli[c].out)), y.st \in Reading,
           y.st = "data" /\ c \notin disturbed' => Own(y, cli[c].req, username_len')
    PROVE  /\ Local(c)'
           /\ \A d \in Conns \ {c} : conn'[d] = conn[d] /\ cli'[d] = cli[d]
<1>1. conn \in [Conns -> AdminConnection] /\ cli \in [Conns -> Client]
  BY DEF TypeOK
<1>2. conn' = [conn EXCEPT ![c] = y] /\ cli' = [cli EXCEPT ![c].out = Tail(@)]
  BY DEF Parsed
<1>3. /\ conn'[c] = y /\ cli'[c].out = Tail(cli[c].out)
      /\ cli'[c].st = cli[c].st /\ cli'[c].req = cli[c].req
  BY <1>1, <1>2 DEF Client
<1>4. /\ cli[c].st \in {"connected", "gone"} /\ cli[c].req \in Asks[c] /\ parse_args(cli[c].req)
      /\ y.st \notin Replying
  BY Kinds DEF Local
<1>5. Own(y, cli[c].req, username_len') => Own(conn[c], cli[c].req, username_len)'
  BY <1>3 DEF Own, InSecret, Placed
<1>6. Progress(conn[c], cli[c].req, cli[c].out)'
  BY <1>3
<1>7. Local(c)'
  BY <1>3, <1>4, <1>5, <1>6 DEF Local
<1> QED BY <1>1, <1>2, <1>7

\* The parser ends with x, and answers.
LEMMA LocalAnswer ==
    ASSUME TypeOK, NEW c \in Conns, conn[c].st \in Reading, Local(c), NEW x \in AdminConnection,
           NEW st \in Replying, NEW status \in Statuses, Answer(c, x, st, status),
           st = "finish" <=> WellFormed(cli[c].req),
           st = "finish" => /\ x.token = cli[c].req.token /\ x.type = cli[c].req.type
                            /\ x.target = cli[c].req.target /\ ~x.finish_user,
           st = "finish" /\ c \notin disturbed' /\ ShortName(cli[c].req) =>
                Understood(x) = Means(cli[c].req)
    PROVE  /\ Local(c)'
           /\ \A d \in Conns \ {c} : conn'[d] = conn[d] /\ cli'[d] = cli[d]
<1> DEFINE y == [x EXCEPT !.st = st, !.status = status, !.wb = Reply(status)]
<1>1. conn \in [Conns -> AdminConnection] /\ cli \in [Conns -> Client]
  BY DEF TypeOK
<1>2. PICK out : cli' = [cli EXCEPT ![c].out = out]
  BY DEF Answer
<1>3. conn' = [conn EXCEPT ![c] = y]
  BY DEF Answer
<1>4. /\ y.st = st /\ y.token = x.token /\ y.type = x.type /\ y.target = x.target
      /\ y.data = x.data /\ y.finish_user = x.finish_user
  BY DEF AdminConnection
<1>5. Understood(y) = Understood(x)
  BY <1>4 DEF Understood, name, secret, Adds
<1> HIDE DEF y
<1>6. /\ conn'[c] = y /\ cli'[c].st = cli[c].st /\ cli'[c].req = cli[c].req
      /\ \A d \in Conns \ {c} : conn'[d] = conn[d] /\ cli'[d] = cli[d]
  BY <1>1, <1>2, <1>3 DEF Client
<1>7. /\ cli[c].st \in {"connected", "gone"} /\ cli[c].req \in Asks[c] /\ parse_args(cli[c].req)
      /\ y.st \notin Reading /\ y.st # "data"
  BY <1>4, Kinds DEF Local
<1>8. Outcome(y, cli[c].req, c \notin disturbed')
  BY <1>4, <1>5 DEF Outcome
<1>9. Outcome(conn[c], cli[c].req, c \notin disturbed)'
  BY <1>6, <1>8
<1>10. Local(c)'
  BY <1>6, <1>7, <1>9 DEF Local
<1> QED BY <1>6, <1>10

\* An action answers, or uses a freed node.
LEMMA ActionForm ==
    ASSUME NEW c \in Conns, NEW x, monitor_action(c, x)
    PROVE  FreedList \/ \E status \in Statuses : Answer(c, x, "finish", status)
<1>1. {success, invalid_data, invalid_auth} \subseteq Statuses
  BY DEF Statuses, success, invalid_data, invalid_auth
<1> QED
  BY <1>1 DEF monitor_action, Success, Refusal, add_new_admin, RemoveAdmin, register_user,
              unregister_user

\* A request that is well formed is carried out with the fields of x.
LEMMA LocalAction ==
    ASSUME TypeOK, NEW c \in Conns, conn[c].st \in Reading, Local(c), NEW x \in AdminConnection,
           monitor_action(c, x), WellFormed(cli[c].req), x.token = cli[c].req.token,
           x.type = cli[c].req.type, x.target = cli[c].req.target, ~x.finish_user,
           c \notin disturbed' /\ ShortName(cli[c].req) => Understood(x) = Means(cli[c].req),
           c \notin disturbed' => c \notin disturbed,
           conn[c].finish_user => username_len' = username_len
    PROVE  /\ Local(c)'
           /\ \A d \in Conns \ {c} : conn'[d] = conn[d] /\ cli'[d] = cli[d]
<1>1. CASE FreedList
  <2>1. conn' = conn /\ cli' = cli
    BY <1>1 DEF FreedList
  <2>2. Own(conn[c], cli[c].req, username_len) => Own(conn[c], cli[c].req, username_len)'
    BY <2>1 DEF Own, InSecret
  <2>3. conn[c].st \notin Replying
    BY Kinds
  <2>4. Local(c)'
    BY <2>1, <2>2, <2>3 DEF Local
  <2> QED BY <2>1, <2>4
<1>2. ASSUME NEW status \in Statuses, Answer(c, x, "finish", status)
      PROVE  Local(c)' /\ \A d \in Conns \ {c} : conn'[d] = conn[d] /\ cli'[d] = cli[d]
  BY <1>2, LocalAnswer, Kinds
<1> QED BY <1>1, <1>2, ActionForm

\* A request that is not well formed is refused by the parser.
LEMMA LocalError ==
    ASSUME TypeOK, NEW c \in Conns, conn[c].st \in Reading, Local(c), NEW x \in AdminConnection,
           NEW status \in Statuses, Error(c, x, status), ~WellFormed(cli[c].req)
    PROVE  /\ Local(c)'
           /\ \A d \in Conns \ {c} : conn'[d] = conn[d] /\ cli'[d] = cli[d]
<1>1. Answer(c, x, "error", status) /\ "error" \in Replying /\ "error" # "finish"
  BY Kinds DEF Error
<1> QED BY <1>1, LocalAnswer

-----------------------------------------------------------------------------
(* The states before data. *)

\* What a state of the parser can count on.
LEMMA Fed_facts ==
    ASSUME TypeOK, ParseInv, NEW c \in Conns, conn[c].st \in Reading, cli[c].out # <<>>
    PROVE  /\ conn[c] \in AdminConnection /\ cli[c].req \in Request /\ parse_args(cli[c].req)
           /\ Local(c) /\ Progress(conn[c], cli[c].req, cli[c].out)
           /\ Next_byte(c) \in Bytes
           /\ Next_byte(c) = serialize_request(cli[c].req)[Fed(conn[c]) + 1]
           /\ Fed(conn[c]) < Len(serialize_request(cli[c].req)) /\ Fed(conn[c]) \in Nat
           /\ \A y : Fed(y) = Fed(conn[c]) + 1 => Rest(y, cli[c].req, Tail(cli[c].out))
<1>1. conn[c] \in AdminConnection /\ cli[c] \in Client /\ Local(c)
  BY DEF TypeOK, ParseInv
<1>2. cli[c].req \in Request /\ cli[c].out \in Seq(Bytes)
  BY <1>1 DEF Client
<1>3. parse_args(cli[c].req) /\ Progress(conn[c], cli[c].req, cli[c].out)
  BY <1>1, Kinds DEF Local
<1>4. Rest(conn[c], cli[c].req, cli[c].out)
  BY <1>3 DEF Progress
<1>5. Next_byte(c) = Head(cli[c].out) /\ Head(cli[c].out) \in Bytes
  BY <1>2 DEF Next_byte
<1> QED BY <1>1, <1>2, <1>3, <1>4, <1>5, NextByteIs

\* combinedlen, username_len and disturbed as they were, and the others not moved.
LEMMA Undisturbed ==
    ASSUME ParseInv, NEW c \in Conns, UNCHANGED <<statics, disturbed>>, Local(c)',
           \A d \in Conns \ {c} : conn'[d] = conn[d] /\ cli'[d] = cli[d]
    PROVE  ParseInv'
<1>1. /\ combinedlen' = 0 /\ username_len' = username_len /\ disturbed' = disturbed
      /\ username_len' <= MAX_NAME + 1
  BY DEF ParseInv, statics
<1> QED BY <1>1, LocalOthers

\* parse_version keeps the invariant of the parser.
LEMMA ParseVersion ==
    ASSUME TypeOK, ParseInv, NEW c \in Conns, parse_version(c)
    PROVE  ParseInv'
<1> DEFINE x == conn[c]
           r == cli[c].req
           b == Next_byte(c)
           y == [x EXCEPT !.st = "token"]
<1>1. x.st = "version" /\ x.st \in Reading /\ cli[c].out # <<>>
  BY Kinds DEF parse_version, Feed
<1>2. /\ x \in AdminConnection /\ r \in Request /\ parse_args(r) /\ Local(c)
      /\ Header(x, r) /\ b = serialize_request(r)[Fed(x) + 1]
      /\ \A z : Fed(z) = Fed(x) + 1 => Rest(z, r, Tail(cli[c].out))
  BY <1>1, Fed_facts DEF Progress
<1>3. Fed(x) = 0 /\ b = r.ver
  <2>1. Fed(x) = 0
    BY <1>1 DEF Fed
  <2> QED BY <1>2, <2>1, WireIs
<1>4. x.token = <<>> /\ ~x.finish_user /\ \A k \in StructIndex : x.data[k] = 0
  BY <1>1, <1>2 DEF Header
<1>5. CASE b = 1
  <2>1. /\ y \in AdminConnection /\ y.st = "token" /\ y.token = x.token /\ y.data = x.data
        /\ y.finish_user = x.finish_user
    BY <1>2 DEF AdminConnection, Reading
  <2>2. Parsed(c, y) /\ UNCHANGED <<statics, disturbed>>
    BY <1>5 DEF parse_version
  <2> HIDE DEF y
  <2>3. Fed(y) = Fed(x) + 1 /\ Len(y.token) = 0
    BY <1>3, <1>4, <2>1 DEF Fed
  <2>4. Header(y, r)
    <3>1. Len(y.token) < TOKEN_SIZE
      BY <2>3, Sizes
    <3>2. \A k \in StructIndex : y.data[k] = 0
      BY <1>4, <2>1
    <3>3. \A i \in 1..Len(y.token) : y.token[i] = r.token[i]
      BY <2>3
    <3> QED BY <1>3, <1>4, <1>5, <2>1, <3>1, <3>2, <3>3 DEF Header
  <2>5. Progress(y, r, Tail(cli[c].out))
    BY <1>2, <2>1, <2>3, <2>4 DEF Progress
  <2>6. y.st \in Reading
    BY <2>1, Kinds
  <2> QED BY <1>1, <1>2, <2>1, <2>2, <2>5, <2>6, LocalParsed, Undisturbed
<1>6. CASE b # 1
  <2>1. Error(c, x, unsuported_ver)
    BY <1>6 DEF parse_version
  <2>2. ~WellFormed(r)
    BY <1>3, <1>6 DEF WellFormed
  <2>3. unsuported_ver \in Statuses
    BY DEF unsuported_ver, Statuses
  <2> QED BY <1>1, <1>2, <2>1, <2>2, <2>3, LocalError, Undisturbed DEF Error
<1> QED BY <1>5, <1>6

\* parse_token keeps it.
LEMMA ParseToken ==
    ASSUME TypeOK, ParseInv, NEW c \in Conns, parse_token(c)
    PROVE  ParseInv'
<1> DEFINE x == conn[c]
           r == cli[c].req
           b == Next_byte(c)
           n == Len(x.token)
           y == [x EXCEPT !.token = Append(@, b),
                          !.st = IF n + 1 = TOKEN_SIZE THEN "method" ELSE "token"]
<1>1. x.st = "token" /\ x.st \in Reading /\ cli[c].out # <<>>
  BY Kinds DEF parse_token, Feed
<1>2. /\ x \in AdminConnection /\ r \in Request /\ parse_args(r) /\ Local(c)
      /\ Header(x, r) /\ b = serialize_request(r)[Fed(x) + 1] /\ b \in Bytes
      /\ \A z : Fed(z) = Fed(x) + 1 => Rest(z, r, Tail(cli[c].out))
  BY <1>1, Fed_facts DEF Progress
<1>3. /\ n \in Nat /\ n < TOKEN_SIZE /\ r.ver = 1 /\ ~x.finish_user
      /\ x.token \in Seq(Bytes) /\ TOKEN_SIZE \in Nat
      /\ \A i \in 1..n : x.token[i] = r.token[i]
      /\ \A k \in StructIndex : x.data[k] = 0
  <2> HIDE DEF x
  <2>1. n \in Nat /\ x.token \in Seq(Bytes) /\ TOKEN_SIZE \in Nat
    BY <1>2, Sizes DEF AdminConnection
  <2>2. /\ n < TOKEN_SIZE /\ r.ver = 1 /\ \A i \in 1..n : x.token[i] = r.token[i]
    BY <1>1, <1>2 DEF Header
  <2>3. ~x.finish_user /\ \A k \in StructIndex : x.data[k] = 0
    BY <1>1, <1>2, Zenon DEF Header
  <2> QED BY <2>1, <2>2, <2>3
<1>4. Fed(x) = 1 + n /\ b = r.token[n + 1]
  <2>1. Fed(x) = 1 + n
    BY <1>1 DEF Fed
  <2>2. n + 1 \in 1..TOKEN_SIZE /\ (1 + n) + 1 = 1 + (n + 1)
    BY <1>3
  <2>3. serialize_request(r)[1 + (n + 1)] = r.token[n + 1]
    BY <1>2, <2>2, WireIs
  <2>4. Fed(x) + 1 = 1 + (n + 1)
    BY <2>1, <2>2
  <2> QED BY <1>2, <2>1, <2>3, <2>4
<1>5. /\ Append(x.token, b) \in Seq(Bytes) /\ Len(Append(x.token, b)) = n + 1
      /\ \A i \in 1..n + 1 : Append(x.token, b)[i] = r.token[i]
  BY <1>2, <1>3, <1>4
<1>6. /\ y \in AdminConnection /\ y.token = Append(x.token, b) /\ y.data = x.data
      /\ y.finish_user = x.finish_user
      /\ y.st = IF n + 1 = TOKEN_SIZE THEN "method" ELSE "token"
  BY <1>2, <1>5 DEF AdminConnection, Reading
<1>7. Parsed(c, y) /\ UNCHANGED <<statics, disturbed>>
  BY DEF parse_token
<1> HIDE DEF y
<1>8. Fed(y) = Fed(x) + 1
  BY <1>3, <1>4, <1>5, <1>6 DEF Fed
<1>9. Header(y, r)
  BY <1>3, <1>5, <1>6 DEF Header
<1>10. Progress(y, r, Tail(cli[c].out)) /\ y.st \in Reading /\ y.st # "data"
  BY <1>2, <1>6, <1>8, <1>9, Kinds DEF Progress
<1> QED BY <1>1, <1>2, <1>6, <1>7, <1>10, LocalParsed, Undisturbed

\* The method and the target keep it.
LEMMA ParseType ==
    ASSUME TypeOK, ParseInv, NEW c \in Conns, parse_type(c)
    PROVE  ParseInv'
<1> DEFINE x == conn[c]
           r == cli[c].req
           b == Next_byte(c)
           y == [x EXCEPT !.type = b, !.st = "target"]
<1>1. x.st = "method" /\ x.st \in Reading /\ cli[c].out # <<>>
  BY Kinds DEF parse_type, Feed
<1>2. /\ x \in AdminConnection /\ r \in Request /\ parse_args(r) /\ Local(c)
      /\ Header(x, r) /\ b = serialize_request(r)[Fed(x) + 1] /\ b \in Bytes
      /\ \A z : Fed(z) = Fed(x) + 1 => Rest(z, r, Tail(cli[c].out))
  BY <1>1, Fed_facts DEF Progress
<1>3. Fed(x) = 1 + TOKEN_SIZE /\ b = r.type
  <2>1. Fed(x) = 1 + TOKEN_SIZE /\ (1 + TOKEN_SIZE) + 1 = 2 + TOKEN_SIZE
    BY <1>1, Sizes DEF Fed
  <2> QED BY <1>2, <2>1, WireIs
<1>4. /\ r.ver = 1 /\ ~x.finish_user /\ Len(x.token) = TOKEN_SIZE
      /\ \A i \in 1..Len(x.token) : x.token[i] = r.token[i]
      /\ \A k \in StructIndex : x.data[k] = 0
  BY <1>1, <1>2 DEF Header
<1>5. /\ y \in AdminConnection /\ y.token = x.token /\ y.data = x.data
      /\ y.finish_user = x.finish_user /\ y.st = "target" /\ y.type = r.type
  BY <1>2, <1>3 DEF AdminConnection, Reading
<1>6. CASE b \in {get, config}
  <2>1. Parsed(c, y) /\ UNCHANGED <<statics, disturbed>>
    BY <1>6 DEF parse_type
  <2> HIDE DEF y
  <2>2. Fed(y) = Fed(x) + 1
    <3>1. Fed(y) = 2 + TOKEN_SIZE
      BY <1>5 DEF Fed
    <3>2. TOKEN_SIZE \in Nat
      BY Sizes
    <3> QED BY <1>3, <3>1, <3>2
  <2>3. Header(y, r)
    BY <1>3, <1>4, <1>5, <1>6 DEF Header
  <2>4. Progress(y, r, Tail(cli[c].out)) /\ y.st \in Reading /\ y.st # "data"
    BY <1>2, <1>5, <2>2, <2>3, Kinds DEF Progress
  <2> QED BY <1>1, <1>2, <1>5, <2>1, <2>4, LocalParsed, Undisturbed
<1>7. CASE b \notin {get, config}
  <2>1. Error(c, y, no_such_method)
    BY <1>7 DEF parse_type
  <2> HIDE DEF y
  <2>2. ~WellFormed(r)
    BY <1>3, <1>7 DEF WellFormed
  <2>3. no_such_method \in Statuses
    BY DEF no_such_method, Statuses
  <2> QED BY <1>1, <1>2, <1>5, <2>1, <2>2, <2>3, LocalError, Undisturbed DEF Error
<1> QED BY <1>6, <1>7

\* The token of a request that has been read is the token it was made with.
LEMMA TokenIs ==
    ASSUME NEW x \in AdminConnection, NEW r \in Request, parse_args(r), Header(x, r),
           x.st \in {"method", "target", "dlen", "data"}
    PROVE  x.token = r.token
<1>1. x.token \in Seq(Bytes) /\ Len(x.token) = TOKEN_SIZE
      /\ \A i \in 1..Len(x.token) : x.token[i] = r.token[i]
  BY DEF Header, AdminConnection
<1>2. r.token \in Seq(Bytes) /\ Len(r.token) = TOKEN_SIZE
  BY DEF Request, String, parse_args
<1> QED BY <1>1, <1>2, SeqEqual

\* A GET ends here; its name is empty because the data of the struct is zero.
LEMMA ParserTarget ==
    ASSUME TypeOK, ParseInv, NEW c \in Conns, parser_target(c)
    PROVE  ParseInv'
<1> DEFINE x == conn[c]
           r == cli[c].req
           b == Next_byte(c)
           y == [x EXCEPT !.target = b]
           z == [y EXCEPT !.st = "dlen", !.read = 0, !.len = 2]
<1>1. x.st = "target" /\ x.st \in Reading /\ cli[c].out # <<>>
  BY Kinds DEF parser_target, Feed
<1>2. /\ x \in AdminConnection /\ r \in Request /\ parse_args(r) /\ Local(c)
      /\ Header(x, r) /\ b = serialize_request(r)[Fed(x) + 1] /\ b \in Bytes
      /\ \A v : Fed(v) = Fed(x) + 1 => Rest(v, r, Tail(cli[c].out))
  BY <1>1, Fed_facts DEF Progress
<1>3. Fed(x) = 2 + TOKEN_SIZE /\ b = r.target
  <2>1. Fed(x) = 2 + TOKEN_SIZE /\ (2 + TOKEN_SIZE) + 1 = 3 + TOKEN_SIZE
    BY <1>1, Sizes DEF Fed
  <2> QED BY <1>2, <2>1, WireIs
<1>4. /\ r.ver = 1 /\ ~x.finish_user /\ Len(x.token) = TOKEN_SIZE
      /\ x.type = r.type /\ r.type \in {get, config}
      /\ \A i \in 1..Len(x.token) : x.token[i] = r.token[i]
      /\ \A k \in StructIndex : x.data[k] = 0
  BY <1>1, <1>2 DEF Header
<1>5. /\ y \in AdminConnection /\ y.token = x.token /\ y.data = x.data /\ y.st = x.st
      /\ y.finish_user = x.finish_user /\ y.type = r.type /\ y.target = r.target
  BY <1>2, <1>3, <1>4 DEF AdminConnection
<1>6. CASE x.type = get /\ b \in DataTargets /\ monitor_action(c, y) /\ UNCHANGED <<statics, disturbed>>
  <2> HIDE DEF y
  <2>1. WellFormed(r) /\ ~Adds(r)
    BY <1>3, <1>4, <1>6 DEF WellFormed, Adds, get, config
  <2>2. y.token = r.token
    BY <1>1, <1>2, <1>5, TokenIs
  <2>3. name(y) = <<>>
    <3>1. y.data \in Memory
      BY <1>5 DEF AdminConnection
    <3>2. MAX_PATH \in Nat /\ 0 \in StructIndex
      BY Sizes
    <3>3. <<>> \in Seq(Bytes) /\ Len(<<>>) = 0 /\ 0 \in 0..MAX_PATH /\ 0 + Len(<<>>) = 0
      BY <3>2
    <3>4. 0 + Len(<<>>) <= MAX_PATH
      BY <3>2, <3>3
    <3>5. y.data[0 + Len(<<>>)] = 0
      BY <1>4, <1>5, <3>2, <3>3
    <3>6. \A j \in 1..Len(<<>>) : <<>>[j] # 0 /\ y.data[0 + j - 1] = <<>>[j]
      BY <3>3
    <3> QED BY <3>1, <3>3, <3>4, <3>5, <3>6, CStringIs DEF name
  <2>4. Understood(y) = Means(r)
    <3>1. ~Adds(y) /\ r.type = get
      BY <1>4, <1>5, <1>6, <2>1 DEF Adds
    <3> QED BY <1>5, <2>1, <2>2, <2>3, <3>1 DEF Understood, Means
  <2>5. UNCHANGED username_len /\ disturbed' = disturbed
    BY <1>6 DEF statics
  <2> QED BY <1>1, <1>2, <1>4, <1>5, <1>6, <2>1, <2>2, <2>4, <2>5, LocalAction, Undisturbed
<1>7. CASE /\ x.type = config /\ b \in ConfigTargets /\ Parsed(c, z)
           /\ UNCHANGED <<statics, disturbed>>
  <2>1. /\ z \in AdminConnection /\ z.token = x.token /\ z.data = x.data /\ z.st = "dlen"
        /\ z.finish_user = x.finish_user /\ z.type = r.type /\ z.target = r.target /\ z.read = 0
    BY <1>5 DEF AdminConnection, Reading
  <2> HIDE DEF z, y
  <2>2. Fed(z) = Fed(x) + 1
    <3>1. Fed(z) = 3 + TOKEN_SIZE + 0
      BY <2>1 DEF Fed
    <3>2. TOKEN_SIZE \in Nat
      BY Sizes
    <3> QED BY <1>3, <3>1, <3>2
  <2>3. Header(z, r)
    BY <1>3, <1>4, <1>7, <2>1 DEF Header
  <2>4. Progress(z, r, Tail(cli[c].out)) /\ z.st \in Reading /\ z.st # "data"
    BY <1>2, <2>1, <2>2, <2>3, Kinds DEF Progress
  <2> QED BY <1>1, <1>2, <1>7, <2>1, <2>4, LocalParsed, Undisturbed
<1>8. CASE /\ b \notin (IF x.type = get THEN DataTargets ELSE ConfigTargets)
           /\ Error(c, x, no_such_target)
  <2>1. ~WellFormed(r)
    BY <1>3, <1>4, <1>8 DEF WellFormed, get, config
  <2>2. no_such_target \in Statuses
    BY DEF no_such_target, Statuses
  <2> QED BY <1>1, <1>2, <1>8, <2>1, <2>2, LocalError, Undisturbed DEF Error
<1> QED BY <1>6, <1>7, <1>8 DEF parser_target

\* The two bytes of dlen keep it.
LEMMA ParseDlen ==
    ASSUME TypeOK, ParseInv, NEW c \in Conns, parse_dlen(c)
    PROVE  ParseInv'
<1> DEFINE x == conn[c]
           r == cli[c].req
           b == Next_byte(c)
           y == [x EXCEPT !.read = 1]
           z == [x EXCEPT !.st = "data", !.read = 0, !.len = BYTE * combinedlen + b]
<1>1. x.st = "dlen" /\ x.st \in Reading /\ cli[c].out # <<>>
  BY Kinds DEF parse_dlen, Feed
<1>2. /\ x \in AdminConnection /\ r \in Request /\ parse_args(r) /\ Local(c)
      /\ Header(x, r) /\ b = serialize_request(r)[Fed(x) + 1] /\ b \in Bytes
      /\ \A v : Fed(v) = Fed(x) + 1 => Rest(v, r, Tail(cli[c].out))
  BY <1>1, Fed_facts DEF Progress
<1>3. Fed(x) = 3 + TOKEN_SIZE + x.read /\ TOKEN_SIZE \in Nat
  BY <1>1, Sizes DEF Fed
<1>4. /\ r.ver = 1 /\ ~x.finish_user /\ Len(x.token) = TOKEN_SIZE
      /\ x.type = r.type /\ r.type = config /\ x.target = r.target /\ r.target \in ConfigTargets
      /\ \A i \in 1..Len(x.token) : x.token[i] = r.token[i]
      /\ \A k \in StructIndex : x.data[k] = 0
  BY <1>1, <1>2 DEF Header
<1>5. CASE /\ x.read = 0 /\ combinedlen' = b /\ Parsed(c, y)
           /\ UNCHANGED <<username_len, disturbed>>
  <2>1. b = 0
    <3>1. Fed(x) + 1 = 4 + TOKEN_SIZE
      BY <1>3, <1>5
    <3> QED BY <1>2, <3>1, WireIs
  <2>2. /\ y \in AdminConnection /\ y.token = x.token /\ y.data = x.data /\ y.st = "dlen"
        /\ y.finish_user = x.finish_user /\ y.type = x.type /\ y.target = x.target /\ y.read = 1
    BY <1>1, <1>2 DEF AdminConnection
  <2> HIDE DEF y
  <2>3. Fed(y) = Fed(x) + 1
    <3>1. Fed(y) = 3 + TOKEN_SIZE + 1
      BY <2>2 DEF Fed
    <3> QED BY <1>3, <1>5, <3>1
  <2>4. Header(y, r)
    BY <1>4, <2>2 DEF Header
  <2>5. Progress(y, r, Tail(cli[c].out)) /\ y.st \in Reading /\ y.st # "data"
    BY <1>2, <2>2, <2>3, <2>4, Kinds DEF Progress
  <2>6. Local(c)' /\ \A d \in Conns \ {c} : conn'[d] = conn[d] /\ cli'[d] = cli[d]
    BY <1>1, <1>2, <1>5, <2>2, <2>5, LocalParsed
  <2> QED BY <1>5, <2>1, <2>6, LocalOthers DEF ParseInv
<1>6. CASE x.read = 1 /\ Parsed(c, z) /\ UNCHANGED <<combinedlen, username_len, disturbed>>
  <2>1. b = Len(Data(r)) /\ b \in Nat
    <3>1. Fed(x) + 1 = 5 + TOKEN_SIZE
      BY <1>3, <1>6
    <3> QED BY <1>2, <3>1, WireIs, DataIs
  <2>2. BYTE * combinedlen + b = b
    <3>1. BYTE \in Nat /\ combinedlen = 0 /\ b \in Nat
      BY <2>1, Sizes DEF ParseInv
    <3> HIDE DEF b
    <3>2. BYTE * 0 = 0
      BY <3>1
    <3> QED BY <3>1, <3>2
  <2>3. /\ z \in AdminConnection /\ z.token = x.token /\ z.data = x.data /\ z.st = "data"
        /\ z.finish_user = x.finish_user /\ z.type = x.type /\ z.target = x.target
        /\ z.read = 0 /\ z.len = Len(Data(r))
    BY <1>2, <2>1, <2>2 DEF AdminConnection, Reading
  <2> HIDE DEF z
  <2>4. Fed(z) = Fed(x) + 1
    <3>1. Fed(z) = 5 + TOKEN_SIZE + 0
      BY <2>3 DEF Fed
    <3> QED BY <1>3, <1>6, <3>1
  <2>5. Header(z, r)
    BY <1>4, <2>1, <2>3 DEF Header
  <2>6. Plain(z, r)
    <3>1. \A k \in StructIndex : ~(k < 0)
      BY DEF StructIndex
    <3> QED BY <1>4, <2>3, <3>1 DEF Plain
  <2>7. Progress(z, r, Tail(cli[c].out)) /\ z.st \in Reading
    BY <1>2, <2>3, <2>4, <2>5, <2>6, Kinds DEF Progress
  <2>8. Own(z, r, username_len')
    BY <1>4, <2>3 DEF Own, InSecret
  <2> QED BY <1>1, <1>2, <1>6, <2>3, <2>7, <2>8, LocalParsed, Undisturbed DEF statics
<1> QED BY <1>5, <1>6 DEF parse_dlen

-----------------------------------------------------------------------------
(* The data. *)

\* No byte of a name, a path or a size is 0, and an account is made of letters.
LEMMA AcceptsIs ==
    ASSUME NEW t, NEW b \in Bytes
    PROVE  /\ Accepts(t, b) => b # 0
           /\ t \in {add_admin, add_pop3} => (Accepts(t, b) <=> b \in Letters)
           /\ 0 \notin Letters
<1>1. Letters \subseteq Bytes \ {0} /\ Digits \subseteq Letters /\ Slash # 0
  BY ConstantsOK DEF ConstantsAssumption
<1> QED BY <1>1 DEF Accepts, config_maildir, config_buf_size, add_admin, add_pop3

\* Put changes one byte of the data and no other.
LEMMA PutIs ==
    ASSUME NEW f \in Memory, NEW k, NEW v \in Bytes
    PROVE  \A i \in StructIndex : Put(f, k, v)[i] = IF i = k THEN v ELSE f[i]
<1>1. DOMAIN f = StructIndex
  BY MemoryIs
<1> QED BY <1>1 DEF Put

\* The last place a byte may go to, and the last one for the 0 after the string.
LEMMA PutFits ==
    ASSUME NEW f \in Memory, NEW k \in Nat, NEW v \in Bytes,
           k < MAX_PATH \/ (k <= MAX_PATH /\ v = 0)
    PROVE  Put(f, k, v) \in Memory
<1>1. k \in StructIndex /\ (k \in DataIndex \/ v = 0)
  BY Sizes DEF DataIndex
<1> QED BY <1>1, PutType

\* The next byte of the data, and what is known before it is looked at.
LEMMA Data_facts ==
    ASSUME TypeOK, ParseInv, NEW c \in Conns, conn[c].st = "data", cli[c].out # <<>>
    PROVE  /\ conn[c].st \in Reading /\ conn[c].st = "data" /\ cli[c].out # <<>>
           /\ conn[c] \in AdminConnection /\ cli[c].req \in Request /\ parse_args(cli[c].req)
           /\ Local(c) /\ Header(conn[c], cli[c].req)
           /\ Plain(conn[c], cli[c].req) \/ Doomed(conn[c], cli[c].req)
                \/ InSecret(conn[c], cli[c].req)
           /\ conn[c].read \in Nat /\ conn[c].len = Len(Data(cli[c].req))
           /\ conn[c].read < Len(Data(cli[c].req))
           /\ Next_byte(c) \in Bytes /\ Next_byte(c) = Data(cli[c].req)[conn[c].read + 1]
           /\ \A y : y.st = "data" /\ y.read = conn[c].read + 1 =>
                Rest(y, cli[c].req, Tail(cli[c].out))
<1> DEFINE x == conn[c]
           r == cli[c].req
           n == Len(Data(r))
<1>1. x.st = "data" /\ x.st \in Reading /\ cli[c].out # <<>>
  BY Kinds
<1>2. /\ x \in AdminConnection /\ r \in Request /\ parse_args(r) /\ Local(c)
      /\ Header(x, r) /\ Next_byte(c) = serialize_request(r)[Fed(x) + 1] /\ Next_byte(c) \in Bytes
      /\ \A v : Fed(v) = Fed(x) + 1 => Rest(v, r, Tail(cli[c].out))
      /\ Plain(x, r) \/ Doomed(x, r) \/ InSecret(x, r)
      /\ Fed(x) < Len(serialize_request(r))
  BY <1>1, Fed_facts DEF Progress
<1>3. TOKEN_SIZE \in Nat /\ x.read \in Nat /\ n \in Nat /\ x.len = n
  BY <1>1, <1>2, Sizes, DataIs DEF AdminConnection, Header
<1>4. Fed(x) = 5 + TOKEN_SIZE + x.read
  BY <1>1 DEF Fed
<1>5. x.read < n
  <2>1. Len(serialize_request(r)) = 5 + TOKEN_SIZE + n
    BY <1>2, WireIs
  <2> HIDE DEF n
  <2> QED BY <1>2, <1>3, <1>4, <2>1
<1>6. Next_byte(c) = Data(r)[x.read + 1]
  <2>1. x.read + 1 \in 1..n /\ Fed(x) + 1 = 5 + TOKEN_SIZE + (x.read + 1)
    BY <1>3, <1>4, <1>5
  <2>2. serialize_request(r)[5 + TOKEN_SIZE + (x.read + 1)] = Data(r)[x.read + 1]
    BY <1>2, <2>1, WireIs
  <2> QED BY <1>2, <2>1, <2>2
<1>7. ASSUME NEW y, y.st = "data", y.read = x.read + 1 PROVE Rest(y, r, Tail(cli[c].out))
  <2>1. Fed(y) = 5 + TOKEN_SIZE + (x.read + 1)
    BY <1>7 DEF Fed
  <2>2. Fed(y) = Fed(x) + 1
    BY <1>3, <1>4, <2>1
  <2> QED BY <1>2, <2>2
<1> QED BY <1>1, <1>2, <1>3, <1>5, <1>6, <1>7

\* An accepted byte goes after the others.
LEMMA PlainPut ==
    ASSUME NEW x \in AdminConnection, NEW r \in Request, Plain(x, r), NEW b \in Bytes,
           b = Data(r)[x.read + 1], Accepts(r.target, b),
           NEW y \in AdminConnection, ~y.finish_user, y.read = x.read + 1,
           y.data = Put(x.data, x.read, b)
    PROVE  Plain(y, r)
<1>1. x.read \in Nat /\ x.data \in Memory
  BY DEF AdminConnection
<1>2. \A k \in StructIndex : y.data[k] = IF k = x.read THEN b ELSE x.data[k]
  BY <1>1, PutIs
<1>3. ASSUME NEW k \in StructIndex PROVE y.data[k] = IF k < y.read THEN Data(r)[k + 1] ELSE 0
  <2>1. k \in Nat
    BY DEF StructIndex
  <2>2. x.data[k] = IF k < x.read THEN Data(r)[k + 1] ELSE 0
    BY DEF Plain
  <2> QED BY <1>1, <1>2, <2>1, <2>2
<1>4. ASSUME NEW i \in 1..y.read PROVE Accepts(r.target, Data(r)[i])
  <2>1. i \in 1..x.read \/ i = x.read + 1
    BY <1>1
  <2> QED BY <2>1 DEF Plain
<1> QED BY <1>3, <1>4 DEF Plain

\* A request with one string that was read to its end is well formed, and was understood.
LEMMA TextIsRead ==
    ASSUME NEW r \in Request, parse_args(r), ~Adds(r), r.type = config,
           r.target \in ConfigTargets, r.ver = 1,
           NEW y \in AdminConnection, Plain(y, r), y.read = Len(Data(r)),
           NEW z \in AdminConnection, z.data = Put(y.data, y.read, 0),
           z.token = r.token, z.type = r.type, z.target = r.target
    PROVE  WellFormed(r) /\ Understood(z) = Means(r)
<1> DEFINE n == Len(r.name)
<1>1. Data(r) = r.name /\ n \in Nat /\ n <= MAX_PATH /\ r.name \in Seq(Bytes) /\ y.read = n
      /\ DOMAIN r.name = 1..n
  <2>1. Data(r) = r.name /\ Len(Data(r)) \in Nat /\ Len(Data(r)) <= MAX_PATH
    BY DataIs
  <2>2. r.name \in Seq(Bytes)
    BY DEF Request
  <2> QED BY <2>1, <2>2
<1>2. \A i \in 1..n : Accepts(r.target, r.name[i]) /\ r.name[i] \in Bytes
  BY <1>1 DEF Plain
<1>3. WellFormed(r)
  BY <1>1, <1>2 DEF WellFormed
<1>4. y.data \in Memory /\ z.data \in Memory /\ 0 \in 0..MAX_PATH
      /\ MAX_PATH \in Nat /\ 0 \in Bytes
  BY Sizes DEF AdminConnection
<1>5. \A k \in StructIndex : z.data[k] = IF k = n THEN 0 ELSE y.data[k]
  BY <1>1, <1>4, PutIs
<1>6. z.data[0 + n] = 0
  <2>1. n \in StructIndex /\ 0 + n = n
    BY <1>1, <1>4, Sizes
  <2> QED BY <1>5, <2>1
<1>7. ASSUME NEW j \in 1..n PROVE r.name[j] # 0 /\ z.data[0 + j - 1] = r.name[j]
  <2>1. j - 1 \in 0..MAX_PATH /\ j - 1 # n /\ j - 1 < n /\ 0 + j - 1 = j - 1 /\ (j - 1) + 1 = j
    BY <1>1, <1>4
  <2>3. j - 1 \in StructIndex
    BY <2>1, Sizes
  <2>2. y.data[j - 1] = r.name[j]
    BY <1>1, <2>1, <2>3 DEF Plain
  <2> QED BY <1>2, <1>5, <2>1, <2>2, <2>3, AcceptsIs
<1>8. name(z) = r.name
  <2>1. 0 + n <= MAX_PATH
    BY <1>1
  <2> QED BY <1>1, <1>4, <1>6, <1>7, <2>1, CStringIs DEF name
<1>9. ~Adds(z) /\ r.type # get
  BY DEF Adds, get, config
<1> QED BY <1>3, <1>8, <1>9 DEF Understood, Means

\* The data of a request with one text keeps it.
LEMMA ParseDataText ==
    ASSUME TypeOK, ParseInv, NEW c \in Conns, parse_data_text(c)
    PROVE  ParseInv'
<1> DEFINE x == conn[c]
           r == cli[c].req
           b == Next_byte(c)
           y == [x EXCEPT !.data = Put(@, x.read, b), !.read = @ + 1]
           z == [y EXCEPT !.data = Put(@, y.read, 0), !.finish_user = FALSE]
<1>1. /\ x.st \in Reading /\ x.st = "data" /\ cli[c].out # <<>>
      /\ x \in AdminConnection /\ r \in Request /\ parse_args(r) /\ Local(c) /\ Header(x, r)
      /\ Plain(x, r) \/ Doomed(x, r) \/ InSecret(x, r)
      /\ x.read \in Nat /\ x.len = Len(Data(r)) /\ x.read < Len(Data(r))
      /\ b \in Bytes /\ b = Data(r)[x.read + 1]
      /\ \A v : v.st = "data" /\ v.read = x.read + 1 => Rest(v, r, Tail(cli[c].out))
  BY Data_facts DEF parse_data_text, Feed
<1>2. /\ r.type = config /\ x.target = r.target /\ x.type = r.type /\ r.target \in ConfigTargets
      /\ x.token = r.token /\ r.ver = 1 /\ Len(x.token) = TOKEN_SIZE
      /\ \A i \in 1..Len(x.token) : x.token[i] = r.token[i]
  BY <1>1, TokenIs DEF Header
<1>3. ~Adds(r)
  BY <1>2 DEF parse_data_text, Adds
<1>4. Plain(x, r)
  BY <1>1, <1>3 DEF Doomed, InSecret
<1>5. /\ Len(Data(r)) \in Nat /\ Data(r) = r.name /\ DOMAIN r.name = 1..Len(Data(r)) /\ 0 \in Bytes
      /\ Len(Data(r)) <= MAX_PATH /\ MAX_PATH \in Nat
  <2>1. Data(r) = r.name /\ Len(Data(r)) \in Nat /\ 0 \in Bytes
        /\ Len(Data(r)) <= MAX_PATH /\ MAX_PATH \in Nat
    BY <1>1, <1>3, DataIs, Sizes
  <2>2. r.name \in Seq(Bytes)
    BY <1>1 DEF Request
  <2> QED BY <2>1, <2>2
<1>6. /\ y \in AdminConnection /\ y.data = Put(x.data, x.read, b) /\ y.read = x.read + 1
      /\ y.st = "data" /\ y.token = x.token /\ y.type = x.type /\ y.target = x.target
      /\ y.len = x.len /\ y.finish_user = x.finish_user
  <2>1. Put(x.data, x.read, b) \in Memory
    <3>1. x.data \in Memory /\ x.read < MAX_PATH
      BY <1>1, <1>5 DEF AdminConnection
    <3> HIDE DEF x, b
    <3> QED BY <1>1, <3>1, PutFits
  <2>2. x.read + 1 \in Nat /\ x \in AdminConnection /\ x.st = "data"
    BY <1>1
  <2> QED BY <2>1, <2>2 DEF AdminConnection
<1>7. UNCHANGED <<statics, disturbed>> /\ UNCHANGED username_len
  BY DEF parse_data_text, statics
<1>8. \/ Accepts(x.target, b) /\ y.read < x.len /\ Parsed(c, y)
      \/ Accepts(x.target, b) /\ y.read >= x.len /\ monitor_action(c, z)
      \/ ~Accepts(x.target, b) /\ Error(c, x, invalid_data)
  BY DEF parse_data_text, Complete
<1> HIDE DEF y
<1>9. ASSUME Accepts(x.target, b) PROVE Plain(y, r)
  BY <1>1, <1>2, <1>4, <1>6, <1>9, PlainPut DEF Plain
<1>10. CASE Accepts(x.target, b) /\ y.read < x.len /\ Parsed(c, y)
  <2>1. Header(y, r)
    BY <1>1, <1>2, <1>5, <1>6, <1>10 DEF Header
  <2>2. Progress(y, r, Tail(cli[c].out)) /\ y.st \in Reading
    BY <1>1, <1>6, <1>9, <1>10, <2>1 DEF Progress
  <2>3. Own(y, r, username_len')
    BY <1>9, <1>10 DEF Own, InSecret, Plain
  <2> QED BY <1>1, <1>6, <1>7, <1>10, <2>2, <2>3, LocalParsed, Undisturbed
<1>11. CASE Accepts(x.target, b) /\ y.read >= x.len /\ monitor_action(c, z)
  <2>1. y.read = Len(Data(r))
    <3>1. x.read \in Nat /\ x.read < Len(Data(r)) /\ y.read = x.read + 1
      BY <1>1, <1>6
    <3>2. x.len = Len(Data(r)) /\ y.read >= x.len
      BY <1>1, <1>11
    <3>3. Len(Data(r)) \in Nat
      BY <1>5
    <3> QED BY <3>1, <3>2, <3>3
  <2>2. /\ z \in AdminConnection /\ z.data = Put(y.data, y.read, 0) /\ z.token = y.token
        /\ z.type = y.type /\ z.target = y.target /\ ~z.finish_user
    <3>1. Put(y.data, y.read, 0) \in Memory
      <4>1. y.data \in Memory /\ y.read \in Nat /\ y.read <= MAX_PATH
        BY <1>5, <1>6, <2>1 DEF AdminConnection
      <4> QED BY <1>5, <4>1, PutFits
    <3> QED BY <1>6, <3>1 DEF AdminConnection
  <2> HIDE DEF z
  <2>3. WellFormed(r) /\ Understood(z) = Means(r)
    BY <1>1, <1>2, <1>3, <1>6, <1>9, <1>11, <2>1, <2>2, TextIsRead
  <2> QED BY <1>1, <1>2, <1>6, <1>7, <1>11, <2>2, <2>3, LocalAction, Undisturbed
<1>12. CASE ~Accepts(x.target, b) /\ Error(c, x, invalid_data)
  <2>1. x.read + 1 \in DOMAIN r.name
    BY <1>1, <1>5
  <2>2. ~WellFormed(r)
    BY <1>1, <1>2, <1>5, <1>12, <2>1 DEF WellFormed, get, config
  <2>3. invalid_data \in Statuses
    BY DEF invalid_data, Statuses
  <2> QED BY <1>1, <1>7, <1>12, <2>2, <2>3, LocalError, Undisturbed
<1> QED BY <1>8, <1>10, <1>11, <1>12

\* The data of an account: its name, a 0 and its secret, and there is room for both.
LEMMA AccountIs ==
    ASSUME NEW r \in Request, parse_args(r), Adds(r)
    PROVE  LET n == Len(r.name)
               s == Len(r.secret)
           IN  /\ n \in Nat /\ s \in Nat /\ n >= 1 /\ n <= MAX_NAME /\ MAX_NAME \in Nat
               /\ r.name \in Seq(Bytes) /\ r.secret \in Seq(Bytes)
               /\ DOMAIN r.name = 1..n /\ DOMAIN r.secret = 1..s
               /\ MAX_PATH \in Nat /\ MAX_NAME + n + 1 + s <= MAX_PATH
               /\ Len(Data(r)) = n + 1 + s
               /\ \A i \in 1..n : Data(r)[i] = r.name[i]
               /\ Data(r)[n + 1] = 0
               /\ \A i \in 1..s : Data(r)[n + 1 + i] = r.secret[i]
               /\ r.target \in {add_admin, add_pop3} /\ r.type = config
<1> DEFINE n == Len(r.name)
           s == Len(r.secret)
<1>1. /\ n \in Nat /\ s \in Nat /\ n >= 1 /\ n <= MAX_NAME
      /\ MAX_NAME + s <= MAX_PATH - MAX_NAME - 1
      /\ Len(Data(r)) = n + 1 + s
      /\ \A i \in 1..n : Data(r)[i] = r.name[i]
      /\ Data(r)[n + 1] = 0
      /\ \A i \in 1..s : Data(r)[n + 1 + i] = r.secret[i]
  BY DataIs
<1>2. r.name \in Seq(Bytes) /\ r.secret \in Seq(Bytes) /\ DOMAIN r.name = 1..n
      /\ DOMAIN r.secret = 1..s
  BY DEF Request, String
<1>3. MAX_NAME \in Nat /\ MAX_PATH \in Nat
  BY Sizes
<1>4. r.target \in {add_admin, add_pop3} /\ r.type = config
  BY DEF Adds
<1> HIDE DEF n, s
<1>5. MAX_NAME + n + 1 + s <= MAX_PATH
  BY <1>1, <1>3
<1> QED BY <1>1, <1>2, <1>3, <1>4, <1>5 DEF n, s

\* There is room for every byte of an account, and a byte of the secret goes back no further
\* than to the start of the data, whoever set username_len.
LEMMA SecretFits ==
    ASSUME TypeOK, ParseInv, NEW x \in AdminConnection, NEW r \in Request, parse_args(r), Adds(r),
           x.read < Len(Data(r)), Plain(x, r) \/ Doomed(x, r) \/ InSecret(x, r)
    PROVE  /\ MAX_NAME + x.read < MAX_PATH /\ x.read < MAX_PATH
           /\ x.finish_user => /\ username_len <= MAX_NAME + x.read
                               /\ MAX_NAME + x.read - username_len \in Nat
                               /\ MAX_NAME + x.read - username_len < MAX_PATH
<1> DEFINE n == Len(r.name)
           s == Len(r.secret)
           i == x.read
<1>1. /\ n \in Nat /\ s \in Nat /\ MAX_NAME \in Nat /\ MAX_PATH \in Nat
      /\ MAX_NAME + n + 1 + s <= MAX_PATH /\ Len(Data(r)) = n + 1 + s
  BY AccountIs
<1>2. i \in Nat /\ i < n + 1 + s
  BY <1>1 DEF AdminConnection
<1>3. username_len \in Nat /\ username_len <= MAX_NAME + 1
  BY DEF TypeOK, ParseInv
<1>4. x.finish_user => i >= 1
  <2>1. x.finish_user => i >= 1 \/ i > n
    BY DEF Plain, Doomed, InSecret
  <2> HIDE DEF i, n
  <2> QED BY <1>1, <1>2, <2>1
<1> HIDE DEF i, n, s
<1>5. MAX_NAME + i < MAX_PATH /\ i < MAX_PATH
  BY <1>1, <1>2
<1>6. ASSUME i >= 1
      PROVE  /\ username_len <= MAX_NAME + i /\ MAX_NAME + i - username_len \in Nat
             /\ MAX_NAME + i - username_len < MAX_PATH
  BY <1>1, <1>2, <1>3, <1>5, <1>6
<1> QED BY <1>4, <1>5, <1>6 DEF i

\* Before the separator no more than the name was taken.
LEMMA PlainInName ==
    ASSUME NEW r \in Request, parse_args(r), Adds(r), NEW x \in AdminConnection, Plain(x, r)
    PROVE  /\ x.read \in Nat /\ x.read <= Len(r.name)
           /\ \A i \in 1..x.read : r.name[i] \in Letters
<1> DEFINE n == Len(r.name)
<1>1. /\ n \in Nat /\ Data(r)[n + 1] = 0 /\ \A i \in 1..n : Data(r)[i] = r.name[i] /\ r.name[i] \in Bytes
      /\ r.target \in {add_admin, add_pop3}
  <2>1. /\ n \in Nat /\ Data(r)[n + 1] = 0 /\ \A i \in 1..n : Data(r)[i] = r.name[i]
        /\ r.target \in {add_admin, add_pop3} /\ r.name \in Seq(Bytes)
    BY AccountIs
  <2>2. \A i \in 1..n : r.name[i] \in Bytes
    BY <2>1
  <2> QED BY <2>1, <2>2
<1>2. x.read \in Nat /\ \A i \in 1..x.read : Accepts(r.target, Data(r)[i])
  BY DEF Plain, AdminConnection
<1> HIDE DEF n
<1>3. ~(x.read > n)
  <2> SUFFICES ASSUME x.read > n PROVE FALSE
    OBVIOUS
  <2>1. n + 1 \in 1..x.read /\ 0 \in Bytes
    BY <1>1, <1>2, Sizes
  <2>2. Accepts(r.target, 0)
    BY <1>1, <1>2, <2>1
  <2> QED BY <2>1, <2>2, AcceptsIs
<1>4. ASSUME NEW i \in 1..x.read PROVE r.name[i] \in Letters
  <2>1. i \in 1..n
    BY <1>1, <1>2, <1>3
  <2> QED BY <1>1, <1>2, <2>1, AcceptsIs
<1> QED BY <1>1, <1>2, <1>3, <1>4 DEF n

\* An account that was read to its end is well formed.
LEMMA AccountIsRead ==
    ASSUME NEW r \in Request, parse_args(r), Adds(r), r.ver = 1,
           NEW y \in AdminConnection, InSecret(y, r), y.read = Len(Data(r))
    PROVE  WellFormed(r)
<1>1. /\ Len(Data(r)) = Len(r.name) + 1 + Len(r.secret) /\ Len(r.name) \in Nat /\ Len(r.secret) \in Nat
      /\ r.name \in Seq(Bytes) /\ r.secret \in Seq(Bytes)
      /\ DOMAIN r.name = 1..Len(r.name) /\ DOMAIN r.secret = 1..Len(r.secret)
      /\ r.target \in {add_admin, add_pop3} /\ r.type = config
  BY AccountIs
<1>2. AllIn(r.secret, Letters)
  <2>1. y.read - Len(r.name) - 1 = Len(r.secret)
    <3> DEFINE n == Len(r.name)
               s == Len(r.secret)
    <3>1. n \in Nat /\ s \in Nat /\ y.read = n + 1 + s
      BY <1>1
    <3> HIDE DEF n, s
    <3>2. y.read - n - 1 = s
      BY <3>1
    <3> QED BY <3>2 DEF n, s
  <2> QED BY <1>1, <2>1 DEF InSecret, AllIn
<1>3. \A k \in DOMAIN r.name : Accepts(r.target, r.name[k])
  BY <1>1, AcceptsIs DEF InSecret, AllIn
<1>4. r.target \in ConfigTargets
  BY <1>1 DEF ConfigTargets, add_admin, add_pop3
<1> QED BY <1>1, <1>2, <1>3, <1>4 DEF WellFormed

\* And the name and the secret are where the action looks for them.
LEMMA AccountUnderstood ==
    ASSUME NEW r \in Request, parse_args(r), Adds(r), WellFormed(r), Len(r.name) < MAX_NAME,
           NEW y \in AdminConnection, InSecret(y, r), Placed(y, r), y.read = Len(Data(r)),
           NEW z \in AdminConnection, z.data = Put(y.data, MAX_NAME + y.read, 0),
           z.token = r.token, z.type = r.type, z.target = r.target
    PROVE  Understood(z) = Means(r)
<1> DEFINE n == Len(r.name)
           s == Len(r.secret)
<1>1. /\ n \in Nat /\ s \in Nat /\ n >= 1 /\ n < MAX_NAME /\ MAX_NAME \in Nat
      /\ r.name \in Seq(Bytes) /\ r.secret \in Seq(Bytes)
      /\ DOMAIN r.name = 1..n /\ DOMAIN r.secret = 1..s
      /\ MAX_PATH \in Nat /\ MAX_NAME + n + 1 + s <= MAX_PATH
      /\ y.read = n + 1 + s
      /\ r.target \in {add_admin, add_pop3} /\ r.type = config
  BY AccountIs
<1>2. y.data \in Memory /\ z.data \in Memory /\ 0 \in 0..MAX_PATH
      /\ MAX_NAME \in 0..MAX_PATH /\ 0 \in Bytes
  <2>1. y.data \in Memory /\ z.data \in Memory
    BY DEF AdminConnection
  <2>2. 0 \in Bytes
    BY Sizes
  <2> HIDE DEF n, s
  <2>3. 0 \in 0..MAX_PATH /\ MAX_NAME \in 0..MAX_PATH
    BY <1>1
  <2> QED BY <2>1, <2>2, <2>3
<1>3. /\ \A i \in 1..n : r.name[i] \in Letters /\ r.name[i] # 0
      /\ \A i \in 1..s : r.secret[i] \in Letters /\ r.secret[i] # 0
  <2>1. AllIn(r.name, Letters) /\ AllIn(r.secret, Letters)
    BY <1>1 DEF InSecret, WellFormed, get, config
  <2>2. 0 \notin Letters
    BY <1>2, AcceptsIs
  <2> QED BY <1>1, <2>1, <2>2 DEF AllIn
<1>4. \A k \in StructIndex :
        y.data[k] = IF k < n THEN r.name[k + 1]
                    ELSE IF MAX_NAME <= k /\ k < MAX_NAME + (y.read - n - 1)
                    THEN r.secret[k - MAX_NAME + 1] ELSE 0
  BY DEF Placed
<1> HIDE DEF n, s
<1>5. \A k \in StructIndex : z.data[k] = IF k = MAX_NAME + y.read THEN 0 ELSE y.data[k]
  BY <1>2, PutIs
<1>6. y.read - n - 1 = s
  BY <1>1
<1>7. name(z) = r.name
  <2>1. n \in StructIndex /\ 0 + n = n /\ 0 + n <= MAX_PATH
    <3>1. n \in 0..MAX_PATH
      BY <1>1
    <3> QED BY <1>1, <3>1, Sizes
  <2>2. z.data[0 + n] = 0
    <3>1. ~(n < n) /\ ~(MAX_NAME <= n)
      BY <1>1
    <3>2. y.data[n] = 0
      BY <1>4, <2>1, <3>1
    <3> QED BY <1>5, <2>1, <3>2
  <2>3. ASSUME NEW j \in 1..n PROVE r.name[j] # 0 /\ z.data[0 + j - 1] = r.name[j]
    <3>1. j - 1 \in StructIndex /\ j - 1 < n /\ 0 + j - 1 = j - 1 /\ (j - 1) + 1 = j
          /\ j - 1 # MAX_NAME + y.read
      <4>1. j - 1 \in 0..MAX_PATH
        BY <1>1
      <4> QED BY <1>1, <4>1, Sizes
    <3>2. y.data[j - 1] = r.name[j]
      BY <1>4, <3>1
    <3> QED BY <1>3, <1>5, <3>1, <3>2
  <2>4. Len(r.name) = n
    BY DEF n
  <2> QED BY <1>1, <1>2, <2>1, <2>2, <2>3, <2>4, CStringIs DEF name
<1>8. secret(z) = r.secret
  <2>1. MAX_NAME + s \in StructIndex /\ MAX_NAME + s <= MAX_PATH
    <3>1. MAX_NAME + s \in 0..MAX_PATH
      BY <1>1
    <3> QED BY <1>1, <3>1, Sizes
  <2>2. z.data[MAX_NAME + s] = 0
    <3>1. ~(MAX_NAME + s < n) /\ ~(MAX_NAME + s < MAX_NAME + s)
      BY <1>1
    <3>2. y.data[MAX_NAME + s] = 0
      BY <1>4, <1>6, <2>1, <3>1
    <3> QED BY <1>5, <2>1, <3>2
  <2>3. ASSUME NEW j \in 1..s PROVE r.secret[j] # 0 /\ z.data[MAX_NAME + j - 1] = r.secret[j]
    <3>1. /\ MAX_NAME + j - 1 \in StructIndex /\ ~(MAX_NAME + j - 1 < n)
          /\ MAX_NAME <= MAX_NAME + j - 1 /\ MAX_NAME + j - 1 < MAX_NAME + s
          /\ (MAX_NAME + j - 1) - MAX_NAME + 1 = j /\ MAX_NAME + j - 1 # MAX_NAME + y.read
      <4>1. MAX_NAME + j - 1 \in 0..MAX_PATH
        BY <1>1
      <4> QED BY <1>1, <4>1, Sizes
    <3>2. y.data[MAX_NAME + j - 1] = r.secret[j]
      BY <1>4, <1>6, <3>1
    <3> QED BY <1>3, <1>5, <3>1, <3>2
  <2>4. Len(r.secret) = s
    BY DEF s
  <2>5. /\ z.data \in Memory /\ MAX_NAME \in 0..MAX_PATH /\ r.secret \in Seq(Bytes)
        /\ MAX_NAME + Len(r.secret) <= MAX_PATH /\ z.data[MAX_NAME + Len(r.secret)] = 0
    BY <1>1, <1>2, <2>1, <2>2, <2>4
  <2>6. \A j \in 1..Len(r.secret) : r.secret[j] # 0 /\ z.data[MAX_NAME + j - 1] = r.secret[j]
    BY <2>3, <2>4
  <2> HIDE DEF s
  <2>7. CString(z.data, MAX_NAME) = r.secret
    BY <2>5, <2>6, CStringIs
  <2> QED BY <2>7 DEF secret
<1>9. Adds(z) /\ r.type # get
  BY <1>1 DEF Adds, get, config
<1> QED BY <1>7, <1>8, <1>9 DEF Understood, Means

\* The separator: this name's length goes to username_len, and every other connection that
\* is in a secret and loses its own by this is disturbed.
LEMMA ParseDataSeparator ==
    ASSUME TypeOK, ParseInv, NEW c \in Conns, parse_data_separator(c)
    PROVE  ParseInv'
<1> DEFINE x == conn[c]
           r == cli[c].req
           n == Len(r.name)
           s == Len(r.secret)
           y == [x EXCEPT !.data = Put(@, x.read, 0), !.read = @ + 1, !.finish_user = TRUE]
           z == [y EXCEPT !.data = Put(@, MAX_NAME + y.read, 0), !.finish_user = FALSE]
<1>1. /\ x.st \in Reading /\ x.st = "data" /\ cli[c].out # <<>>
      /\ x \in AdminConnection /\ r \in Request /\ parse_args(r) /\ Local(c) /\ Header(x, r)
      /\ Plain(x, r) \/ Doomed(x, r) \/ InSecret(x, r)
      /\ x.read \in Nat /\ x.len = Len(Data(r)) /\ x.read < Len(Data(r))
      /\ Next_byte(c) = Data(r)[x.read + 1]
      /\ \A v : v.st = "data" /\ v.read = x.read + 1 => Rest(v, r, Tail(cli[c].out))
  BY Data_facts DEF parse_data_separator, Feed
<1>2. /\ r.type = config /\ x.target = r.target /\ x.type = r.type /\ r.target \in ConfigTargets
      /\ x.token = r.token /\ r.ver = 1 /\ Len(x.token) = TOKEN_SIZE
      /\ \A i \in 1..Len(x.token) : x.token[i] = r.token[i]
  BY <1>1, TokenIs DEF Header
<1>3. /\ Next_byte(c) = 0 /\ ~x.finish_user /\ combinedlen' = combinedlen
      /\ username_len' = x.read + 1
      /\ disturbed' = disturbed \cup
            {d \in Conns \ {c} : conn[d].finish_user /\ username_len' # username_len}
      /\ IF y.read >= x.len THEN monitor_action(c, z) ELSE Parsed(c, y)
  BY DEF parse_data_separator, Complete
<1>4. Adds(r) /\ Plain(x, r)
  BY <1>1, <1>2, <1>3 DEF parse_data_separator, Adds, Doomed, InSecret
<1>5. /\ n \in Nat /\ s \in Nat /\ n >= 1 /\ n <= MAX_NAME /\ MAX_NAME \in Nat
      /\ r.name \in Seq(Bytes) /\ DOMAIN r.name = 1..n
      /\ Len(Data(r)) = n + 1 + s /\ MAX_NAME + n + 1 + s <= MAX_PATH /\ MAX_PATH \in Nat
      /\ \A i \in 1..n : Data(r)[i] = r.name[i]
      /\ 0 \in Bytes /\ x.data \in Memory
  BY <1>1, <1>4, AccountIs, Sizes DEF AdminConnection
<1>6. x.read <= n /\ \A i \in 1..x.read : r.name[i] \in Letters
  BY <1>1, <1>4, PlainInName
<1> HIDE DEF n, s
<1>7. /\ y \in AdminConnection /\ y.data = Put(x.data, x.read, 0) /\ y.read = x.read + 1
      /\ y.st = "data" /\ y.token = x.token /\ y.type = x.type /\ y.target = x.target
      /\ y.len = x.len /\ y.finish_user
  <2>1. Put(x.data, x.read, 0) \in Memory
    <3>1. x.read <= MAX_PATH /\ x.read \in Nat
      BY <1>1, <1>5, <1>6
    <3> HIDE DEF x
    <3> QED BY <1>5, <3>1, PutFits
  <2>2. x.read + 1 \in Nat /\ x \in AdminConnection /\ x.st = "data"
    BY <1>1
  <2> QED BY <2>1, <2>2 DEF AdminConnection
<1>8. /\ z \in AdminConnection /\ z.data = Put(y.data, MAX_NAME + y.read, 0) /\ z.token = y.token
      /\ z.type = y.type /\ z.target = y.target /\ ~z.finish_user
  <2>1. Put(y.data, MAX_NAME + y.read, 0) \in Memory
    <3> HIDE DEF x, y
    <3>1. MAX_NAME + y.read \in Nat /\ MAX_NAME + y.read <= MAX_PATH
      BY <1>1, <1>5, <1>6, <1>7
    <3>2. y.data \in Memory
      BY <1>7 DEF AdminConnection
    <3> QED BY <1>5, <3>1, <3>2, PutFits
  <2> HIDE DEF y
  <2> QED BY <1>7, <2>1 DEF AdminConnection
<1> HIDE DEF y, z
<1>9. ASSUME x.read = n PROVE InSecret(y, r) /\ Placed(y, r) /\ username_len' = Len(r.name) + 1
  <2>1. y.read = n + 1 /\ y.read - n - 1 = 0 /\ n = Len(r.name)
    BY <1>5, <1>7, <1>9 DEF n
  <2>2. InSecret(y, r)
    <3>1. y.read > Len(r.name) /\ y.read - Len(r.name) - 1 = 0
      BY <1>5, <2>1, SMTT(30)
    <3>2. AllIn(r.name, Letters)
      BY <1>5, <1>6, <1>9 DEF AllIn
    <3> QED BY <1>4, <1>7, <3>1, <3>2 DEF InSecret
  <2>3. ASSUME NEW k \in StructIndex
        PROVE  y.data[k] = IF k < n THEN r.name[k + 1] ELSE 0
    <3>1. k \in Nat
      BY DEF StructIndex
    <3>2. y.data[k] = IF k = x.read THEN 0 ELSE x.data[k]
      <4>1. Put(x.data, x.read, 0)[k] = IF k = x.read THEN 0 ELSE x.data[k]
        BY <1>5, PutIs
      <4> QED BY <1>7, <4>1
    <3>3. x.data[k] = IF k < x.read THEN Data(r)[k + 1] ELSE 0
      BY <1>4 DEF Plain
    <3>4. k < n => k + 1 \in 1..n
      BY <1>5, <3>1
    <3> QED BY <1>5, <1>9, <3>1, <3>2, <3>3, <3>4
  <2>4. Placed(y, r)
    <3>1. \A k \in StructIndex : ~(MAX_NAME <= k /\ k < MAX_NAME + (y.read - n - 1))
      BY <1>5, <2>1 DEF StructIndex
    <3> QED BY <2>1, <2>3, <3>1 DEF Placed
  <2> QED BY <1>3, <1>9, <2>1, <2>2, <2>4
<1>10. ASSUME x.read # n PROVE Doomed(y, r)
  <2>1. x.read + 1 \in 1..n
    BY <1>1, <1>5, <1>6, <1>10
  <2>2. r.name[x.read + 1] = 0
    BY <1>1, <1>3, <1>5, <2>1
  <2>3. y.read >= 1 /\ y.read <= Len(r.name) /\ 1..n = 1..Len(r.name)
    BY <1>1, <1>7, <2>1 DEF n
  <2> QED BY <1>4, <1>7, <2>1, <2>2, <2>3 DEF Doomed
<1>11. /\ combinedlen' = 0 /\ (c \notin disturbed' => c \notin disturbed)
       /\ \A d \in Conns \ {c} : d \notin disturbed' =>
            d \notin disturbed /\ (conn[d].finish_user => username_len' = username_len)
  BY <1>3 DEF ParseInv
<1>12. username_len' <= MAX_NAME + 1
  BY <1>1, <1>3, <1>5, <1>6
<1>13. CASE y.read >= x.len
  <2>1. x.read = n /\ y.read = Len(Data(r))
    <3>1. /\ x.read \in Nat /\ x.read < n + 1 + s /\ x.read <= n /\ y.read = x.read + 1
          /\ y.read >= n + 1 + s /\ Len(Data(r)) = n + 1 + s
      BY <1>1, <1>5, <1>6, <1>7, <1>13
    <3>2. n \in Nat /\ s \in Nat
      BY <1>5
    <3> HIDE DEF x, r
    <3> QED BY <3>1, <3>2
  <2>2. WellFormed(r)
    BY <1>1, <1>2, <1>4, <1>7, <1>9, <2>1, AccountIsRead
  <2>3. ShortName(r) => Understood(z) = Means(r)
    BY <1>1, <1>2, <1>4, <1>7, <1>8, <1>9, <2>1, <2>2, AccountUnderstood DEF ShortName
  <2>4. monitor_action(c, z) /\ z.token = r.token /\ z.type = r.type /\ z.target = r.target
    BY <1>2, <1>3, <1>7, <1>8, <1>13
  <2>5. Local(c)' /\ \A d \in Conns \ {c} : conn'[d] = conn[d] /\ cli'[d] = cli[d]
    BY <1>1, <1>3, <1>8, <1>11, <2>2, <2>3, <2>4, LocalAction
  <2> QED BY <1>11, <1>12, <2>5, LocalOthers
<1>14. CASE ~(y.read >= x.len)
  <2>1. Parsed(c, y)
    BY <1>3, <1>14
  <2>2. Header(y, r)
    BY <1>1, <1>2, <1>5, <1>7, <1>14 DEF Header
  <2>3. Progress(y, r, Tail(cli[c].out)) /\ y.st \in Reading
    BY <1>1, <1>7, <1>9, <1>10, <2>2 DEF Progress
  <2>4. Own(y, r, username_len')
    <3>1. CASE x.read = n
      BY <1>9, <3>1 DEF Own
    <3>2. CASE x.read # n
      <4>1. ~InSecret(y, r)
        <5>1. y.read <= Len(r.name) /\ y.read \in Nat /\ Len(r.name) \in Nat
          BY <1>1, <1>5, <1>7, <1>10, <3>2 DEF Doomed, n
        <5> QED BY <5>1 DEF InSecret
      <4> QED BY <4>1 DEF Own
    <3> QED BY <3>1, <3>2
  <2>5. Local(c)' /\ \A d \in Conns \ {c} : conn'[d] = conn[d] /\ cli'[d] = cli[d]
    BY <1>1, <1>7, <2>1, <2>3, <2>4, LocalParsed
  <2> QED BY <1>11, <1>12, <2>5, LocalOthers
<1> QED BY <1>13, <1>14

\* The other bytes of an account: of its name, or of its secret.
LEMMA ParseDataAccount ==
    ASSUME TypeOK, ParseInv, NEW c \in Conns, parse_data_account(c)
    PROVE  ParseInv'
<1> DEFINE x == conn[c]
           r == cli[c].req
           b == Next_byte(c)
           n == Len(r.name)
           s == Len(r.secret)
           at == IF x.finish_user THEN MAX_NAME + x.read - username_len ELSE x.read
           y == [x EXCEPT !.data = Put(@, at, b), !.read = @ + 1]
           z == [y EXCEPT !.data = Put(@, MAX_NAME + y.read, 0), !.finish_user = FALSE]
<1>1. /\ x.st \in Reading /\ x.st = "data" /\ cli[c].out # <<>>
      /\ x \in AdminConnection /\ r \in Request /\ parse_args(r) /\ Local(c) /\ Header(x, r)
      /\ Plain(x, r) \/ Doomed(x, r) \/ InSecret(x, r)
      /\ x.read \in Nat /\ x.len = Len(Data(r)) /\ x.read < Len(Data(r))
      /\ b \in Bytes /\ b = Data(r)[x.read + 1]
      /\ \A v : v.st = "data" /\ v.read = x.read + 1 => Rest(v, r, Tail(cli[c].out))
  BY Data_facts DEF parse_data_account, Feed
<1>2. /\ r.type = config /\ x.target = r.target /\ x.type = r.type /\ r.target \in ConfigTargets
      /\ x.token = r.token /\ r.ver = 1 /\ Len(x.token) = TOKEN_SIZE
      /\ \A i \in 1..Len(x.token) : x.token[i] = r.token[i]
  BY <1>1, TokenIs DEF Header
<1>3. Adds(r)
  BY <1>2 DEF parse_data_account, Adds
<1>4. /\ n \in Nat /\ s \in Nat /\ n >= 1 /\ MAX_NAME \in Nat
      /\ DOMAIN r.name = 1..n /\ DOMAIN r.secret = 1..s
      /\ Len(Data(r)) = n + 1 + s /\ MAX_NAME + n + 1 + s <= MAX_PATH /\ MAX_PATH \in Nat
      /\ \A i \in 1..n : Data(r)[i] = r.name[i]
      /\ Data(r)[n + 1] = 0
      /\ \A i \in 1..s : Data(r)[n + 1 + i] = r.secret[i]
      /\ r.target \in {add_admin, add_pop3}
  BY <1>1, <1>3, AccountIs
<1>5. /\ 0 \in Bytes /\ x.data \in Memory /\ 0 \notin Letters
      /\ UNCHANGED <<statics, disturbed>> /\ username_len' = username_len
      /\ invalid_data \in Statuses
  <2>1. 0 \in Bytes /\ x.data \in Memory /\ 0 \notin Letters
    BY <1>1, Sizes, AcceptsIs DEF AdminConnection
  <2>2. UNCHANGED <<statics, disturbed>> /\ username_len' = username_len
    BY DEF parse_data_account, statics
  <2> QED BY <2>1, <2>2 DEF invalid_data, Statuses
<1>6. \/ b \in Letters /\ y.read < x.len /\ Parsed(c, y)
      \/ b \in Letters /\ y.read >= x.len /\ monitor_action(c, z)
      \/ b \notin Letters /\ (b # 0 \/ x.read = 0 \/ x.finish_user) /\ Error(c, x, invalid_data)
  BY DEF parse_data_account, Complete
<1>sizes. x.read \in Nat /\ n \in Nat /\ s \in Nat /\ x.read < n + 1 + s
  BY <1>1, <1>4
<1>at. at \in Nat /\ at < MAX_PATH
  BY <1>1, <1>3, SecretFits
<1> HIDE DEF n, s, at
<1>7. /\ y \in AdminConnection /\ y.data = Put(x.data, at, b) /\ y.read = x.read + 1
      /\ y.st = "data" /\ y.token = x.token /\ y.type = x.type /\ y.target = x.target
      /\ y.len = x.len /\ y.finish_user = x.finish_user
  <2>1. Put(x.data, at, b) \in Memory
    BY <1>1, <1>5, <1>at, PutFits
  <2>2. x.read + 1 \in Nat /\ x \in AdminConnection /\ x.st = "data"
    BY <1>1
  <2> QED BY <2>1, <2>2 DEF AdminConnection
<1>8. /\ z \in AdminConnection /\ z.data = Put(y.data, MAX_NAME + y.read, 0) /\ z.token = y.token
      /\ z.type = y.type /\ z.target = y.target /\ ~z.finish_user
  <2>1. Put(y.data, MAX_NAME + y.read, 0) \in Memory
    <3> HIDE DEF x, y
    <3>1. MAX_NAME + y.read \in Nat /\ MAX_NAME + y.read <= MAX_PATH
      BY <1>4, <1>7, <1>sizes
    <3>2. y.data \in Memory
      BY <1>7 DEF AdminConnection
    <3> QED BY <1>5, <3>1, <3>2, PutFits
  <2> HIDE DEF y
  <2> QED BY <1>7, <2>1 DEF AdminConnection
<1> HIDE DEF y, z
<1>9. CASE b \notin Letters /\ (b # 0 \/ x.read = 0 \/ x.finish_user) /\ Error(c, x, invalid_data)
  <2>1. ~WellFormed(r)
    <3> SUFFICES ASSUME WellFormed(r) PROVE FALSE
      OBVIOUS
    <3>1. /\ \A i \in 1..n : r.name[i] \in Letters
          /\ \A i \in 1..s : r.secret[i] \in Letters
      <4>1. \A i \in 1..n : Accepts(r.target, r.name[i])
        <5>1. \A k \in DOMAIN r.name : Accepts(r.target, r.name[k])
          BY <1>2 DEF WellFormed, get, config
        <5> QED BY <1>4, <5>1
      <4>2. AllIn(r.secret, Letters)
        BY <1>2, <1>3 DEF WellFormed, get, config
      <4>3. \A i \in 1..n : r.name[i] \in Letters
        <5>1. r.target = add_admin \/ r.target = add_pop3
          BY <1>4
        <5> QED BY <4>1, <5>1 DEF Accepts, add_admin, add_pop3, config_maildir, config_buf_size
      <4> QED BY <1>4, <4>2, <4>3 DEF AllIn
    <3>2. CASE Plain(x, r)
      <4>1. x.read <= n /\ ~x.finish_user
        BY <1>1, <1>3, <3>2, PlainInName DEF n, Plain
      <4>2. CASE x.read = n
        BY <1>4, <1>1, <1>9, <4>1, <4>2, SMTT(30)
      <4>3. CASE x.read # n
        <5>1. x.read + 1 \in 1..n
          BY <1>sizes, <4>1, <4>3
        <5>2. b = r.name[x.read + 1]
          BY <1>1, <1>4, <5>1
        <5> QED BY <1>9, <3>1, <5>1, <5>2
      <4> QED BY <4>2, <4>3
    <3>3. CASE Doomed(x, r)
      BY <1>5, <3>1, <3>3 DEF Doomed, n
    <3>4. CASE InSecret(x, r)
      <4>1. PICK i \in 1..s : x.read + 1 = n + 1 + i
        <5>1. x.read - n \in 1..s /\ x.read + 1 = n + 1 + (x.read - n)
          <6>1. x.read > n
            BY <3>4 DEF InSecret, n
          <6> QED BY <1>sizes, <6>1
        <5> QED BY <5>1
      <4>2. b = r.secret[i]
        BY <1>1, <1>4, <4>1
      <4> QED BY <1>9, <3>1, <4>1, <4>2
    <3> QED BY <1>1, <3>2, <3>3, <3>4
  <2> QED BY <1>1, <1>5, <1>9, <2>1, LocalError, Undisturbed
<1>10. CASE Plain(x, r) /\ b \in Letters
  <2>1. Plain(y, r)
    <3>1. Accepts(r.target, b)
      BY <1>1, <1>4, <1>10, AcceptsIs
    <3>2. at = x.read /\ ~y.finish_user
      BY <1>7, <1>10 DEF at, Plain
    <3> QED BY <1>1, <1>7, <1>10, <3>1, <3>2, PlainPut
  <2>2. y.read <= n
    BY <1>1, <1>3, <1>7, <2>1, PlainInName DEF n
  <2>3. y.read < x.len /\ Parsed(c, y)
    BY <1>1, <1>4, <1>6, <1>7, <1>10, <2>2
  <2>4. Header(y, r)
    BY <1>1, <1>2, <1>4, <1>7, <2>3 DEF Header
  <2>5. Progress(y, r, Tail(cli[c].out)) /\ y.st \in Reading
    BY <1>1, <1>7, <2>1, <2>4 DEF Progress
  <2>6. Own(y, r, username_len')
    BY <2>1 DEF Own, InSecret, Plain
  <2> QED BY <1>1, <1>5, <1>7, <2>3, <2>5, <2>6, LocalParsed, Undisturbed
<1>11. CASE Doomed(x, r) /\ b \in Letters
  <2>1. x.read < n
    <3>1. x.read <= n
      BY <1>11 DEF Doomed, n
    <3>2. x.read # n
      BY <1>1, <1>4, <1>5, <1>11
    <3> QED BY <1>sizes, <3>1, <3>2
  <2>2. Doomed(y, r) /\ y.read <= n
    <3>1. y.read <= n /\ y.read >= 1
      BY <1>7, <1>sizes, <2>1
    <3> QED BY <1>3, <1>7, <1>11, <3>1 DEF Doomed, n
  <2>3. y.read < x.len /\ Parsed(c, y)
    BY <1>1, <1>4, <1>6, <1>7, <1>11, <2>2
  <2>4. Header(y, r)
    BY <1>1, <1>2, <1>4, <1>7, <2>3 DEF Header
  <2>5. Progress(y, r, Tail(cli[c].out)) /\ y.st \in Reading
    BY <1>1, <1>7, <2>2, <2>4 DEF Progress
  <2>6. Own(y, r, username_len')
    <3>1. ~(y.read > n)
      BY <1>7, <1>sizes, <2>2
    <3> QED BY <3>1 DEF Own, InSecret, n
  <2> QED BY <1>1, <1>5, <1>7, <2>3, <2>5, <2>6, LocalParsed, Undisturbed
<1>12. CASE InSecret(x, r) /\ b \in Letters
  <2> DEFINE j == x.read - n
  <2>1. j \in 1..s /\ x.read = n + j /\ x.finish_user /\ AllIn(r.name, Letters)
        /\ \A i \in 1..j - 1 : r.secret[i] \in Letters
    <3>1. x.read > n
      BY <1>12 DEF InSecret, n
    <3>2. j \in 1..s /\ x.read = n + j
      BY <1>1, <1>4, <3>1
    <3>3. x.read - Len(r.name) - 1 = j - 1
      BY DEF n
    <3> HIDE DEF j
    <3> QED BY <1>12, <3>2, <3>3 DEF InSecret
  <2> HIDE DEF j
  <2>2. b = r.secret[j]
    <3>1. x.read + 1 = n + 1 + j
      BY <1>4, <2>1
    <3> QED BY <1>1, <1>4, <2>1, <3>1
  <2>3. InSecret(y, r) /\ y.read = n + j + 1
    <3>1. y.read = n + j + 1 /\ y.read - n - 1 = j /\ y.read > n
      BY <1>4, <1>7, <2>1
    <3>2. \A i \in 1..j : r.secret[i] \in Letters
      BY <1>12, <2>1, <2>2
    <3> QED BY <1>3, <1>7, <2>1, <3>1, <3>2 DEF InSecret, n
  <2>4. ASSUME c \notin disturbed PROVE Own(y, r, username_len')
    <3>1. username_len = n + 1 /\ (n < MAX_NAME => Placed(x, r))
      BY <1>1, <1>12, <2>4 DEF Local, Own, n
    <3>2. at = MAX_NAME + j - 1
      BY <1>4, <2>1, <3>1 DEF at
    <3>3. ASSUME n < MAX_NAME PROVE Placed(y, r)
      <4>1. ASSUME NEW k \in StructIndex
            PROVE  y.data[k] = IF k < n THEN r.name[k + 1]
                               ELSE IF MAX_NAME <= k /\ k < MAX_NAME + j
                               THEN r.secret[k - MAX_NAME + 1] ELSE 0
        <5>1. k \in Nat
          BY DEF StructIndex
        <5>2. y.data[k] = IF k = at THEN b ELSE x.data[k]
          BY <1>1, <1>5, <1>7, PutIs
        <5>3. x.data[k] = IF k < n THEN r.name[k + 1]
                          ELSE IF MAX_NAME <= k /\ k < MAX_NAME + (j - 1)
                          THEN r.secret[k - MAX_NAME + 1] ELSE 0
          <6>1. x.read - n - 1 = j - 1
            BY <1>4, <2>1
          <6>2. Placed(x, r)
            BY <3>1, <3>3
          <6> QED BY <6>1, <6>2 DEF Placed, n
        <5>4. CASE k = at
          <6>1. ~(k < n) /\ MAX_NAME <= k /\ k < MAX_NAME + j /\ k - MAX_NAME + 1 = j
            BY <1>4, <2>1, <3>2, <3>3, <5>4
          <6> QED BY <2>2, <5>2, <5>4, <6>1
        <5>5. CASE k # at
          <6>1. k < MAX_NAME + j <=> k < MAX_NAME + (j - 1)
            BY <1>4, <2>1, <3>2, <5>1, <5>5
          <6> QED BY <5>2, <5>3, <5>5, <6>1
        <5> QED BY <5>4, <5>5
      <4>2. y.read - n - 1 = j
        BY <1>4, <2>1, <2>3
      <4> QED BY <4>1, <4>2 DEF Placed, n
    <3> QED BY <1>5, <3>1, <3>3 DEF Own, n
  <2>5. CASE y.read < x.len /\ Parsed(c, y)
    <3>1. Header(y, r)
      BY <1>1, <1>2, <1>4, <1>7, <2>5 DEF Header
    <3>2. Progress(y, r, Tail(cli[c].out)) /\ y.st \in Reading
      BY <1>1, <1>7, <2>3, <3>1 DEF Progress
    <3> QED BY <1>1, <1>5, <1>7, <2>4, <2>5, <3>2, LocalParsed, Undisturbed
  <2>6. CASE y.read >= x.len /\ monitor_action(c, z)
    <3>1. y.read = Len(Data(r))
      <4>1. /\ y.read = x.read + 1 /\ y.read >= n + 1 + s /\ Len(Data(r)) = n + 1 + s
        BY <1>1, <1>4, <1>7, <2>6
      <4> HIDE DEF x, r
      <4> QED BY <1>sizes, <4>1
    <3>2. WellFormed(r)
      BY <1>1, <1>2, <1>3, <1>7, <2>3, <3>1, AccountIsRead
    <3>3. c \notin disturbed /\ ShortName(r) => Understood(z) = Means(r)
      BY <1>1, <1>2, <1>3, <1>7, <1>8, <2>3, <2>4, <3>1, <3>2, AccountUnderstood DEF ShortName, Own
    <3> QED BY <1>1, <1>2, <1>5, <1>7, <1>8, <2>6, <3>2, <3>3, LocalAction, Undisturbed
  <2> QED BY <1>6, <1>12, <2>5, <2>6
<1> QED BY <1>1, <1>6, <1>9, <1>10, <1>11, <1>12

-----------------------------------------------------------------------------
(* The other steps. *)

\* A client sends its request to a place where no connection is, and keeps it while there is.
LEMMA ParseClient ==
    ASSUME TypeOK, ParseInv, NEW c \in Conns, Send(c) \/ ClientStep(c) \/ Interrupt(c)
    PROVE  ParseInv'
<1>1. cli \in [Conns -> Client] /\ Local(c)
  BY DEF TypeOK, ParseInv
<1>2. /\ conn' = conn /\ combinedlen' = 0 /\ username_len' = username_len /\ disturbed' = disturbed
      /\ username_len' <= MAX_NAME + 1
      /\ \A d \in Conns \ {c} : cli'[d] = cli[d]
  BY <1>1 DEF Send, ClientStep, Receive, process_response, Reset, Interrupt, statics, ParseInv
<1>3. CASE Send(c)
  <2>1. PICK r \in Asks[c] : parse_args(r)
            /\ cli' = [cli EXCEPT ![c] = [Idle EXCEPT !.st = "queued", !.req = r,
                                                      !.out = serialize_request(r)]]
    BY <1>3 DEF Send
  <2>2. /\ cli'[c].st = "queued" /\ cli'[c].req = r /\ cli'[c].out = serialize_request(r)
        /\ conn[c].st = "closed"
    BY <1>1, <1>3, <2>1 DEF Idle, Send
  <2>3. conn[c].st \notin Reading /\ conn[c].st \notin Replying
    BY <2>2, Kinds
  <2>4. Local(c)'
    BY <1>2, <2>1, <2>2, <2>3 DEF Local, Reading
  <2> QED BY <1>2, <2>4, LocalOthers
<1>4. CASE process_response(c) \/ Reset(c)
  <2>1. conn[c].st = "closed" /\ cli'[c].st # "queued"
    BY <1>1, <1>4 DEF process_response, Reset, Idle
  <2>2. conn[c].st \notin Reading /\ conn[c].st \notin Replying
    BY <2>1, Kinds
  <2>3. Local(c)'
    BY <1>2, <2>1, <2>2 DEF Local, Reading
  <2> QED BY <1>2, <2>3, LocalOthers
<1>5. CASE Receive(c) \/ Interrupt(c)
  <2>1. /\ cli'[c].req = cli[c].req /\ cli'[c].out = cli[c].out
        /\ cli[c].st = "connected" /\ cli'[c].st \in {"connected", "gone"}
    BY <1>1, <1>5 DEF Receive, Interrupt, Client
  <2>2. Progress(conn[c], cli[c].req, cli[c].out) => Progress(conn[c], cli[c].req, cli[c].out)'
    BY <1>2, <2>1
  <2>3. Outcome(conn[c], cli[c].req, c \notin disturbed) =>
            Outcome(conn[c], cli[c].req, c \notin disturbed)'
    BY <1>2, <2>1 DEF Outcome
  <2>4. Own(conn[c], cli[c].req, username_len) => Own(conn[c], cli[c].req, username_len)'
    BY <1>2, <2>1
  <2>5. Local(c)'
    BY <1>1, <1>2, <2>1, <2>2, <2>3, <2>4 DEF Local
  <2> QED BY <1>2, <2>5, LocalOthers
<1> QED BY <1>3, <1>4, <1>5 DEF ClientStep

\* The parser of a connection that is accepted has taken nothing of the request.
LEMMA AcceptedProgress ==
    ASSUME NEW r \in Request, parse_args(r)
    PROVE  Progress(Zeroed, r, serialize_request(r))
<1> DEFINE w == serialize_request(r)
<1>1. w \in Seq(Bytes) /\ Len(w) \in Nat
  BY WireIs
<1>2. /\ Zeroed.st = "version" /\ Zeroed.token = <<>> /\ ~Zeroed.finish_user
      /\ \A k \in StructIndex : Zeroed.data[k] = 0
  BY DEF Zeroed
<1>3. Fed(Zeroed) = 0
  BY <1>2 DEF Fed
<1> HIDE DEF w
<1>4. Len(w) = Len(w) - 0 /\ \A i \in 1..Len(w) : 0 + i = i
  BY <1>1
<1>5. Rest(Zeroed, r, w)
  BY <1>3, <1>4 DEF Rest, w
<1>6. Header(Zeroed, r)
  BY <1>2 DEF Header
<1> QED BY <1>2, <1>5, <1>6 DEF Progress, w

\* Accepting, refusing, interrupting and replying keep it.
LEMMA ParseConnection ==
    ASSUME TypeOK, ParseInv, NEW c \in Conns,
           monitor_passive_accept(c) \/ AcceptFails(c) \/ ReadFails(c) \/ monitor_write(c)
    PROVE  ParseInv'
<1>1. cli \in [Conns -> Client] /\ conn \in [Conns -> AdminConnection] /\ Local(c)
  BY DEF TypeOK, ParseInv
<1>2. combinedlen' = 0 /\ username_len' = username_len /\ username_len' <= MAX_NAME + 1
  BY DEF monitor_passive_accept, AcceptFails, ReadFails, monitor_write, statics, ParseInv
<1>3. CASE monitor_passive_accept(c)
  <2>1. /\ cli[c].st = "queued" /\ cli'[c].st = "connected" /\ cli'[c].req = cli[c].req
        /\ cli'[c].out = cli[c].out /\ conn'[c] = Zeroed /\ disturbed' = disturbed
        /\ \A d \in Conns \ {c} : conn'[d] = conn[d] /\ cli'[d] = cli[d]
    BY <1>1, <1>3 DEF monitor_passive_accept, new_admin_connection, Client
  <2>2. /\ cli[c].req \in Asks[c] /\ parse_args(cli[c].req)
        /\ cli[c].out = serialize_request(cli[c].req) /\ cli[c].req \in Request
    BY <1>1, <2>1 DEF Local, Client
  <2>3. Progress(Zeroed, cli[c].req, cli[c].out)
    BY <2>2, AcceptedProgress
  <2>4. Progress(conn[c], cli[c].req, cli[c].out)'
    BY <2>1, <2>3
  <2>5. conn'[c].st = "version" /\ "version" \notin Replying
    BY <2>1, Kinds DEF Zeroed
  <2>6. Local(c)'
    BY <2>1, <2>2, <2>4, <2>5 DEF Local
  <2> QED BY <1>2, <2>1, <2>6, LocalOthers
<1>4. CASE AcceptFails(c)
  <2>1. /\ cli[c].st = "queued" /\ cli'[c].st = "connected" /\ conn' = conn
        /\ disturbed' = disturbed /\ \A d \in Conns \ {c} : cli'[d] = cli[d]
    BY <1>1, <1>4 DEF AcceptFails, Client
  <2>2. conn[c].st = "closed" /\ conn[c].st \notin Reading /\ conn[c].st \notin Replying
    BY <1>1, <2>1, Kinds DEF Local
  <2>3. Local(c)'
    BY <2>1, <2>2 DEF Local
  <2> QED BY <1>2, <2>1, <2>3, LocalOthers
<1>5. ASSUME monitor_end(c), \A d \in Conns \ {c} : cli'[d] = cli[d], cli'[c].st = cli[c].st,
             conn[c].st # "closed"
      PROVE  ParseInv'
  <2>1. /\ conn'[c].st = "closed" /\ disturbed' = disturbed \ {c}
        /\ \A d \in Conns \ {c} : conn'[d] = conn[d]
    BY <1>1, <1>5 DEF monitor_end, Zeroed
  <2>2. cli'[c].st # "queued" /\ conn'[c].st \notin Reading /\ conn'[c].st \notin Replying
    BY <1>1, <1>5, <2>1, Kinds DEF Local
  <2>3. Local(c)'
    BY <2>1, <2>2 DEF Local, Reading
  <2> QED BY <1>2, <1>5, <2>1, <2>3, LocalOthers
<1>6. CASE ReadFails(c)
  BY <1>5, <1>6, Kinds DEF ReadFails
<1>7. CASE monitor_write(c)
  <2>1. conn[c].st \in Replying /\ conn[c].st # "closed"
    BY <1>7, Kinds DEF monitor_write
  <2>2. CASE cli[c].st = "gone" /\ monitor_end(c) /\ UNCHANGED cli
    BY <1>5, <2>1, <2>2
  <2>3. ASSUME NEW k \in 1..Len(conn[c].wb),
               cli' = [cli EXCEPT ![c].inn =
                        IF cli[c].st = "gone" THEN @ ELSE @ \o SubSeq(conn[c].wb, 1, k)],
               IF k = Len(conn[c].wb)
               THEN monitor_end(c)
               ELSE /\ conn' = [conn EXCEPT ![c].wb = SubSeq(@, k + 1, Len(@))]
                    /\ UNCHANGED <<pools, disturbed>>
        PROVE  ParseInv'
    <3>1. /\ cli'[c].st = cli[c].st /\ cli'[c].req = cli[c].req /\ cli'[c].out = cli[c].out
          /\ \A d \in Conns \ {c} : cli'[d] = cli[d]
      BY <1>1, <2>3 DEF Client
    <3>2. CASE k = Len(conn[c].wb)
      <4>1. monitor_end(c)
        BY <2>3, <3>2
      <4> QED BY <1>5, <2>1, <3>1, <4>1
    <3>3. CASE k # Len(conn[c].wb)
      <4>1. conn' = [conn EXCEPT ![c].wb = SubSeq(@, k + 1, Len(@))] /\ disturbed' = disturbed
        BY <2>3, <3>3
      <4>2. /\ conn'[c].st = conn[c].st /\ conn'[c].token = conn[c].token
            /\ conn'[c].type = conn[c].type /\ conn'[c].target = conn[c].target
            /\ conn'[c].data = conn[c].data /\ conn'[c].finish_user = conn[c].finish_user
            /\ \A d \in Conns \ {c} : conn'[d] = conn[d]
        BY <1>1, <4>1 DEF AdminConnection
      <4>3. Understood(conn'[c]) = Understood(conn[c])
        BY <4>2 DEF Understood, name, secret, Adds
      <4>4. Outcome(conn[c], cli[c].req, c \notin disturbed)
        BY <1>1, <2>1 DEF Local
      <4>5. Outcome(conn'[c], cli'[c].req, c \notin disturbed')
        BY <3>1, <4>1, <4>2, <4>3, <4>4 DEF Outcome
      <4>6. conn'[c].st \notin Reading /\ conn'[c].st # "data" /\ conn'[c].st # "closed"
        BY <2>1, <4>2, Kinds
      <4>7. Local(c)'
        BY <1>1, <2>1, <3>1, <4>5, <4>6, Kinds DEF Local
      <4> QED BY <1>2, <3>1, <4>1, <4>2, <4>7, LocalOthers
    <3> QED BY <3>2, <3>3
  <2> QED BY <1>7, <2>2, <2>3 DEF monitor_write
<1> QED BY <1>3, <1>4, <1>6, <1>7

\* It holds before the first connection.
LEMMA ParseInit == Init => ParseInv
<1> SUFFICES ASSUME Init PROVE ParseInv
  OBVIOUS
<1>1. combinedlen = 0 /\ username_len <= MAX_NAME + 1
  BY Sizes DEF Init
<1>2. ASSUME NEW c \in Conns PROVE Local(c)
  <2>1. conn[c].st = "closed" /\ cli[c].st = "idle"
    BY DEF Init, Zeroed, Idle
  <2>2. conn[c].st \notin Reading /\ conn[c].st \notin Replying
    BY <2>1, Kinds
  <2> QED BY <2>1, <2>2 DEF Local
<1> QED BY <1>1, <1>2 DEF ParseInv

\* Every step keeps it.
LEMMA ParseStep == TypeOK /\ ParseInv /\ [Next]_vars => ParseInv'
<1> SUFFICES ASSUME TypeOK, ParseInv, [Next]_vars PROVE ParseInv'
  OBVIOUS
<1>1. CASE UNCHANGED <<conn, cli, statics, disturbed>>
  BY <1>1 DEF ParseInv, Local, Own, InSecret, Placed, statics
<1>2. CASE validate_user \/ Done \/ UNCHANGED vars
  BY <1>1, <1>2 DEF validate_user, Done, vars
<1>3. ASSUME NEW c \in Conns, Send(c) \/ ClientStep(c) \/ Interrupt(c) PROVE ParseInv'
  BY <1>3, ParseClient
<1>4. ASSUME NEW c \in Conns, monitor_parser_feed(c) PROVE ParseInv'
  BY <1>4, ParseVersion, ParseToken, ParseType, ParserTarget, ParseDlen, ParseDataText,
     ParseDataSeparator, ParseDataAccount DEF monitor_parser_feed
<1>5. ASSUME NEW c \in Conns, ServerStep(c) PROVE ParseInv'
  BY <1>4, <1>5, ParseConnection DEF ServerStep
<1> QED BY <1>2, <1>3, <1>5 DEF Next

\* A connection that is in its data has room for the bytes to come.
LEMMA RoomForData == TypeOK /\ ParseInv => InBounds
<1> SUFFICES ASSUME TypeOK, ParseInv, NEW c \in Conns, conn[c].st = "data", cli[c].out # <<>>
             PROVE  /\ conn[c].read < MAX_PATH
                    /\ conn[c].target \in {add_admin, add_pop3} => MAX_NAME + conn[c].read < MAX_PATH
                    /\ conn[c].finish_user => username_len <= MAX_NAME + conn[c].read
  BY DEF InBounds
<1> DEFINE x == conn[c]
           r == cli[c].req
<1>1. /\ x \in AdminConnection /\ r \in Request /\ parse_args(r) /\ Header(x, r)
      /\ Plain(x, r) \/ Doomed(x, r) \/ InSecret(x, r)
      /\ x.read < Len(Data(r))
  BY Data_facts
<1>2. CASE Adds(r)
  BY <1>1, <1>2, SecretFits
<1>3. CASE ~Adds(r)
  <2>1. x.read \in Nat /\ Len(Data(r)) \in Nat /\ Len(Data(r)) <= MAX_PATH /\ MAX_PATH \in Nat
    BY <1>1, <1>3, DataIs, Sizes DEF AdminConnection
  <2>2. x.target \notin {add_admin, add_pop3} /\ ~x.finish_user
    BY <1>1, <1>3 DEF Header, Adds, Plain, Doomed, InSecret
  <2> QED BY <1>1, <2>1, <2>2
<1> QED BY <1>2, <1>3

\* Every variable has its type, and every byte of a request goes to the union it is meant
\* for: what the other connections do to combinedlen and username_len, and the longest path,
\* take no byte beyond it but the 0 that ends that path.
THEOREM TypeCorrect == Spec => []TypeOK
<1>1. TypeOK /\ ParseInv /\ [Next]_vars => TypeOK' /\ ParseInv'
  BY TypeStep, ParseStep, RoomForData
<1>2. Init => TypeOK /\ ParseInv
  BY InitType, ParseInit
<1> QED BY <1>1, <1>2, PTL DEF Spec

\* What the invariant says holds always.
LEMMA ParseInvHolds == Spec => [](ParseInv /\ InBounds)
<1>1. TypeOK /\ ParseInv /\ [Next]_vars => ParseInv'
  BY ParseStep
<1> QED BY <1>1, ParseInit, RoomForData, TypeCorrect, PTL DEF Spec

\* No two administrators have one name, whatever the requests and their order.
THEOREM OneTokenPerAdminHolds == Spec => []OneTokenPerAdmin
<1>1. Init => OneTokenPerAdmin
  BY DEF Init, OneTokenPerAdmin
<1>2. TypeOK /\ InBounds /\ OneTokenPerAdmin /\ [Next]_vars => OneTokenPerAdmin'
  BY OneTokenStep
<1> QED BY <1>1, <1>2, TypeCorrect, ParseInvHolds, PTL DEF Spec

\* A client that got its reply in one piece is told the status the server decided on.
THEOREM ToldTheTruthHolds == Spec => []ToldTheTruth
<1>1. Init => TellingInv
  BY DEF Init, TellingInv, Telling, Idle, Zeroed, Reading, Replying
<1>2. TypeOK /\ InBounds /\ TellingInv /\ [Next]_vars => TellingInv'
  BY TellingStep
<1>3. TellingInv => ToldTheTruth
  BY DEF TellingInv, Telling, ToldTheTruth
<1> QED BY <1>1, <1>2, <1>3, TypeCorrect, ParseInvHolds, PTL DEF Spec

\* A request is carried out if and only if it is well formed, with the name and the secret
\* its own bytes say, unless another connection ended a name of another length meanwhile.
THEOREM ActsAsAskedHolds == Spec => []ActsAsAsked
<1>1. ParseInv => ActsAsAsked
  BY DEF ParseInv, Local, Outcome, ActsAsAsked
<1> QED BY <1>1, ParseInvHolds, PTL

\* An action that changes the accounts or the maildir answers a connection whose token is one
\* of an administrator.
LEMMA ActionChanges ==
    ASSUME TypeOK, NEW c \in Conns, NEW x \in AdminConnection, monitor_action(c, x),
           <<admins, clients, maildir>>' # <<admins, clients, maildir>>
    PROVE  /\ conn'[c].st = "finish" /\ conn'[c].token = x.token /\ cli'[c].req = cli[c].req
           /\ \E k \in DOMAIN admins : admins[k].token = x.token
<1>1. ~UNCHANGED book
  BY DEF book
<1>2. check_monitor_admin(x.token)
  BY <1>1 DEF monitor_action
<1>3. ~FreedList
  BY <1>1 DEF FreedList
<1>4. PICK status \in Statuses : Answer(c, x, "finish", status)
  BY <1>3, ActionForm
<1>5. conn \in [Conns -> AdminConnection] /\ cli \in [Conns -> Client]
  BY DEF TypeOK
<1>6. PICK out : cli' = [cli EXCEPT ![c].out = out]
  BY <1>4 DEF Answer
<1>7. conn' = [conn EXCEPT ![c] = [x EXCEPT !.st = "finish", !.status = status,
                                            !.wb = Reply(status)]]
  BY <1>4 DEF Answer
<1>8. conn'[c].st = "finish" /\ conn'[c].token = x.token
  BY <1>5, <1>7 DEF AdminConnection
<1>9. cli'[c].req = cli[c].req
  BY <1>5, <1>6 DEF Client
<1> QED BY <1>2, <1>8, <1>9 DEF check_monitor_admin

\* Nothing changes the accounts or the maildir but a request with the token of one who is
\* an administrator at that moment, whatever the other connections send.
THEOREM OnlyAdminsChangeHolds == Spec => OnlyAdminsChange
<1> DEFINE Change == <<admins, clients, maildir>>' # <<admins, clients, maildir>> =>
                \E c \in Conns :
                    /\ conn[c].st \in Reading /\ conn'[c].st = "finish"
                    /\ \E k \in DOMAIN admins : admins[k].token = cli[c].req.token
<1>1. ASSUME TypeOK, InBounds, ParseInv, ParseInv', [Next]_vars PROVE Change
  <2> SUFFICES ASSUME <<admins, clients, maildir>>' # <<admins, clients, maildir>>
               PROVE  \E c \in Conns :
                    /\ conn[c].st \in Reading /\ conn'[c].st = "finish"
                    /\ \E k \in DOMAIN admins : admins[k].token = cli[c].req.token
    OBVIOUS
  <2>1. ~UNCHANGED book /\ ~UNCHANGED vars
    BY DEF book, vars
  <2>2. ASSUME NEW c \in Conns,
               Send(c) \/ ClientStep(c) \/ Interrupt(c) \/ monitor_passive_accept(c)
                \/ AcceptFails(c) \/ ReadFails(c) \/ monitor_write(c)
        PROVE  FALSE
    BY <2>1, <2>2 DEF Send, ClientStep, Receive, process_response, Reset, Interrupt,
                      monitor_passive_accept, AcceptFails, ReadFails, monitor_write
  <2>3. ~validate_user /\ ~Done
    BY <2>1 DEF validate_user, Done
  <2>4. PICK c \in Conns : monitor_parser_feed(c)
    BY <1>1, <2>1, <2>2, <2>3 DEF Next, ServerStep
  <2>5. PICK x \in AdminConnection :
            \/ Parsed(c, x) /\ x.st \in Reading
            \/ monitor_action(c, x)
            \/ \E status \in Statuses : Error(c, x, status)
    BY <1>1, <2>4, FeedIs
  <2>6. monitor_action(c, x)
    BY <2>1, <2>5 DEF Parsed, Error
  <2>7. conn[c].st \in Reading
    BY <1>1, <2>4, FeedIs
  <2>8. /\ conn'[c].st = "finish" /\ conn'[c].token = x.token /\ cli'[c].req = cli[c].req
        /\ \E k \in DOMAIN admins : admins[k].token = x.token
    BY <1>1, <2>6, ActionChanges
  <2>9. conn'[c].token = cli'[c].req.token
    BY <1>1, <2>8, Kinds DEF ParseInv, Local, Outcome
  <2> QED BY <2>7, <2>8, <2>9
<1> HIDE DEF Change
<1>2. TypeOK /\ InBounds /\ ParseInv /\ ParseInv' /\ [Next]_vars => [Change]_vars
  BY <1>1
<1>3. Spec => [][Change]_vars
  BY <1>2, TypeCorrect, ParseInvHolds, PTL DEF Spec
<1> QED BY <1>3 DEF OnlyAdminsChange, Change

=============================================================================
