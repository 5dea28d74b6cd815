------------------------- MODULE NfcProvisionProofs -------------------------
(***************************************************************************)
(* What is proved about provisioning from a card.  The argument follows    *)
(* the bytes of a call: those of earlier calls come first, and behind them *)
(* stand the acknowledgement and the answer of the call under way, as far  *)
(* as the chip has sent them.  An answer whose first byte is the call's    *)
(* own is then the frame of that call, byte for byte, while the line loses *)
(* nothing.  The checksum can only refuse there; what it is worth, for     *)
(* frames of every payload, is proved by induction over the bytes.         *)
(***************************************************************************)
EXTENDS NfcProvision, SequenceTheorems, WellFoundedInduction, TLAPS

(***************************************************************************)
(* The inductive invariant.                                                *)
(***************************************************************************)

Blocks == {1, 2}
CallsOfMain == {ListTargets} \cup {Authenticate(b) : b \in Blocks} \cup {ReadOf(b) : b \in Blocks}
Calls == CallsOfMain \cup {Wakeup}

\* What the chip may answer to a call, and the payloads of the frames it sends then.
DataFor(c) ==
  CASE c.op = "wakeup" -> {<<>>}
    [] c.op = "list" -> {Target}
    [] c.op = "auth" -> {<<0>>, <<AuthError>>}
    [] c.op = "read" -> {<<0>> \o Block[c.block], <<AuthError>>}
PayloadOf(c, data) == <<Pn532ToHost, c.cmd + 1>> \o data
PayloadsFor(c) == {PayloadOf(c, data) : data \in DataFor(c)}

\* Bytes, with the checksums of those frames.
Octet == 0..255
Values == Octet \cup {Negated(Sum(p)) : p \in UNION {PayloadsFor(c) : c \in Calls}}
OnLine == [byte : Values, own : BOOLEAN]
Commands == [call : Calls, own : BOOLEAN]

LineOK ==
  /\ wire \in Seq(OnLine)
  /\ todo \in {<<>>} \cup {<<t>> : t \in Commands}
  /\ doing \in {<<>>} \cup {<<t>> : t \in Commands}
  /\ card \in BOOLEAN /\ authed \in BOOLEAN

\* The bytes of the stream of the call under way: what has come, then what is coming.
Stream == fifo \o wire

\* What the chip has sent for the call under way.
SentSoFar ==
  IF todo # <<>> THEN {<<>>}
  ELSE IF doing # <<>> THEN {Ack} ELSE {Ack \o Frame(p) : p \in PayloadsFor(call)}

\* The stream is f bytes of earlier calls and, from its k-th on, the bytes sent.
Stands(stream, sent, f, k) ==
  /\ Len(stream) = f + Len(sent) + 1 - k
  /\ \A i \in 1..f : ~stream[i].own
  /\ \A i \in (f + 1)..Len(stream) : stream[i] = [byte |-> sent[i - f + k - 1], own |-> TRUE]

\* All of it before the ACK is read.  Afterwards the ACK may be gone (7), all but
\* its first byte may be left (2), or none of it was read (1).
StreamOK ==
  \E sent \in SentSoFar, f \in 0..Len(Stream), k \in {1, 2, 7} :
    /\ Stands(Stream, sent, f, k)
    /\ k # 1 => f = 0 /\ at \in {"frameReady", "frame"}

CallOK ==
  at # "idle" =>
    /\ main \in {"poll", "auth", "read"} /\ call = NextCall
    /\ todo # <<>> => todo[1] = [call |-> call, own |-> TRUE]
    /\ doing # <<>> => IF todo # <<>> THEN ~doing[1].own
                       ELSE doing[1] = [call |-> call, own |-> TRUE]
    /\ fifo \in Seq(OnLine) /\ StreamOK

\* The buffers of main: until Wi-Fi is on, and to the end of the first turn.
BuffersOK ==
  /\ at \in {"idle", "ackReady", "ack", "frameReady", "frame"}
  /\ main \in {"poll", "auth", "read", "wifi", "connect", "done", "dead"}
  /\ block \in Blocks /\ mixed \in BOOLEAN /\ on \in BOOLEAN /\ retry \in Int
  /\ main = "poll" => ~on /\ ssid = Zeros /\ pwd = Zeros
  /\ main = "connect" => on
  /\ main = "connect" \/ (main \in {"auth", "read", "wifi"} /\ ~on) =>
       mixed \/ (ssid \in {Zeros, Block[1]} /\ pwd \in {Zeros, Block[2]})

NfcOK == LineOK /\ CallOK /\ BuffersOK

\* While no byte has been lost.
NfcInv == lost \in Nat /\ (lost = 0 => NfcOK)

(***************************************************************************)
(* Calls, payloads and frames.                                             *)
(***************************************************************************)

\* What a call consists of.
LEMMA CallShape ==
  ASSUME NEW c \in Calls
  PROVE  /\ c.cmd \in {74, 64, 20} /\ c.op \in {"list", "auth", "read", "wakeup"}
         /\ c.op = "read" => c.block \in Blocks
         /\ c \in CallsOfMain => c.size \in 1..19 /\ c.op # "wakeup"
         /\ c # NoCall
<1>1. CASE c = Wakeup
  BY <1>1 DEF Wakeup, CallsOfMain, ListTargets, Authenticate, ReadOf, NoCall
<1>2. CASE c = ListTargets
  BY <1>2 DEF ListTargets, InListPassiveTarget, NoCall
<1>3. ASSUME NEW b \in Blocks, c = Authenticate(b)
      PROVE  c.cmd = 64 /\ c.op = "auth" /\ c.size = 1
  BY <1>3 DEF Authenticate, InDataExchange, Blocks
<1>4. ASSUME NEW b \in Blocks, c = ReadOf(b)
      PROVE  c.cmd = 64 /\ c.op = "read" /\ c.size = 17 /\ c.block = b
  BY <1>4 DEF ReadOf, InDataExchange, Blocks
<1>5. c # NoCall
  <2>1. c.cmd \in {74, 64, 20} => "cmd" \in DOMAIN c
    BY DEF Calls, CallsOfMain, Wakeup, ListTargets, Authenticate, ReadOf
  <2>2. "cmd" \in DOMAIN c
    BY DEF Calls, CallsOfMain, Wakeup, ListTargets, Authenticate, ReadOf
  <2> QED
    BY <2>2 DEF NoCall
<1> QED
  BY <1>1, <1>2, <1>3, <1>4, <1>5 DEF Calls, CallsOfMain

\* What the chip answers is one of the answers it may give.
LEMMA AnswerShape ==
  ASSUME NEW c \in Calls
  PROVE  Answer(c).data \in DataFor(c)
<1>1. c.op \in {"list", "auth", "read", "wakeup"}
  BY CallShape
<1> QED
  BY <1>1 DEF Answer, DataFor

\* A function on 1..n is a sequence of that length.
LEMMA FunctionIsSeq ==
  ASSUME NEW S, NEW n \in Nat, NEW s \in [1..n -> S]
  PROVE  s \in Seq(S) /\ Len(s) = n
<1>1. s \in Seq(S)
  BY SeqDef, Zenon
<1>2. DOMAIN s = 1..Len(s) /\ Len(s) \in Nat /\ DOMAIN s = 1..n
  BY <1>1, LenProperties
<1>3. \A m \in Nat : 1..m = 1..n => m = n
  <2> SUFFICES ASSUME NEW m \in Nat, 1..m = 1..n PROVE m = n
    OBVIOUS
  <2>1. (n = 0 \/ n \in 1..m) /\ (m = 0 \/ m \in 1..n)
    OBVIOUS
  <2> QED
    BY <2>1
<1> QED
  BY <1>1, <1>2, <1>3, Zenon

\* The payload of a frame: the two bytes that say what it answers, and the data.
LEMMA PayloadShape ==
  ASSUME NEW c \in Calls, NEW data \in DataFor(c)
  PROVE  /\ data \in Seq(Octet) /\ Len(data) \in 0..17
         /\ PayloadOf(c, data) \in Seq(Octet)
         /\ Len(PayloadOf(c, data)) = Len(data) + 2
         /\ \A i \in 1..Len(data) : PayloadOf(c, data)[i + 2] = data[i]
<1>1. c.cmd \in {74, 64, 20} /\ c.op \in {"list", "auth", "read", "wakeup"}
      /\ (c.op = "read" => c.block \in Blocks)
  BY CallShape
<1>2. data \in Seq(Octet) /\ Len(data) \in 0..17
  <2>1. CASE c.op = "wakeup"
    <3>1. data = <<>>
      BY <2>1 DEF DataFor
    <3> QED
      BY <3>1
  <2>2. CASE c.op = "list"
    <3>3. Uid \in Seq(Octet) /\ Len(Uid) \in {4, 7}
      BY Pn532Assumption DEF Octet
    <3> DEFINE head == <<1, 1, 0, 4, 8, Len(Uid)>>
    <3>1. head \in Seq(Octet) /\ Len(head) = 6
      <4>1. 0 \in Octet /\ 1 \in Octet /\ 4 \in Octet /\ 7 \in Octet /\ 8 \in Octet
        BY DEF Octet
      <4>2. Len(Uid) \in Octet
        BY <3>3, <4>1
      <4> DEFINE size == Len(Uid)
      <4> HIDE DEF size
      <4>3. <<1, 1, 0, 4, 8, size>> \in Seq(Octet) /\ Len(<<1, 1, 0, 4, 8, size>>) = 6
        BY <4>1, <4>2 DEF size
      <4> QED
        BY <4>3 DEF size
    <3>2. data = head \o Uid
      BY <2>2 DEF DataFor, Target
    <3> HIDE DEF head
    <3>4. head \o Uid \in Seq(Octet) /\ Len(head \o Uid) = Len(head) + Len(Uid)
      BY <3>1, <3>3, ConcatProperties
    <3>5. Len(data) \in 0..17
      <4>1. \A n \in {4, 7} : 6 + n \in 0..17
        OBVIOUS
      <4> QED
        BY <3>1, <3>2, <3>3, <3>4, <4>1, Zenon
    <3> QED
      BY <3>2, <3>4, <3>5, Zenon
  <2>3. CASE c.op = "auth"
    <3>1. data = <<0>> \/ data = <<20>>
      BY <2>3 DEF DataFor, AuthError
    <3>2. /\ <<0>> \in Seq(Octet) /\ <<20>> \in Seq(Octet)
          /\ Len(<<0>>) = 1 /\ Len(<<20>>) = 1 /\ 1 \in 0..17
      BY DEF Octet
    <3> QED
      BY <3>1, <3>2, Zenon
  <2>4. CASE c.op = "read"
    <3>1. CASE data = <<AuthError>>
      <4>1. 20 \in Octet
        BY DEF Octet
      <4> QED
        BY <3>1, <4>1 DEF AuthError
    <3>2. CASE data = <<0>> \o Block[c.block]
      <4>1. Block[c.block] \in [1..16 -> Octet]
        BY <1>1, <2>4, Pn532Assumption DEF Blocks, Octet
      <4>2. Block[c.block] \in Seq(Octet) /\ Len(Block[c.block]) = 16
        <5>1. 16 \in Nat
          OBVIOUS
        <5>2. \A s \in [1..16 -> Octet] : s \in Seq(Octet) /\ Len(s) = 16
          BY <5>1, FunctionIsSeq
        <5> QED
          BY <4>1, <5>2, Zenon
      <4>3. <<0>> \in Seq(Octet) /\ Len(<<0>>) = 1
        BY DEF Octet
      <4>4. /\ <<0>> \o Block[c.block] \in Seq(Octet)
            /\ Len(<<0>> \o Block[c.block]) = Len(<<0>>) + Len(Block[c.block])
        BY <4>2, <4>3, ConcatProperties
      <4>5. 1 + 16 \in 0..17
        OBVIOUS
      <4> QED
        BY <3>2, <4>2, <4>3, <4>4, <4>5, Zenon
    <3> QED
      BY <2>4, <3>1, <3>2 DEF DataFor
  <2> QED
    BY <1>1, <2>1, <2>2, <2>3, <2>4
<1>3. LET head == <<Pn532ToHost, c.cmd + 1>>
      IN  head \in Seq(Octet) /\ Len(head) = 2
  BY <1>1 DEF Pn532ToHost, Octet
<1> QED
  BY <1>2, <1>3, ConcatProperties DEF PayloadOf

\* The frame of a payload, as far as the decoder looks at it.
LEMMA FrameShape ==
  ASSUME NEW c \in Calls, NEW p \in PayloadsFor(c)
  PROVE  /\ p \in Seq(Octet) /\ Len(p) \in 2..19
         /\ Frame(p) \in Seq(Values) /\ Len(Frame(p)) = Len(p) + 7
         /\ Frame(p)[1] = 0 /\ Frame(p)[2] = 0 /\ Frame(p)[3] = 255 /\ Frame(p)[4] = Len(p)
         /\ \A i \in 1..Len(p) : Frame(p)[i + 5] = p[i]
<1>1. p \in Seq(Octet) /\ Len(p) \in 2..19
  <2>1. PICK data \in DataFor(c) : p = PayloadOf(c, data)
    BY DEF PayloadsFor
  <2>2. /\ Len(data) \in 0..17 /\ PayloadOf(c, data) \in Seq(Octet)
        /\ Len(PayloadOf(c, data)) = Len(data) + 2
    BY PayloadShape
  <2>3. \A n \in 0..17 : n + 2 \in 2..19
    OBVIOUS
  <2> QED
    BY <2>1, <2>2, <2>3, Zenon
<1>2. Negated(Sum(p)) \in Values
  BY DEF Values
<1>3. p \in Seq(Values)
  BY <1>1, SeqMonotonic DEF Values
<1> DEFINE head == <<0, 0, 255, Len(p), Negated(Len(p))>>
           tail == <<Negated(Sum(p)), 0>>
<1>4. Negated(Len(p)) \in 0..255
  <2>1. \A n \in 2..19 : (256 - n) % 256 \in 0..255
    OBVIOUS
  <2> QED
    BY <1>1, <2>1 DEF Negated
<1>5. head \in Seq(Values) /\ Len(head) = 5
  <2>1. Octet \subseteq Values
    BY DEF Values
  <2>2. 0 \in Octet /\ 255 \in Octet /\ Len(p) \in Octet /\ Negated(Len(p)) \in Octet
    <3>1. 0 \in Octet /\ 255 \in Octet /\ \A n \in 2..19 : n \in Octet
      BY DEF Octet
    <3>2. Len(p) \in Octet
      BY <1>1, <3>1
    <3>3. Negated(Len(p)) \in Octet
      BY <1>4 DEF Octet
    <3> QED
      BY <3>1, <3>2, <3>3
  <2>3. 0 \in Values /\ 255 \in Values /\ Len(p) \in Values /\ Negated(Len(p)) \in Values
    BY <2>1, <2>2, Zenon
  <2> QED
    BY <2>3
<1>6. tail \in Seq(Values) /\ Len(tail) = 2
  <2>1. 0 \in Values
    BY DEF Values, Octet
  <2> QED
    BY <1>2, <2>1
<1>7. /\ head \o p \in Seq(Values) /\ Len(head \o p) = 5 + Len(p)
      /\ \A i \in 1..5 + Len(p) : (head \o p)[i] = IF i <= 5 THEN head[i] ELSE p[i - 5]
  BY <1>3, <1>5, ConcatProperties
<1>8. /\ Frame(p) \in Seq(Values) /\ Len(Frame(p)) = Len(p) + 7
      /\ \A i \in 1..5 + Len(p) : Frame(p)[i] = (head \o p)[i]
  <2>1. Frame(p) = (head \o p) \o tail
    BY DEF Frame
  <2> HIDE DEF head, tail
  <2> QED
    <3> DEFINE front == head \o p
    <3> HIDE DEF front
    <3>1. /\ front \in Seq(Values) /\ Len(front) = 5 + Len(p)
          /\ tail \in Seq(Values) /\ Len(tail) = 2 /\ Len(p) \in Nat
      BY <1>1, <1>6, <1>7 DEF front
    <3>2. /\ front \o tail \in Seq(Values) /\ Len(front \o tail) = Len(front) + Len(tail)
          /\ \A i \in 1..Len(front) + Len(tail) :
               (front \o tail)[i] = IF i <= Len(front) THEN front[i] ELSE tail[i - Len(front)]
      <4>1. \A s, t \in Seq(Values) :
              /\ s \o t \in Seq(Values) /\ Len(s \o t) = Len(s) + Len(t)
              /\ \A i \in 1..Len(s) + Len(t) :
                   (s \o t)[i] = IF i <= Len(s) THEN s[i] ELSE t[i - Len(s)]
        BY ConcatProperties, SMT
      <4> QED
        BY <3>1, <4>1, Zenon
    <3>3. /\ Len(front \o tail) = Len(p) + 7
          /\ \A i \in 1..5 + Len(p) : (front \o tail)[i] = front[i]
      BY <3>1, <3>2
    <3> QED
      BY <2>1, <3>2, <3>3 DEF front
<1>9. \A i \in 1..5 : Frame(p)[i] = head[i]
  <2> HIDE DEF head
  <2> QED
    BY <1>1, <1>7, <1>8
<1>10. ASSUME NEW i \in 1..Len(p) PROVE Frame(p)[i + 5] = p[i]
  <2> HIDE DEF head
  <2>1. i + 5 \in 1..(5 + Len(p)) /\ ~(i + 5 <= 5) /\ (i + 5) - 5 = i
    BY <1>1
  <2> QED
    BY <1>7, <1>8, <2>1
<1>11. head[1] = 0 /\ head[2] = 0 /\ head[3] = 255 /\ head[4] = Len(p)
  OBVIOUS
<1>12. \A i \in 1..5 : Frame(p)[i] = <<0, 0, 255, Len(p), Negated(Len(p))>>[i]
  BY <1>9
<1>13. Frame(p)[1] = 0 /\ Frame(p)[2] = 0 /\ Frame(p)[3] = 255 /\ Frame(p)[4] = Len(p)
  BY <1>12
<1> QED
  BY <1>1, <1>8, <1>10, <1>13, Zenon

(***************************************************************************)
(* Induction: < is well founded on Nat, so a set that holds 0 and, with a  *)
(* number, the next one holds them all.                                    *)
(***************************************************************************)

LEMMA AllNumbers ==
  ASSUME NEW S \in SUBSET Nat, 0 \in S, \A n \in S : n + 1 \in S
  PROVE  S = Nat
<1> DEFINE R == OpToRel(<, Nat)
           T == Nat \ S
<1> SUFFICES ASSUME T # {} PROVE FALSE
  OBVIOUS
<1>1. IsWellFoundedOn(R, Nat) /\ \A x, y \in Nat : <<y, x>> \in R <=> y < x
  BY NatLessThanWellFounded DEF OpToRel
<1> HIDE DEF R
<1>2. PICK k \in T : \A m \in T : <<m, k>> \notin R
  <2>1. T \subseteq Nat
    OBVIOUS
  <2> QED
    BY <1>1, <2>1, WFMin
<1>3. \A m \in T : ~(m < k)
  BY <1>1, <1>2
<1>4. k # 0 /\ k - 1 \in Nat
  BY <1>2
<1>5. k - 1 \in S
  BY <1>3, <1>4
<1> QED
  BY <1>2, <1>4, <1>5

(***************************************************************************)
(* The checksum and the decoder, for frames of every payload.              *)
(***************************************************************************)

Steps(bytes, f, n) == IF n = 0 THEN 0 ELSE (f[n - 1] + bytes[n]) % 256

\* The function that Sum is defined by exists.
LEMMA StepsUpTo ==
  ASSUME NEW bytes, NEW k \in Nat
  PROVE  \E f : f = [n \in 0..k |-> Steps(bytes, f, n)]
<1> DEFINE S == {m \in Nat : \E f : f = [n \in 0..m |-> Steps(bytes, f, n)]}
<1>1. 0 \in S
  <2> DEFINE f == [n \in 0..0 |-> 0]
  <2>1. \A n \in 0..0 : Steps(bytes, f, n) = 0
    BY DEF Steps
  <2>2. f = [n \in 0..0 |-> Steps(bytes, f, n)]
    BY <2>1
  <2> QED
    BY <2>2
<1>2. ASSUME NEW m \in S PROVE m + 1 \in S
  <2>1. PICK f : f = [n \in 0..m |-> Steps(bytes, f, n)]
    OBVIOUS
  <2> DEFINE g == [n \in 0..(m + 1) |-> IF n <= m THEN f[n] ELSE Steps(bytes, f, n)]
  <2>2. \A n \in 0..m : g[n] = f[n] /\ f[n] = Steps(bytes, f, n)
    <3>1. \A n \in 0..m : n \in 0..(m + 1) /\ n <= m
      OBVIOUS
    <3> QED
      BY <2>1, <3>1
  <2>3. \A n \in 0..(m + 1) : g[n] = Steps(bytes, f, n)
    <3>1. \A n \in 0..(m + 1) : n <= m => n \in 0..m
      OBVIOUS
    <3> QED
      BY <2>2, <3>1
  <2> HIDE DEF g
  <2>4. \A n \in 0..(m + 1) : Steps(bytes, g, n) = Steps(bytes, f, n)
    <3>1. \A n \in 0..(m + 1) : n # 0 => n - 1 \in 0..m
      OBVIOUS
    <3> QED
      BY <2>2, <3>1 DEF Steps
  <2>5. g = [n \in 0..(m + 1) |-> Steps(bytes, g, n)]
    <3>1. g = [n \in 0..(m + 1) |-> g[n]]
      BY DEF g
    <3> QED
      BY <2>3, <2>4, <3>1
  <2> QED
    BY <2>5
<1>3. S = Nat
  <2>1. S \in SUBSET Nat
    OBVIOUS
  <2> HIDE DEF S
  <2> QED
    BY <1>1, <1>2, <2>1, AllNumbers
<1> QED
  BY <1>3

\* The sums so far of some bytes: each is an octet and follows from the one before.
Sums(s, f) ==
  /\ \A n \in 0..Len(s) : f[n] \in Octet
  /\ f[0] = 0 /\ \A n \in 0..Len(s) : n # 0 => f[n] = (f[n - 1] + s[n]) % 256

LEMMA SumIs ==
  ASSUME NEW s \in Seq(Octet)
  PROVE  \E f : Sums(s, f) /\ Sum(s) = f[Len(s)]
<1> DEFINE f == CHOOSE h : h = [n \in 0..Len(s) |-> Steps(s, h, n)]
<1>1. Sum(s) = f[Len(s)]
  BY DEF Sum, Steps
<1>2. Len(s) \in Nat /\ \A n \in 1..Len(s) : s[n] \in Octet
  BY LenProperties, ElementOfSeq
<1>3. f = [n \in 0..Len(s) |-> Steps(s, f, n)]
  BY <1>2, StepsUpTo, Zenon
<1> HIDE DEF f
<1>4. f[0] = 0 /\ \A n \in 0..Len(s) : n # 0 => f[n] = (f[n - 1] + s[n]) % 256
  <2>1. \A n \in 0..Len(s) : f[n] = Steps(s, f, n)
    BY <1>3
  <2>2. 0 \in 0..Len(s)
    BY <1>2
  <2> QED
    BY <2>1, <2>2 DEF Steps
<1> DEFINE S == {n \in Nat : n <= Len(s) => f[n] \in Octet}
<1>5. 0 \in S
  BY <1>4 DEF Octet
<1>6. ASSUME NEW n \in S PROVE n + 1 \in S
  <2> SUFFICES ASSUME n + 1 <= Len(s) PROVE f[n + 1] \in Octet
    OBVIOUS
  <2>1. n \in Nat /\ n + 1 \in 1..Len(s) /\ n + 1 \in 0..Len(s) /\ n + 1 # 0 /\ (n + 1) - 1 = n
    BY <1>2
  <2>2. f[n] \in 0..255 /\ s[n + 1] \in 0..255
    BY <1>2, <2>1 DEF Octet
  <2>3. f[n + 1] = (f[n] + s[n + 1]) % 256
    BY <1>4, <2>1
  <2>4. \A x, y \in 0..255 : (x + y) % 256 \in 0..255
    OBVIOUS
  <2>5. (f[n] + s[n + 1]) % 256 \in 0..255
    BY <2>2, <2>4, Zenon
  <2> QED
    BY <2>3, <2>5, Zenon DEF Octet
<1>7. S = Nat
  <2>1. S \in SUBSET Nat
    OBVIOUS
  <2> HIDE DEF S
  <2> QED
    BY <1>5, <1>6, <2>1, AllNumbers
<1>8. \A n \in 0..Len(s) : f[n] \in Octet
  BY <1>2, <1>7
<1> QED
  BY <1>1, <1>4, <1>8 DEF Sums

\* One more byte is added to the sum.
LEMMA SumAppends ==
  ASSUME NEW s \in Seq(Octet), NEW b \in Octet
  PROVE  Sum(s) \in Octet /\ Sum(Append(s, b)) = (Sum(s) + b) % 256
<1> DEFINE t == Append(s, b)
<1>1. /\ Len(s) \in Nat /\ t \in Seq(Octet) /\ Len(t) = Len(s) + 1
      /\ t[Len(s) + 1] = b /\ \A n \in 1..Len(s) : t[n] = s[n]
  BY LenProperties, AppendProperties
<1> HIDE DEF t
<1>2. PICK f : Sums(s, f) /\ Sum(s) = f[Len(s)]
  BY SumIs
<1>3. PICK g : Sums(t, g) /\ Sum(t) = g[Len(t)]
  BY <1>1, SumIs
<1> DEFINE S == {n \in Nat : n <= Len(s) => g[n] = f[n]}
<1>4. 0 \in S
  BY <1>2, <1>3 DEF Sums
<1>5. ASSUME NEW n \in S PROVE n + 1 \in S
  <2> SUFFICES ASSUME n + 1 <= Len(s) PROVE g[n + 1] = f[n + 1]
    OBVIOUS
  <2>1. /\ n \in Nat /\ n + 1 \in 1..Len(s) /\ n + 1 \in 0..Len(s) /\ n + 1 \in 0..Len(t)
        /\ n + 1 # 0 /\ (n + 1) - 1 = n
    BY <1>1
  <2>2. g[n] = f[n] /\ t[n + 1] = s[n + 1]
    BY <1>1, <2>1
  <2>3. f[n + 1] = (f[n] + s[n + 1]) % 256 /\ g[n + 1] = (g[n] + t[n + 1]) % 256
    <3>1. f[n + 1] = (f[(n + 1) - 1] + s[n + 1]) % 256
      BY <1>2, <2>1, Zenon DEF Sums
    <3>2. g[n + 1] = (g[(n + 1) - 1] + t[n + 1]) % 256
      BY <1>3, <2>1, Zenon DEF Sums
    <3> QED
      BY <2>1, <3>1, <3>2, Zenon
  <2> QED
    BY <2>2, <2>3, Zenon
<1>6. S = Nat
  <2>1. S \in SUBSET Nat
    OBVIOUS
  <2> HIDE DEF S
  <2> QED
    BY <1>4, <1>5, <2>1, AllNumbers
<1>7. g[Len(s)] = f[Len(s)] /\ f[Len(s)] \in Octet
  BY <1>1, <1>2, <1>6 DEF Sums
<1>8. g[Len(t)] = (g[Len(s)] + b) % 256
  <2>1. Len(t) \in 0..Len(t) /\ Len(t) # 0 /\ Len(t) - 1 = Len(s)
    BY <1>1
  <2>2. g[Len(t)] = (g[Len(t) - 1] + t[Len(t)]) % 256
    BY <1>3, <2>1, Zenon DEF Sums
  <2> QED
    BY <1>1, <2>1, <2>2, Zenon
<1> QED
  BY <1>2, <1>3, <1>7, <1>8, Zenon DEF t

\* What uint8_t makes of the sum of two octets.
LEMMA AddOctets ==
  \A x, y \in Octet : (x + y) % 256 = IF x + y < 256 THEN x + y ELSE x + y - 256
BY DEF Octet

LEMMA OctetsCancel ==
  \A x, y, z \in Octet : (x # y => (x + z) % 256 # (y + z) % 256 /\ (z + x) % 256 # (z + y) % 256)
<1> SUFFICES ASSUME NEW x \in Octet, NEW y \in Octet, NEW z \in Octet, x # y
             PROVE  (x + z) % 256 # (y + z) % 256 /\ (z + x) % 256 # (z + y) % 256
  OBVIOUS
<1> DEFINE sum(v, w) == (v + w) % 256
<1>1. /\ sum(x, z) = IF x + z < 256 THEN x + z ELSE x + z - 256
      /\ sum(y, z) = IF y + z < 256 THEN y + z ELSE y + z - 256
      /\ sum(z, x) = IF z + x < 256 THEN z + x ELSE z + x - 256
      /\ sum(z, y) = IF z + y < 256 THEN z + y ELSE z + y - 256
  BY AddOctets
<1>2. sum(x, z) # sum(y, z) /\ sum(z, x) # sum(z, y)
  <2> HIDE DEF sum
  <2> QED
    BY <1>1 DEF Octet
<1> QED
  BY <1>2

\* Another byte in one place is another sum.
LEMMA SumTells ==
  ASSUME NEW s \in Seq(Octet), NEW t \in Seq(Octet), Len(t) = Len(s), NEW i \in 1..Len(s),
         t[i] # s[i], \A n \in 1..Len(s) : n # i => t[n] = s[n]
  PROVE  Sum(t) # Sum(s)
<1>1. /\ Len(s) \in Nat /\ i \in Nat /\ i <= Len(s)
      /\ \A n \in 1..Len(s) : s[n] \in Octet /\ t[n] \in Octet
  <2>1. \A n \in 1..Len(s) : s[n] \in Octet
    BY ElementOfSeq
  <2>2. \A n \in 1..Len(t) : t[n] \in Octet
    BY ElementOfSeq
  <2>3. Len(s) \in Nat
    BY LenProperties
  <2> QED
    BY <2>1, <2>2, <2>3
<1>2. PICK f : Sums(s, f) /\ Sum(s) = f[Len(s)]
  BY SumIs
<1>3. PICK g : Sums(t, g) /\ Sum(t) = g[Len(t)]
  BY SumIs
<1> DEFINE S == {n \in Nat : n <= Len(s) => IF n < i THEN g[n] = f[n] ELSE g[n] # f[n]}
<1>4. 0 \in S
  BY <1>1, <1>2, <1>3 DEF Sums
<1>5. ASSUME NEW n \in S PROVE n + 1 \in S
  <2> SUFFICES ASSUME n + 1 <= Len(s)
               PROVE  IF n + 1 < i THEN g[n + 1] = f[n + 1] ELSE g[n + 1] # f[n + 1]
    OBVIOUS
  <2>1. /\ n \in Nat /\ n + 1 \in 1..Len(s) /\ n \in 0..Len(s) /\ n + 1 \in 0..Len(s)
        /\ n + 1 # 0 /\ (n + 1) - 1 = n
    BY <1>1
  <2>2. f[n + 1] = (f[n] + s[n + 1]) % 256 /\ g[n + 1] = (g[n] + t[n + 1]) % 256
    <3>1. f[n + 1] = (f[(n + 1) - 1] + s[n + 1]) % 256
      BY <1>2, <2>1, Zenon DEF Sums
    <3>2. g[n + 1] = (g[(n + 1) - 1] + t[n + 1]) % 256
      BY <1>3, <2>1, Zenon DEF Sums
    <3> QED
      BY <2>1, <3>1, <3>2, Zenon
  <2>3. f[n] \in Octet /\ g[n] \in Octet /\ s[n + 1] \in Octet /\ t[n + 1] \in Octet
    BY <1>1, <1>2, <1>3, <2>1 DEF Sums
  <2>4. IF n < i THEN g[n] = f[n] ELSE g[n] # f[n]
    BY <2>1
  <2> HIDE DEF S
  <2>5. CASE n + 1 = i
    <3>1. n < i /\ ~(n + 1 < i)
      BY <2>1, <2>5
    <3>2. t[n + 1] # s[n + 1] /\ g[n] = f[n]
      BY <2>4, <2>5, <3>1
    <3>3. g[n + 1] # f[n + 1]
      <4>1. (f[n] + t[n + 1]) % 256 # (f[n] + s[n + 1]) % 256
        BY <2>3, <3>2, OctetsCancel
      <4> QED
        BY <2>2, <3>2, <4>1
    <3> QED
      BY <3>1, <3>3
  <2>6. CASE n + 1 # i
    <3>1. t[n + 1] = s[n + 1] /\ (n < i <=> n + 1 < i)
      BY <1>1, <2>1, <2>6
    <3>2. g[n] # f[n] => g[n + 1] # f[n + 1]
      <4>1. g[n] # f[n] => (g[n] + s[n + 1]) % 256 # (f[n] + s[n + 1]) % 256
        BY <2>3, OctetsCancel
      <4> QED
        BY <2>2, <3>1, <4>1, Zenon
    <3>3. g[n] = f[n] => g[n + 1] = f[n + 1]
      BY <2>2, <3>1, Zenon
    <3> QED
      BY <2>4, <3>1, <3>2, <3>3
  <2> QED
    BY <2>5, <2>6
<1>6. S = Nat
  <2>1. S \in SUBSET Nat
    OBVIOUS
  <2> HIDE DEF S
  <2> QED
    BY <1>4, <1>5, <2>1, AllNumbers
<1>7. g[Len(s)] # f[Len(s)]
  BY <1>1, <1>6
<1> QED
  BY <1>2, <1>3, <1>7

\* The decoder finds a frame behind the i-th byte, the first that is not zero.
GoodAt(buff, i) ==
  /\ buff[i] = 255 /\ \A j \in 1..(i - 1) : buff[j] = 0
  /\ i + 2 <= Len(buff) /\ (buff[i + 1] + buff[i + 2]) % 256 = 0
  /\ i + 3 + buff[i + 1] <= Len(buff)
  /\ Sum(SubSeq(buff, i + 3, i + 3 + buff[i + 1])) = 0

LEMMA InFrame ==
  ASSUME NEW buff, NEW p
  PROVE  p \in FrameIn(buff) <=>
           \E i \in DOMAIN buff : GoodAt(buff, i) /\ p = SubSeq(buff, i + 3, i + 2 + buff[i + 1])
<1> DEFINE starts == {i \in DOMAIN buff : buff[i] # 0 /\ \A j \in 1..(i - 1) : buff[j] = 0}
           ok(i) == /\ buff[i] = 255 /\ i + 2 <= Len(buff)
                    /\ (buff[i + 1] + buff[i + 2]) % 256 = 0
                    /\ i + 3 + buff[i + 1] <= Len(buff)
                    /\ Sum(SubSeq(buff, i + 3, i + 3 + buff[i + 1])) = 0
           good == {i \in starts : ok(i)}
           body(i) == SubSeq(buff, i + 3, i + 2 + buff[i + 1])
<1>1. FrameIn(buff) = {body(i) : i \in good}
  BY Zenon DEF FrameIn
<1>2. \A i : i \in good <=> i \in DOMAIN buff /\ GoodAt(buff, i)
  <2>1. 255 # 0
    OBVIOUS
  <2>2. ASSUME NEW i \in good PROVE i \in DOMAIN buff /\ GoodAt(buff, i)
    BY Zenon DEF GoodAt
  <2>3. ASSUME NEW i \in DOMAIN buff, GoodAt(buff, i) PROVE i \in good
    BY <2>1, <2>3, Zenon DEF GoodAt
  <2> QED
    BY <2>2, <2>3, Zenon
<1> HIDE DEF good
<1>3. p \in FrameIn(buff) <=> \E i \in good : p = body(i)
  BY <1>1
<1> HIDE DEF body
<1>4. p \in FrameIn(buff) <=> \E i \in DOMAIN buff : GoodAt(buff, i) /\ p = body(i)
  BY <1>2, <1>3, Zenon
<1> QED
  BY <1>4 DEF body

LEMMA Joined ==
  \A s, t \in Seq(Octet) :
    /\ s \o t \in Seq(Octet) /\ Len(s \o t) = Len(s) + Len(t)
    /\ \A i \in 1..Len(s) + Len(t) : (s \o t)[i] = IF i <= Len(s) THEN s[i] ELSE t[i - Len(s)]
BY ConcatProperties, SMT

\* The bytes of a frame, for every payload whose length is a byte.
LEMMA FrameBytes ==
  ASSUME NEW p \in Seq(Octet), Len(p) <= 255
  PROVE  /\ Len(p) \in Octet /\ Negated(Len(p)) \in Octet /\ Negated(Sum(p)) \in Octet
         /\ (Len(p) + Negated(Len(p))) % 256 = 0 /\ (Sum(p) + Negated(Sum(p))) % 256 = 0
         /\ Frame(p) \in Seq(Octet) /\ Len(Frame(p)) = Len(p) + 7
         /\ Frame(p)[1] = 0 /\ Frame(p)[2] = 0 /\ Frame(p)[3] = 255
         /\ Frame(p)[4] = Len(p) /\ Frame(p)[5] = Negated(Len(p))
         /\ \A i \in 1..Len(p) : Frame(p)[i + 5] = p[i]
         /\ Frame(p)[Len(p) + 6] = Negated(Sum(p))
<1>1. Len(p) \in Octet /\ Sum(p) \in Octet
  <2>1. 0 \in Octet
    BY DEF Octet
  <2>2. Sum(p) \in Octet
    BY <2>1, SumAppends
  <2>3. Len(p) \in Nat
    BY LenProperties
  <2>4. \A n \in Nat : n <= 255 => n \in Octet
    BY DEF Octet
  <2> QED
    BY <2>2, <2>3, <2>4, Zenon
<1>2. \A n \in Octet : Negated(n) \in Octet /\ (n + Negated(n)) % 256 = 0
  BY DEF Octet, Negated
<1> DEFINE L == Len(p)
           NL == Negated(Len(p))
           NS == Negated(Sum(p))
           head == <<0, 0, 255, L, NL>>
           tail == <<NS, 0>>
<1>3. L \in Octet /\ NL \in Octet /\ NS \in Octet
  BY <1>1, <1>2
<1>4. Frame(p) = (head \o p) \o tail
  BY DEF Frame
<1> HIDE DEF L, NL, NS
<1>5. /\ head \in Seq(Octet) /\ Len(head) = 5
      /\ head[1] = 0 /\ head[2] = 0 /\ head[3] = 255 /\ head[4] = L /\ head[5] = NL
      /\ tail \in Seq(Octet) /\ Len(tail) = 2 /\ tail[1] = NS
  <2>1. 0 \in Octet /\ 255 \in Octet
    BY DEF Octet
  <2> QED
    BY <1>3, <2>1
<1> HIDE DEF head, tail
<1>6. /\ head \o p \in Seq(Octet) /\ Len(head \o p) = 5 + L
      /\ \A i \in 1..5 + L : (head \o p)[i] = IF i <= 5 THEN head[i] ELSE p[i - 5]
  <2>1. /\ head \o p \in Seq(Octet) /\ Len(head \o p) = Len(head) + Len(p)
        /\ \A i \in 1..Len(head) + Len(p) :
             (head \o p)[i] = IF i <= Len(head) THEN head[i] ELSE p[i - Len(head)]
    <3>1. head \in Seq(Octet) /\ p \in Seq(Octet)
      BY <1>5
    <3> QED
      BY <3>1, Joined, Zenon
  <2> QED
    BY <1>5, <2>1 DEF L
<1> DEFINE front == head \o p
<1> HIDE DEF front
<1>7. /\ front \o tail \in Seq(Octet) /\ Len(front \o tail) = Len(front) + 2
      /\ \A i \in 1..Len(front) + 2 :
           (front \o tail)[i] = IF i <= Len(front) THEN front[i] ELSE tail[i - Len(front)]
  <2>1. /\ front \o tail \in Seq(Octet) /\ Len(front \o tail) = Len(front) + Len(tail)
        /\ \A i \in 1..Len(front) + Len(tail) :
             (front \o tail)[i] = IF i <= Len(front) THEN front[i] ELSE tail[i - Len(front)]
    <3>1. front \in Seq(Octet) /\ tail \in Seq(Octet)
      BY <1>5, <1>6 DEF front
    <3> QED
      BY <3>1, Joined, Zenon
  <2> QED
    BY <1>5, <2>1
<1>8. L \in Nat /\ Len(front) = 5 + L /\ Frame(p) = front \o tail
  <2>1. L \in Nat
    BY <1>3 DEF Octet
  <2> QED
    BY <1>4, <1>6, <2>1, Zenon DEF front
<1>9. /\ Frame(p) \in Seq(Octet) /\ Len(Frame(p)) = L + 7
      /\ \A i \in 1..5 + L : Frame(p)[i] = IF i <= 5 THEN head[i] ELSE p[i - 5]
      /\ Frame(p)[L + 6] = tail[1]
  BY <1>6, <1>7, <1>8 DEF front
<1>10. \A i \in 1..5 : Frame(p)[i] = head[i]
  BY <1>8, <1>9
<1>11. \A i \in 1..L : Frame(p)[i + 5] = p[i]
  BY <1>8, <1>9
<1>12. /\ Frame(p)[1] = 0 /\ Frame(p)[2] = 0 /\ Frame(p)[3] = 255
       /\ Frame(p)[4] = L /\ Frame(p)[5] = NL /\ Frame(p)[L + 6] = NS
  BY <1>5, <1>9, <1>10
<1> QED
  <2>1. (Len(p) + Negated(Len(p))) % 256 = 0 /\ (Sum(p) + Negated(Sum(p))) % 256 = 0
    BY <1>1, <1>2, Zenon
  <2>2. Len(p) \in Octet /\ Negated(Len(p)) \in Octet /\ Negated(Sum(p)) \in Octet
    BY <1>1, <1>2, Zenon
  <2> QED
    BY <1>9, <1>11, <1>12, <2>1, <2>2, Zenon DEF L, NL, NS

\* What the decoder finds in bytes that begin like a frame (PN532_ReadFrame).
LEMMA FoundAtThree ==
  ASSUME NEW buff \in Seq(Octet), Len(buff) >= 7, buff[1] = 0, buff[2] = 0, buff[3] # 0,
         NEW i \in DOMAIN buff, GoodAt(buff, i)
  PROVE  i = 3
<1>1. DOMAIN buff = 1..Len(buff) /\ Len(buff) \in Nat
  BY LenProperties
<1>2. i \in Nat /\ i >= 1
  BY <1>1
<1>3. buff[i] = 255 /\ \A j \in 1..(i - 1) : buff[j] = 0
  BY DEF GoodAt
<1>4. ~(i > 3)
  BY <1>2, <1>3
<1>5. i # 1 /\ i # 2
  BY <1>3
<1> QED
  BY <1>2, <1>4, <1>5

\* Behind the fifth byte stand the payload and what makes the sum zero.
LEMMA FrameBody ==
  ASSUME NEW p \in Seq(Octet), Len(p) <= 255
  PROVE  /\ SubSeq(Frame(p), 6, 5 + Len(p)) = p
         /\ SubSeq(Frame(p), 6, 6 + Len(p)) = Append(p, Negated(Sum(p)))
         /\ Sum(Append(p, Negated(Sum(p)))) = 0
<1> DEFINE F == Frame(p)
           L == Len(p)
           NS == Negated(Sum(p))
<1>1. L \in Nat
  BY LenProperties
<1>2. /\ NS \in Octet /\ (Sum(p) + NS) % 256 = 0
      /\ F \in Seq(Octet) /\ Len(F) = L + 7
      /\ \A i \in 1..L : F[i + 5] = p[i]
      /\ F[L + 6] = NS
  BY FrameBytes
<1>3. SubSeq(F, 6, 5 + L) = p /\ SubSeq(F, 6, 6 + L) = Append(p, NS)
  <2> HIDE DEF F, NS
  <2>1. /\ SubSeq(F, 6, 5 + L) \in Seq(Octet) /\ Len(SubSeq(F, 6, 5 + L)) = L
        /\ \A i \in 1..L : SubSeq(F, 6, 5 + L)[i] = F[6 + i - 1]
    BY <1>1, <1>2, SubSeqProperties
  <2>2. /\ SubSeq(F, 6, 6 + L) \in Seq(Octet) /\ Len(SubSeq(F, 6, 6 + L)) = L + 1
        /\ \A i \in 1..(L + 1) : SubSeq(F, 6, 6 + L)[i] = F[6 + i - 1]
    BY <1>1, <1>2, SubSeqProperties
  <2>3. /\ Append(p, NS) \in Seq(Octet) /\ Len(Append(p, NS)) = L + 1
        /\ \A i \in 1..L : Append(p, NS)[i] = p[i]
        /\ Append(p, NS)[L + 1] = NS
    BY <1>2, AppendProperties
  <2>4. \A i \in 1..L : F[6 + i - 1] = p[i]
    BY <1>1, <1>2
  <2>5. F[6 + (L + 1) - 1] = NS
    BY <1>1, <1>2
  <2>6. \A i \in 1..(L + 1) : SubSeq(F, 6, 6 + L)[i] = Append(p, NS)[i]
    <3>1. \A i \in 1..(L + 1) : i \in 1..L \/ i = L + 1
      BY <1>1
    <3> QED
      BY <2>2, <2>3, <2>4, <2>5, <3>1
  <2>7. \A i \in 1..L : SubSeq(F, 6, 5 + L)[i] = p[i]
    BY <2>1, <2>4
  <2> QED
    BY <2>1, <2>2, <2>3, <2>6, <2>7, SeqEqual
<1>4. Sum(Append(p, NS)) = 0
  BY <1>2, SumAppends
<1> QED
  BY <1>3, <1>4

\* A frame as PN532_WriteFrame builds them is read back (PN532_ReadFrame): the
\* decoder finds its payload and no other, whatever the payload is.  At 255 bytes
\* the checksum loop of the code would not end.
THEOREM FrameDecodes == \A p \in Seq(Octet) : Len(p) <= 254 => FrameIn(Frame(p)) = {p}
<1> SUFFICES ASSUME NEW p \in Seq(Octet), Len(p) <= 254 PROVE FrameIn(Frame(p)) = {p}
  OBVIOUS
<1> DEFINE F == Frame(p)
           L == Len(p)
<1>1. L \in Nat /\ L <= 255
  BY LenProperties
<1>2. /\ (L + Negated(L)) % 256 = 0
      /\ F \in Seq(Octet) /\ Len(F) = L + 7
      /\ F[1] = 0 /\ F[2] = 0 /\ F[3] = 255 /\ F[4] = L /\ F[5] = Negated(L)
  BY <1>1, FrameBytes
<1>3. SubSeq(F, 6, 5 + L) = p /\ Sum(SubSeq(F, 6, 6 + L)) = 0
  BY <1>1, FrameBody
<1> HIDE DEF F
<1>4. GoodAt(F, 3) /\ 3 \in DOMAIN F
  <2>1. \A j \in 1..(3 - 1) : F[j] = 0
    BY <1>2
  <2>2. 3 + 1 = 4 /\ 3 + 2 = 5 /\ 3 + 3 = 6 /\ DOMAIN F = 1..Len(F)
    BY <1>2
  <2> QED
    BY <1>1, <1>2, <1>3, <2>1, <2>2 DEF GoodAt
<1>5. ASSUME NEW q PROVE q \in FrameIn(F) <=> q = SubSeq(F, 3 + 3, 3 + 2 + F[3 + 1])
  <2>1. \A i \in DOMAIN F : GoodAt(F, i) => i = 3
    <3>1. Len(F) >= 7 /\ F[3] # 0
      BY <1>1, <1>2
    <3> QED
      BY <1>2, <3>1, FoundAtThree
  <2> QED
    BY <1>4, <2>1, InFrame
<1>6. SubSeq(F, 3 + 3, 3 + 2 + F[3 + 1]) = p
  <2>1. 3 + 3 = 6 /\ 3 + 2 = 5 /\ 3 + 1 = 4
    OBVIOUS
  <2> QED
    BY <1>2, <1>3, <2>1, Zenon
<1> QED
  BY <1>5, <1>6 DEF F

\* How long the payloads of the chip are: at least the two bytes that
\* PN532_CallFunction looks at, and not so long that the checksum loop never ends.
Lengths == 2..254

LEMMA LengthsAre ==
  \A n \in Lengths : n \in Nat /\ n \in Octet /\ n <= 255 /\ n <= 254
BY DEF Lengths, Octet

\* Nothing is found in bytes that do not begin like a frame.
LEMMA WrongStart ==
  ASSUME NEW G, NEW L \in Lengths, NEW i \in Nat \ {0}, GoodAt(G, i), G[4] = L,
         \/ G[1] # 0 /\ G[2] = 0 /\ G[3] = 255
         \/ G[1] = 0 /\ G[2] # 0 /\ G[3] = 255
         \/ G[1] = 0 /\ G[2] = 0 /\ G[3] # 255
  PROVE  FALSE
<1>1. G[i] = 255 /\ (\A k \in 1..(i - 1) : G[k] = 0) /\ (G[i + 1] + G[i + 2]) % 256 = 0
  BY DEF GoodAt
<1>2. ~(i > 4)
  <2>1. L # 0
    BY DEF Lengths
  <2>2. i > 4 => 4 \in 1..(i - 1)
    OBVIOUS
  <2> QED
    BY <1>1, <2>1, <2>2
<1>3. i \in {1, 2, 3, 4} /\ 0 # 255 /\ L # 255
  BY <1>2 DEF Lengths
<1>4. CASE i = 1
  <2>1. G[1 + 1] = 0 /\ G[1 + 2] = 255
    BY <1>1, <1>4
  <2> QED
    BY <1>1, <1>4, <2>1
<1>5. CASE i = 2
  <2>1. (255 + L) % 256 = 0
    <3>1. G[2 + 1] = 255 /\ G[2 + 2] = L
      BY <1>1, <1>5
    <3> QED
      BY <1>1, <1>5, <3>1, Zenon
  <2>2. \A n \in 2..254 : (255 + n) % 256 # 0
    OBVIOUS
  <2> QED
    BY <2>1, <2>2 DEF Lengths
<1>6. CASE i \in {3, 4}
  BY <1>1, <1>3, <1>6
<1> QED
  BY <1>3, <1>4, <1>5, <1>6

LEMMA RightStart ==
  ASSUME NEW F, NEW G, NEW L \in Lengths, F[1] = 0, F[2] = 0, F[3] = 255, F[4] = L,
         NEW j \in Nat, G[j] # F[j], \A k \in {1, 2, 3, 4} : k # j => G[k] = F[k],
         NEW i \in Nat \ {0}, GoodAt(G, i)
  PROVE  j \notin {1, 2, 3}
<1>1. j # 1
  <2> SUFFICES ASSUME j = 1 PROVE FALSE
    OBVIOUS
  <2>1. G[1] # 0 /\ G[2] = 0 /\ G[3] = 255 /\ G[4] = L
    OBVIOUS
  <2> QED
    BY <2>1, WrongStart
<1>2. j # 2
  <2> SUFFICES ASSUME j = 2 PROVE FALSE
    OBVIOUS
  <2>1. G[1] = 0 /\ G[2] # 0 /\ G[3] = 255 /\ G[4] = L
    OBVIOUS
  <2> QED
    BY <2>1, WrongStart
<1>3. j # 3
  <2> SUFFICES ASSUME j = 3 PROVE FALSE
    OBVIOUS
  <2>1. G[1] = 0 /\ G[2] = 0 /\ G[3] # 255 /\ G[4] = L
    OBVIOUS
  <2> QED
    BY <2>1, WrongStart
<1> QED
  BY <1>1, <1>2, <1>3

\* A length goes with one checksum of its own.
LEMMA LengthsPair ==
  \A x, y, u, v \in Octet : (x + y) % 256 = (u + v) % 256 => (x = u <=> y = v)
<1> SUFFICES ASSUME NEW x \in Octet, NEW y \in Octet, NEW u \in Octet, NEW v \in Octet,
                    (x + y) % 256 = (u + v) % 256
             PROVE  x = u <=> y = v
  OBVIOUS
<1>1. x # u => (x + v) % 256 # (u + v) % 256
  BY OctetsCancel
<1>2. y # v => (x + y) % 256 # (x + v) % 256
  BY OctetsCancel
<1> QED
  BY <1>1, <1>2

\* The payload and its checksum, as SubSeq cuts them out of a frame.
LEMMA CutOut ==
  ASSUME NEW F \in Seq(Octet), NEW L \in Nat, Len(F) = L + 7, NEW n \in {L, L + 1}
  PROVE  /\ SubSeq(F, 6, 5 + n) \in Seq(Octet) /\ Len(SubSeq(F, 6, 5 + n)) = n
         /\ \A k \in 1..n : SubSeq(F, 6, 5 + n)[k] = F[k + 5]
<1>1. \A k \in 6..(5 + n) : F[k] \in Octet
  <2>1. \A k \in 6..(5 + n) : k \in 1..Len(F)
    OBVIOUS
  <2> QED
    BY <2>1, ElementOfSeq
<1>2. /\ 6 \in Int /\ 5 + n \in Int /\ (5 + n) - 6 + 1 = n
      /\ (IF 6 <= 5 + n THEN (5 + n) - 6 + 1 ELSE 0) = n
      /\ \A k \in 1..n : 6 + k - 1 = k + 5
  OBVIOUS
<1>3. /\ SubSeq(F, 6, 5 + n) \in Seq(Octet)
      /\ Len(SubSeq(F, 6, 5 + n)) = IF 6 <= 5 + n THEN (5 + n) - 6 + 1 ELSE 0
      /\ \A k \in 1..(5 + n) - 6 + 1 : SubSeq(F, 6, 5 + n)[k] = F[6 + k - 1]
  BY <1>1, <1>2, SubSeqProperties
<1> QED
  BY <1>2, <1>3

LEMMA SameBody ==
  ASSUME NEW F \in Seq(Octet), NEW G \in Seq(Octet), NEW L \in Nat,
         Len(F) = L + 7, Len(G) = L + 7, \A k \in 6..(L + 5) : G[k] = F[k]
  PROVE  SubSeq(G, 6, 5 + L) = SubSeq(F, 6, 5 + L)
<1> DEFINE s == SubSeq(F, 6, 5 + L)
           t == SubSeq(G, 6, 5 + L)
<1>1. /\ s \in Seq(Octet) /\ Len(s) = L /\ \A k \in 1..L : s[k] = F[k + 5]
      /\ t \in Seq(Octet) /\ Len(t) = L /\ \A k \in 1..L : t[k] = G[k + 5]
  BY CutOut
<1> HIDE DEF s, t
<1>2. \A k \in 1..L : k + 5 \in 6..(L + 5)
  OBVIOUS
<1>3. \A k \in 1..L : s[k] = t[k]
  BY <1>1, <1>2
<1>4. s = t
  BY <1>1, <1>3, SeqEqual
<1> QED
  BY <1>4 DEF s, t

LEMMA OtherBody ==
  ASSUME NEW F \in Seq(Octet), NEW G \in Seq(Octet), NEW L \in Nat,
         Len(F) = L + 7, Len(G) = L + 7, NEW j \in 6..(L + 6), G[j] # F[j],
         \A k \in 6..(L + 6) : k # j => G[k] = F[k]
  PROVE  Sum(SubSeq(G, 6, 6 + L)) # Sum(SubSeq(F, 6, 6 + L))
<1> DEFINE s == SubSeq(F, 6, 5 + (L + 1))
           t == SubSeq(G, 6, 5 + (L + 1))
<1>1. /\ s \in Seq(Octet) /\ Len(s) = L + 1 /\ \A k \in 1..L + 1 : s[k] = F[k + 5]
      /\ t \in Seq(Octet) /\ Len(t) = L + 1 /\ \A k \in 1..L + 1 : t[k] = G[k + 5]
  BY CutOut
<1> HIDE DEF s, t
<1>2. /\ j - 5 \in 1..L + 1 /\ (j - 5) + 5 = j
      /\ \A k \in 1..L + 1 : k + 5 \in 6..(L + 6) /\ (k # j - 5 => k + 5 # j)
  OBVIOUS
<1>3. t[j - 5] # s[j - 5] /\ \A k \in 1..L + 1 : k # j - 5 => t[k] = s[k]
  BY <1>1, <1>2
<1>4. Sum(t) # Sum(s)
  <2>1. /\ Len(t) = Len(s) /\ j - 5 \in 1..Len(s)
        /\ \A k \in 1..Len(s) : k # j - 5 => t[k] = s[k]
    BY <1>1, <1>2, <1>3, Zenon
  <2> QED
    BY <1>1, <1>3, <2>1, SumTells, Zenon
<1>5. 5 + (L + 1) = 6 + L
  OBVIOUS
<1> QED
  BY <1>4, <1>5 DEF s, t

\* G is the frame F of a payload of length L, with another byte in place j.
Altered(F, G, L, j) ==
  /\ L \in Lengths /\ Negated(L) \in Octet /\ (L + Negated(L)) % 256 = 0
  /\ F \in Seq(Octet) /\ Len(F) = L + 7 /\ Sum(SubSeq(F, 6, 6 + L)) = 0
  /\ F[1] = 0 /\ F[2] = 0 /\ F[3] = 255 /\ F[4] = L /\ F[5] = Negated(L)
  /\ G \in Seq(Octet) /\ Len(G) = L + 7
  /\ j \in 1..(L + 7) /\ G[j] # F[j] /\ \A k \in 1..(L + 7) : k # j => G[k] = F[k]

\* Such a frame is refused or gives what it would have given.
LEMMA OneOff ==
  ASSUME NEW F, NEW G, NEW L, NEW j, Altered(F, G, L, j), NEW i \in DOMAIN G, GoodAt(G, i)
  PROVE  SubSeq(G, i + 3, i + 2 + G[i + 1]) = SubSeq(F, 6, 5 + L)
<1>1. /\ L \in Lengths /\ Negated(L) \in Octet /\ (L + Negated(L)) % 256 = 0
      /\ F[1] = 0 /\ F[2] = 0 /\ F[3] = 255 /\ F[4] = L /\ F[5] = Negated(L)
  BY Zenon DEF Altered
<1>2. /\ F \in Seq(Octet) /\ Len(F) = L + 7 /\ Sum(SubSeq(F, 6, 6 + L)) = 0
      /\ G \in Seq(Octet) /\ Len(G) = L + 7
  BY Zenon DEF Altered
<1>3. j \in 1..(L + 7) /\ G[j] # F[j] /\ \A k \in 1..(L + 7) : k # j => G[k] = F[k]
  BY Zenon DEF Altered
<1>4. L \in Nat /\ L \in Octet /\ j \in Nat
  <2>1. L \in Nat /\ L \in Octet
    BY <1>1, LengthsAre
  <2> QED
    BY <1>3, <2>1
<1>5. {1, 2, 3, 4, 5} \subseteq 1..(L + 7)
  BY <1>4
<1>6. \A k \in {1, 2, 3, 4, 5} : k # j => G[k] = F[k]
  BY <1>3, <1>5
<1>7. i \in Nat \ {0}
  BY <1>2
<1>8. j \notin {1, 2, 3}
  <2>1. \A k \in {1, 2, 3, 4} : k # j => G[k] = F[k]
    BY <1>6
  <2> QED
    BY <1>1, <1>3, <1>4, <1>7, <2>1, RightStart
<1>9. G[1] = 0 /\ G[2] = 0 /\ G[3] = 255
  BY <1>1, <1>6, <1>8
<1>10. i = 3
  <2>1. Len(G) >= 7 /\ 255 # 0
    BY <1>2, <1>4
  <2> QED
    BY <1>2, <1>9, <2>1, FoundAtThree
<1>11. (G[4] + G[5]) % 256 = 0 /\ Sum(SubSeq(G, 6, 6 + G[4])) = 0
  <2>1. 3 + 1 = 4 /\ 3 + 2 = 5 /\ 3 + 3 = 6
    OBVIOUS
  <2> QED
    BY <1>10, <2>1, Zenon DEF GoodAt
<1>12. G[4] \in Octet /\ G[5] \in Octet
  <2>1. 4 \in 1..Len(G) /\ 5 \in 1..Len(G)
    BY <1>2, <1>4
  <2> QED
    BY <1>2, <2>1, ElementOfSeq
<1>13. G[4] = L <=> G[5] = Negated(L)
  <2> DEFINE x == G[4]
             y == G[5]
             v == Negated(L)
             sum(m, n) == (m + n) % 256
  <2>1. sum(x, y) = sum(L, v) /\ x \in Octet /\ y \in Octet /\ L \in Octet /\ v \in Octet
    BY <1>1, <1>4, <1>11, <1>12, Zenon
  <2>2. \A m, n, k, l \in Octet : sum(m, n) = sum(k, l) => (m = k <=> n = l)
    BY LengthsPair, Zenon
  <2> HIDE DEF x, y, v, sum
  <2>3. x = L <=> y = v
    BY <2>1, <2>2
  <2> QED
    BY <2>3 DEF x, y, v
<1>14. j \notin {4, 5}
  <2>1. (j = 4 => G[4] # L) /\ (j # 4 => G[4] = L)
    BY <1>1, <1>3, <1>6
  <2>2. (j = 5 => G[5] # Negated(L)) /\ (j # 5 => G[5] = Negated(L))
    BY <1>1, <1>3, <1>6
  <2> QED
    BY <1>13, <2>1, <2>2
<1>15. G[4] = L
  BY <1>1, <1>6, <1>14
<1>16. j = L + 7
  <2> SUFFICES ASSUME j # L + 7 PROVE FALSE
    OBVIOUS
  <2>1. j \in 6..(L + 6) /\ \A k \in 6..(L + 6) : k \in 1..(L + 7)
    BY <1>3, <1>4, <1>8, <1>14
  <2>2. \A k \in 6..(L + 6) : k # j => G[k] = F[k]
    BY <1>3, <2>1
  <2>3. Sum(SubSeq(G, 6, 6 + L)) # Sum(SubSeq(F, 6, 6 + L))
    BY <1>2, <1>3, <1>4, <2>1, <2>2, OtherBody
  <2> QED
    BY <1>2, <1>11, <1>15, <2>3, Zenon
<1>17. SubSeq(G, 6, 5 + L) = SubSeq(F, 6, 5 + L)
  <2>1. \A k \in 6..(L + 5) : G[k] = F[k]
    BY <1>3, <1>4, <1>16
  <2> QED
    BY <1>2, <1>4, <2>1, SameBody
<1>18. 3 + 3 = 6 /\ 3 + 2 = 5 /\ 3 + 1 = 4
  OBVIOUS
<1> QED
  BY <1>10, <1>15, <1>17, <1>18, Zenon

\* One byte of a frame that comes wrong is noticed by one of the two checksums, or it
\* is the last, which is not looked at: another payload is never taken for the one
\* that was sent.  Frames of the chip carry at least the two bytes that
\* PN532_CallFunction looks at (PN532_ReadFrame).
THEOREM OneWrongByte ==
  \A p \in Seq(Octet) : Len(p) \in Lengths =>
    \A j \in 1..(Len(p) + 7), b \in Octet : FrameIn([Frame(p) EXCEPT ![j] = b]) \subseteq {p}
<1> SUFFICES ASSUME NEW p \in Seq(Octet), Len(p) \in Lengths,
                    NEW j \in 1..(Len(p) + 7), NEW b \in Octet,
                    NEW q \in FrameIn([Frame(p) EXCEPT ![j] = b])
             PROVE  q = p
  OBVIOUS
<1> DEFINE F == Frame(p)
           L == Len(p)
           G == [Frame(p) EXCEPT ![j] = b]
<1> HIDE DEF L
<1>1. L \in Lengths
  BY Zenon DEF L
<1>2. L <= 255 /\ L <= 254
  BY <1>1, LengthsAre
<1>3. /\ Negated(L) \in Octet /\ (L + Negated(L)) % 256 = 0
      /\ F \in Seq(Octet) /\ Len(F) = L + 7
      /\ F[1] = 0 /\ F[2] = 0 /\ F[3] = 255 /\ F[4] = L /\ F[5] = Negated(L)
  <2>1. Len(p) <= 255
    BY <1>2, Zenon DEF L
  <2>2. /\ Negated(Len(p)) \in Octet /\ (Len(p) + Negated(Len(p))) % 256 = 0
        /\ Frame(p) \in Seq(Octet) /\ Len(Frame(p)) = Len(p) + 7
        /\ Frame(p)[1] = 0 /\ Frame(p)[2] = 0 /\ Frame(p)[3] = 255
        /\ Frame(p)[4] = Len(p) /\ Frame(p)[5] = Negated(Len(p))
    BY <2>1, FrameBytes
  <2> QED
    BY <2>2, Zenon DEF L
<1>4. /\ SubSeq(F, 6, 5 + L) = p /\ Sum(SubSeq(F, 6, 6 + L)) = 0
  BY <1>2, FrameBody, Zenon DEF L
<1>5. j \in 1..(L + 7)
  BY Zenon DEF L
<1>6. /\ G \in Seq(Octet) /\ Len(G) = L + 7
      /\ \A i \in 1..(L + 7) : G[i] = IF i = j THEN b ELSE F[i]
  <2>1. \A s \in Seq(Octet) : \A i \in 1..Len(s) :
           /\ [s EXCEPT ![i] = b] \in Seq(Octet) /\ Len([s EXCEPT ![i] = b]) = Len(s)
           /\ \A k \in 1..Len(s) : [s EXCEPT ![i] = b][k] = IF k = i THEN b ELSE s[k]
    BY ExceptSeq
  <2>2. F \in Seq(Octet) /\ j \in 1..Len(F)
    BY <1>3, <1>5, Zenon
  <2>3. /\ G \in Seq(Octet) /\ Len(G) = Len(F)
        /\ \A i \in 1..Len(F) : G[i] = IF i = j THEN b ELSE F[i]
    BY <2>1, <2>2, Zenon
  <2> QED
    BY <1>3, <2>3, Zenon
<1>7. PICK i \in DOMAIN G : GoodAt(G, i) /\ q = SubSeq(G, i + 3, i + 2 + G[i + 1])
  BY InFrame
<1>8. CASE b # F[j]
  <2> HIDE DEF F, G
  <2>1. G[j] # F[j] /\ \A k \in 1..(L + 7) : k # j => G[k] = F[k]
    BY <1>5, <1>6, <1>8
  <2>2. Altered(F, G, L, j)
    BY <1>1, <1>3, <1>4, <1>5, <1>6, <2>1 DEF Altered
  <2>3. SubSeq(G, i + 3, i + 2 + G[i + 1]) = SubSeq(F, 6, 5 + L)
    BY <1>7, <2>2, OneOff
  <2> QED
    BY <1>4, <1>7, <2>3, Zenon
<1>9. CASE b = F[j]
  <2>1. FrameIn(F) = {p}
    BY <1>2, FrameDecodes, Zenon DEF L
  <2>2. q \in FrameIn(G)
    BY Zenon
  <2> HIDE DEF F, G
  <2>3. \A k \in 1..(L + 7) : G[k] = F[k]
    BY <1>6, <1>9
  <2>4. G = F
    BY <1>3, <1>6, <2>3, SeqEqual
  <2> QED
    BY <2>1, <2>2, <2>4, Zenon
<1> QED
  BY <1>8, <1>9

(***************************************************************************)
(* The stream: bytes are added at its end, move along it and are read at   *)
(* its beginning.                                                          *)
(***************************************************************************)

\* The length of the stream, and that it begins with what has come.
LEMMA StreamShape ==
  ASSUME fifo \in Seq(OnLine), wire \in Seq(OnLine)
  PROVE  /\ Stream \in Seq(OnLine) /\ Len(Stream) \in Nat
         /\ Len(fifo) \in Nat /\ Len(wire) \in Nat
         /\ Len(Stream) = Len(fifo) + Len(wire)
         /\ \A i \in 1..Len(fifo) : Stream[i] = fifo[i]
<1>2. /\ Stream \in Seq(OnLine) /\ Len(Stream) = Len(fifo) + Len(wire)
      /\ \A i \in 1..Len(fifo) + Len(wire) :
           Stream[i] = IF i <= Len(fifo) THEN fifo[i] ELSE wire[i - Len(fifo)]
  BY ConcatProperties DEF Stream
<1>3. Len(fifo) \in Nat /\ Len(wire) \in Nat
  BY LenProperties
<1>4. \A i \in 1..Len(fifo) : i \in 1..Len(fifo) + Len(wire) /\ i <= Len(fifo)
  BY <1>3
<1> QED
  BY <1>2, <1>3, <1>4

\* What the chip puts on an idle line (Send).
LEMMA SendPuts ==
  ASSUME wire = <<>>, NEW bytes \in Seq(Values), NEW o \in BOOLEAN, Send(bytes, o)
  PROVE  /\ wire' \in Seq(OnLine)
         /\ Len(bytes) \in Nat /\ Len(wire') = Len(bytes)
         /\ \A i \in 1..Len(bytes) : wire'[i] = [byte |-> bytes[i], own |-> o]
<1> DEFINE stamped == [i \in DOMAIN bytes |-> [byte |-> bytes[i], own |-> o]]
<1>1. Len(bytes) \in Nat /\ DOMAIN bytes = 1..Len(bytes) /\ bytes \in [1..Len(bytes) -> Values]
  BY LenProperties
<1>2. stamped \in [1..Len(bytes) -> OnLine]
  BY <1>1 DEF OnLine
<1>3. stamped \in Seq(OnLine) /\ Len(stamped) = Len(bytes)
  BY <1>1, <1>2, FunctionIsSeq, Zenon
<1>4. \A i \in 1..Len(bytes) : stamped[i] = [byte |-> bytes[i], own |-> o]
  BY <1>1
<1>5. wire' = wire \o stamped
  BY DEF Send
<1> HIDE DEF stamped
<1>6. wire' = stamped
  BY <1>3, <1>5, ConcatEmptySeq
<1> QED
  BY <1>1, <1>3, <1>4, <1>6

\* What is sent is added to the end of the stream.
LEMMA SendAdds ==
  ASSUME fifo \in Seq(OnLine), wire = <<>>, fifo' = fifo,
         NEW bytes \in Seq(Values), NEW o \in BOOLEAN, Send(bytes, o)
  PROVE  /\ Len(bytes) \in Nat /\ Len(Stream) \in Nat
         /\ Len(Stream') = Len(Stream) + Len(bytes)
         /\ \A i \in 1..Len(Stream) : Stream'[i] = Stream[i]
         /\ \A i \in 1..Len(bytes) :
              Stream'[Len(Stream) + i] = [byte |-> bytes[i], own |-> o]
<1> DEFINE stamped == wire'
<1>1. Len(bytes) \in Nat
  BY LenProperties
<1>3. stamped \in Seq(OnLine) /\ Len(stamped) = Len(bytes)
  BY SendPuts
<1>4. \A i \in 1..Len(bytes) : stamped[i] = [byte |-> bytes[i], own |-> o]
  BY SendPuts
<1>6. wire' = stamped
  OBVIOUS
<1> HIDE DEF stamped
<1>7. Stream = fifo /\ Len(fifo) \in Nat
  BY ConcatEmptySeq, LenProperties DEF Stream
<1>8. Stream' = fifo \o stamped
  BY <1>6 DEF Stream
<1>9. /\ Len(Stream') = Len(fifo) + Len(stamped)
      /\ \A i \in 1..Len(fifo) + Len(stamped) :
           Stream'[i] = IF i <= Len(fifo) THEN fifo[i] ELSE stamped[i - Len(fifo)]
  <2>1. \A s, t \in Seq(OnLine) :
          /\ Len(s \o t) = Len(s) + Len(t)
          /\ \A i \in 1..Len(s) + Len(t) :
               (s \o t)[i] = IF i <= Len(s) THEN s[i] ELSE t[i - Len(s)]
    BY ConcatProperties, SMT
  <2>2. /\ Len(fifo \o stamped) = Len(fifo) + Len(stamped)
        /\ \A i \in 1..Len(fifo) + Len(stamped) :
             (fifo \o stamped)[i] = IF i <= Len(fifo) THEN fifo[i] ELSE stamped[i - Len(fifo)]
    BY <1>3, <2>1, Zenon
  <2> QED
    BY <1>8, <2>2, Zenon
<1>10. ASSUME NEW i \in 1..Len(Stream) PROVE Stream'[i] = Stream[i]
  <2>1. i \in 1..Len(fifo) + Len(stamped) /\ i <= Len(fifo)
    BY <1>1, <1>3, <1>7
  <2> QED
    BY <1>7, <1>9, <2>1
<1>11. ASSUME NEW i \in 1..Len(bytes)
       PROVE  Stream'[Len(Stream) + i] = [byte |-> bytes[i], own |-> o]
  <2>1. /\ Len(fifo) + i \in 1..Len(fifo) + Len(stamped) /\ ~(Len(fifo) + i <= Len(fifo))
        /\ (Len(fifo) + i) - Len(fifo) = i
    BY <1>1, <1>3, <1>7
  <2> QED
    BY <1>4, <1>7, <1>9, <2>1
<1> QED
  BY <1>1, <1>3, <1>7, <1>9, <1>10, <1>11

\* Bytes that arrive stay where they are in the stream (Arrive).
LEMMA ArriveMoves ==
  ASSUME wire \in Seq(OnLine), Arrive
  PROVE  /\ wire' \in Seq(OnLine)
         /\ fifo \in Seq(OnLine) => fifo' \in Seq(OnLine) /\ Stream' = Stream
<1>2. DOMAIN wire = 1..Len(wire) /\ Len(wire) \in Nat
  BY LenProperties
<1>3. PICK n \in 1..Len(wire) : /\ fifo' = fifo \o SubSeq(wire, 1, n)
                               /\ wire' = SubSeq(wire, n + 1, Len(wire))
  BY <1>2 DEF Arrive
<1> DEFINE come == SubSeq(wire, 1, n)
           coming == SubSeq(wire, n + 1, Len(wire))
<1>4. come \in Seq(OnLine) /\ coming \in Seq(OnLine)
  BY <1>2, SubSeqProperties, ElementOfSeq
<1>5. come \o coming = wire
  <2>1. 1 \in 1..Len(wire) + 1 /\ n \in 1 - 1..Len(wire) /\ Len(wire) \in n..Len(wire)
    BY <1>2
  <2>2. come \o coming = SubSeq(wire, 1, Len(wire))
    BY <2>1, ConcatAdjacentSubSeq
  <2> QED
    BY <2>2, SubSeqFull
<1> HIDE DEF come, coming
<1>6. fifo' = fifo \o come /\ wire' = coming
  BY <1>3 DEF come, coming
<1>7. ASSUME fifo \in Seq(OnLine)
      PROVE  fifo' \in Seq(OnLine) /\ Stream' = Stream
  <2>1. (fifo \o come) \o coming = fifo \o (come \o coming)
    <3>1. \A s, t, u \in Seq(OnLine) : (s \o t) \o u = s \o (t \o u)
      <4>1. ASSUME NEW s \in Seq(OnLine), NEW t \in Seq(OnLine), NEW u \in Seq(OnLine)
            PROVE  (s \o t) \o u = s \o (t \o u)
        <5> DEFINE V == OnLine
        <5> HIDE DEF V
        <5>1. s \in Seq(V) /\ t \in Seq(V) /\ u \in Seq(V)
          BY DEF V
        <5> QED
          BY <5>1, SMT
      <4> QED
        BY <4>1, Zenon
    <3> QED
      BY <1>4, <1>7, <3>1, Zenon
  <2>2. fifo \o come \in Seq(OnLine)
    BY <1>4, <1>7, ConcatProperties, Zenon
  <2> QED
    BY <1>5, <1>6, <2>1, <2>2, Zenon DEF Stream
<1> QED
  BY <1>4, <1>6, <1>7

\* What is read is taken from the front.
LEMMA ReadTakes ==
  ASSUME fifo \in Seq(OnLine), wire \in Seq(OnLine), NEW n \in 0..Len(fifo),
         fifo' = SubSeq(fifo, n + 1, Len(fifo)), wire' = wire
  PROVE  /\ fifo' \in Seq(OnLine)
         /\ Len(Stream') = Len(Stream) - n
         /\ \A i \in 1..Len(Stream) - n : Stream'[i] = Stream[i + n]
<1>1. fifo \in Seq(OnLine) /\ wire \in Seq(OnLine) /\ Len(fifo) \in Nat /\ Len(wire) \in Nat
  BY LenProperties
<1>2. \A i \in n + 1..Len(fifo) : fifo[i] \in OnLine
  BY <1>1, ElementOfSeq
<1>3. /\ fifo' \in Seq(OnLine) /\ Len(fifo') = Len(fifo) - n
      /\ \A i \in 1..Len(fifo) - n : fifo'[i] = fifo[i + n]
  <2>1. /\ fifo' \in Seq(OnLine)
        /\ Len(fifo') = IF n + 1 <= Len(fifo) THEN Len(fifo) - (n + 1) + 1 ELSE 0
        /\ \A i \in 1..Len(fifo) - (n + 1) + 1 : fifo'[i] = fifo[(n + 1) + i - 1]
    BY <1>1, <1>2, SubSeqProperties
  <2> QED
    BY <1>1, <2>1
<1>4. /\ Len(Stream) = Len(fifo) + Len(wire)
      /\ \A i \in 1..Len(fifo) + Len(wire) :
           Stream[i] = IF i <= Len(fifo) THEN fifo[i] ELSE wire[i - Len(fifo)]
  BY <1>1, ConcatProperties DEF Stream
<1>5. /\ Len(Stream') = Len(fifo') + Len(wire)
      /\ \A i \in 1..Len(fifo') + Len(wire) :
           Stream'[i] = IF i <= Len(fifo') THEN fifo'[i] ELSE wire[i - Len(fifo')]
  BY <1>1, <1>3, ConcatProperties DEF Stream
<1>6. ASSUME NEW i \in 1..Len(Stream) - n PROVE Stream'[i] = Stream[i + n]
  <2>1. i \in 1..Len(fifo') + Len(wire) /\ i + n \in 1..Len(fifo) + Len(wire)
    BY <1>1, <1>3, <1>4
  <2>2. CASE i <= Len(fifo) - n
    <3>1. i <= Len(fifo') /\ i + n <= Len(fifo) /\ i \in 1..Len(fifo) - n
      BY <1>1, <1>3, <2>1, <2>2
    <3> QED
      BY <1>3, <1>4, <1>5, <2>1, <3>1
  <2>3. CASE ~(i <= Len(fifo) - n)
    <3>2. \A x, m, l \in Int : ~(x <= l - m) => /\ ~(x + m <= l)
                                              /\ x - (l - m) = (x + m) - l
      OBVIOUS
    <3>1. /\ ~(i <= Len(fifo')) /\ ~(i + n <= Len(fifo))
          /\ i - Len(fifo') = (i + n) - Len(fifo)
      <4>1. i \in Int /\ n \in Int /\ Len(fifo) \in Int
        BY <1>1
      <4>2. ~(i + n <= Len(fifo)) /\ i - (Len(fifo) - n) = (i + n) - Len(fifo)
        BY <2>3, <3>2, <4>1
      <4>3. Len(fifo') = Len(fifo) - n
        BY <1>3
      <4> QED
        BY <2>3, <4>2, <4>3
    <3> QED
      BY <1>4, <1>5, <2>1, <3>1
  <2> QED
    BY <2>2, <2>3
<1> QED
  BY <1>1, <1>3, <1>4, <1>5, <1>6

(***************************************************************************)
(* What the chip has sent for the call under way.                          *)
(***************************************************************************)

\* main makes none but its own calls.
LEMMA CallIs ==
  ASSUME main \in {"poll", "auth", "read"}, block \in Blocks
  PROVE  NextCall \in CallsOfMain
BY DEF NextCall, CallsOfMain

\* The bytes of PN532_ACK.
LEMMA AckShape ==
  /\ Ack \in Seq(Values) /\ Len(Ack) = 6
  /\ Ack[1] = 0 /\ Ack[2] = 0 /\ Ack[3] = 255 /\ Ack[4] = 0 /\ Ack[5] = 255 /\ Ack[6] = 0
<1>1. 0 \in Values /\ 255 \in Values
  BY DEF Values, Octet
<1> QED
  BY <1>1 DEF Ack

\* Nothing, the acknowledgement, or the acknowledgement and a frame.
LEMMA SentShape ==
  ASSUME call \in Calls, NEW sent \in SentSoFar
  PROVE  /\ sent \in Seq(Values) /\ Len(sent) \in 0..32
         /\ Len(sent) = 0 \/ (Len(sent) >= 6 /\ \A i \in 1..6 : sent[i] = Ack[i])
         /\ Len(sent) > 6 => \E p \in PayloadsFor(call) :
              /\ Len(sent) = Len(p) + 13
              /\ \A i \in 1..Len(p) + 7 : sent[i + 6] = Frame(p)[i]
<1>1. CASE sent = <<>>
  BY <1>1
<1>2. CASE sent = Ack
  BY <1>2, AckShape
<1>3. ASSUME NEW p \in PayloadsFor(call), sent = Ack \o Frame(p)
      PROVE  /\ sent \in Seq(Values) /\ Len(sent) = Len(p) + 13 /\ Len(p) \in 2..19
             /\ \A i \in 1..6 : sent[i] = Ack[i]
             /\ \A i \in 1..Len(p) + 7 : sent[i + 6] = Frame(p)[i]
  <2>1. Frame(p) \in Seq(Values) /\ Len(Frame(p)) = Len(p) + 7 /\ Len(p) \in 2..19
    BY FrameShape
  <2>2. /\ sent \in Seq(Values) /\ Len(sent) = Len(Ack) + Len(Frame(p))
        /\ \A i \in 1..Len(Ack) + Len(Frame(p)) :
             sent[i] = IF i <= Len(Ack) THEN Ack[i] ELSE Frame(p)[i - Len(Ack)]
    <3> DEFINE frame == Frame(p)
    <3>1. frame \in Seq(Values) /\ Ack \in Seq(Values) /\ sent = Ack \o frame
      BY <1>3, <2>1, AckShape
    <3> HIDE DEF frame
    <3>2. /\ sent \in Seq(Values) /\ Len(sent) = Len(Ack) + Len(frame)
          /\ \A i \in 1..Len(Ack) + Len(frame) :
               sent[i] = IF i <= Len(Ack) THEN Ack[i] ELSE frame[i - Len(Ack)]
      BY <3>1, ConcatProperties
    <3> QED
      BY <3>2 DEF frame
  <2>3. ASSUME NEW i \in 1..6 PROVE sent[i] = Ack[i]
    <3>1. i \in 1..Len(Ack) + Len(Frame(p)) /\ i <= Len(Ack)
      BY <2>1, AckShape
    <3> QED
      BY <2>2, <3>1
  <2>4. ASSUME NEW i \in 1..Len(p) + 7 PROVE sent[i + 6] = Frame(p)[i]
    <3>1. /\ i + 6 \in 1..Len(Ack) + Len(Frame(p)) /\ ~(i + 6 <= Len(Ack))
          /\ (i + 6) - Len(Ack) = i
      BY <2>1, AckShape
    <3> QED
      BY <2>2, <3>1
  <2> QED
    BY <2>1, <2>2, <2>3, <2>4, AckShape
<1>4. ASSUME NEW p \in PayloadsFor(call), sent = Ack \o Frame(p)
      PROVE  /\ sent \in Seq(Values) /\ Len(sent) \in 0..32 /\ Len(sent) >= 6
             /\ Len(sent) = Len(p) + 13
             /\ \A i \in 1..6 : sent[i] = Ack[i]
             /\ \A i \in 1..Len(p) + 7 : sent[i + 6] = Frame(p)[i]
  <2>1. \A n \in 2..19 : n + 13 \in 0..32 /\ n + 13 >= 6
    OBVIOUS
  <2> QED
    BY <1>3, <1>4, <2>1, Zenon
<1> QED
  BY <1>1, <1>2, <1>4 DEF SentSoFar

\* More of it.
LEMMA OwnBytesStand ==
  ASSUME fifo \in Seq(OnLine), wire = <<>>, fifo' = fifo,
         NEW sent \in Seq(Values), NEW f \in Nat, NEW k \in {1, 2, 7}, k - 1 <= Len(sent),
         Stands(Stream, sent, f, k), NEW bytes \in Seq(Values), Send(bytes, TRUE)
  PROVE  Stands(Stream', sent \o bytes, f, k)
<1>1. /\ Len(sent) \in Nat /\ Len(bytes) \in Nat
      /\ Len(sent \o bytes) = Len(sent) + Len(bytes)
      /\ \A i \in 1..Len(sent) + Len(bytes) :
           (sent \o bytes)[i] = IF i <= Len(sent) THEN sent[i] ELSE bytes[i - Len(sent)]
  BY ConcatProperties, LenProperties
<1>2. /\ Len(Stream) \in Nat /\ Len(Stream') = Len(Stream) + Len(bytes)
      /\ \A i \in 1..Len(Stream) : Stream'[i] = Stream[i]
      /\ \A i \in 1..Len(bytes) :
           Stream'[Len(Stream) + i] = [byte |-> bytes[i], own |-> TRUE]
  BY SendAdds
<1>3. Len(Stream) = f + Len(sent) + 1 - k /\ f <= Len(Stream)
  BY <1>1, <1>2 DEF Stands
<1>4. Len(Stream') = f + Len(sent \o bytes) + 1 - k
  BY <1>1, <1>2, <1>3
<1>5. ASSUME NEW i \in 1..f PROVE ~Stream'[i].own
  <2>1. i \in 1..Len(Stream) /\ ~Stream[i].own
    BY <1>2, <1>3 DEF Stands
  <2>2. Stream'[i] = Stream[i]
    BY <1>2, <2>1, Zenon
  <2> QED
    BY <2>1, <2>2, Zenon
<1>6. ASSUME NEW i \in (f + 1)..Len(Stream')
      PROVE  Stream'[i] = [byte |-> (sent \o bytes)[i - f + k - 1], own |-> TRUE]
  <2>1. CASE i <= Len(Stream)
    <3>1. i \in (f + 1)..Len(Stream) /\ i \in 1..Len(Stream)
      BY <1>2, <2>1
    <3>2. /\ i - f + k - 1 \in 1..Len(sent) + Len(bytes) /\ i - f + k - 1 <= Len(sent)
      <4>1. \A g, n, m \in Nat : \A j \in {1, 2, 7} : \A x \in (g + 1)..(g + n + 1 - j) :
              x - g + j - 1 \in 1..n + m /\ x - g + j - 1 <= n
        OBVIOUS
      <4>2. i \in (f + 1)..(f + Len(sent) + 1 - k)
        BY <1>3, <3>1
      <4> QED
        BY <1>1, <4>1, <4>2, Zenon
    <3>3. Stream'[i] = Stream[i]
      BY <1>2, <3>1, Zenon
    <3>4. Stream[i] = [byte |-> sent[i - f + k - 1], own |-> TRUE]
      BY <3>1 DEF Stands
    <3>5. (sent \o bytes)[i - f + k - 1] = sent[i - f + k - 1]
      BY <1>1, <3>2, Zenon
    <3> QED
      BY <3>3, <3>4, <3>5, Zenon
  <2>2. CASE ~(i <= Len(Stream))
    <3>1. i - Len(Stream) \in 1..Len(bytes) /\ Len(Stream) + (i - Len(Stream)) = i
      BY <1>1, <1>2, <2>2
    <3>2. /\ i - f + k - 1 \in 1..Len(sent) + Len(bytes) /\ ~(i - f + k - 1 <= Len(sent))
          /\ (i - f + k - 1) - Len(sent) = i - Len(Stream)
      BY <1>1, <1>2, <1>3, <2>2
    <3>3. Stream'[i] = [byte |-> bytes[i - Len(Stream)], own |-> TRUE]
      BY <1>2, <3>1, Zenon
    <3>4. (sent \o bytes)[i - f + k - 1] = bytes[i - Len(Stream)]
      BY <1>1, <3>2, Zenon
    <3> QED
      BY <3>3, <3>4, Zenon
  <2> QED
    BY <2>1, <2>2
<1> QED
  BY <1>4, <1>5, <1>6 DEF Stands

\* Late bytes of an earlier call.
LEMMA LateBytesStand ==
  ASSUME fifo \in Seq(OnLine), wire = <<>>, fifo' = fifo, NEW f \in Nat,
         Stands(Stream, <<>>, f, 1), NEW bytes \in Seq(Values), Send(bytes, FALSE)
  PROVE  f + Len(bytes) \in Nat /\ Stands(Stream', <<>>, f + Len(bytes), 1)
<1>1. /\ Len(bytes) \in Nat /\ Len(Stream) \in Nat /\ Len(Stream') = Len(Stream) + Len(bytes)
      /\ \A i \in 1..Len(Stream) : Stream'[i] = Stream[i]
      /\ \A i \in 1..Len(bytes) :
           Stream'[Len(Stream) + i] = [byte |-> bytes[i], own |-> FALSE]
  BY SendAdds
<1>2. Len(Stream) = f /\ \A i \in 1..f : ~Stream[i].own
  BY <1>1 DEF Stands
<1>3. ASSUME NEW i \in 1..f + Len(bytes) PROVE ~Stream'[i].own
  <2>1. CASE i <= f
    BY <1>1, <1>2, <2>1
  <2>2. CASE ~(i <= f)
    <3>1. i - f \in 1..Len(bytes) /\ Len(Stream) + (i - f) = i
      BY <1>1, <1>2, <2>2
    <3>2. Stream'[i] = [byte |-> bytes[i - f], own |-> FALSE]
      BY <1>1, <3>1, Zenon
    <3> QED
      BY <3>2
  <2> QED
    BY <2>1, <2>2
<1>4. Len(Stream') = (f + Len(bytes)) + Len(<<>>) + 1 - 1
  BY <1>1, <1>2
<1>5. \A i \in ((f + Len(bytes)) + 1)..Len(Stream') : FALSE
  BY <1>1, <1>2
<1> QED
  BY <1>1, <1>3, <1>4, <1>5 DEF Stands

(***************************************************************************)
(* Reading: the ACK is one's own or leaves a later one to be read in its   *)
(* place, and a frame that is read with a byte of its own is a whole one.  *)
(***************************************************************************)

\* After the ACK that is read, be it one's own or an earlier call's, a whole stream,
\* or one that lacks the ACK or its first byte (PN532_CallFunction).
LEMMA AckRead ==
  ASSUME call \in Calls, fifo \in Seq(OnLine), wire \in Seq(OnLine), ReadAck,
         NEW sent \in SentSoFar, NEW f \in Nat, Stands(Stream, sent, f, 1)
  PROVE  /\ fifo' \in Seq(OnLine)
         /\ \E g \in Nat, k \in {1, 2, 7} :
              /\ k - 1 <= Len(sent) /\ Stands(Stream', sent, g, k)
              /\ k # 1 => g = 0
<1>1. /\ sent \in Seq(Values) /\ Len(sent) \in 0..32
      /\ Len(sent) = 0 \/ (Len(sent) >= 6 /\ \A i \in 1..6 : sent[i] = Ack[i])
  BY SentShape
<1>2. /\ Len(Stream) \in Nat /\ Len(fifo) \in Nat /\ Len(fifo) <= Len(Stream)
      /\ \A i \in 1..Len(fifo) : Stream[i] = fifo[i]
  BY StreamShape
<1>3. \A i \in 1..6 : fifo[i].byte = Ack[i]
  <2> DEFINE six == SubSeq(fifo, 1, 6)
             any == {fifo[i] : i \in 1..6}
  <2>1. \A i \in 1..6 : fifo[i] \in any
    OBVIOUS
  <2>2. six \in Seq(any) /\ Len(six) = 6 /\ \A i \in 1..6 : six[i] = fifo[i]
    <3>1. 1 \in Int /\ 6 \in Int /\ 6 - 1 + 1 = 6 /\ 1 <= 6
      OBVIOUS
    <3> HIDE DEF any
    <3>2. /\ six \in Seq(any) /\ Len(six) = IF 1 <= 6 THEN 6 - 1 + 1 ELSE 0
          /\ \A i \in 1..6 - 1 + 1 : six[i] = fifo[1 + i - 1]
      BY <2>1, <3>1, SubSeqProperties
    <3> QED
      BY <3>2
  <2>3. Bytes(six) = Ack
    BY AckShape DEF ReadAck, IsAck
  <2>4. DOMAIN six = 1..6
    BY <2>2, LenProperties
  <2> HIDE DEF six, any
  <2> QED
    BY <2>2, <2>3, <2>4 DEF Bytes
<1>4. Len(fifo) >= 6 /\ fifo' = SubSeq(fifo, 6 + 1, Len(fifo)) /\ wire' = wire
  <2>1. fifo[4].byte = 0 /\ Len(Ack) = 6
    BY <1>3, AckShape
  <2>2. Needed(Len(Ack)) = 6
    BY <2>1 DEF Needed
  <2> QED
    BY <2>2 DEF ReadAck, CanRead, Rest
<1>5. /\ fifo' \in Seq(OnLine) /\ Len(Stream') = Len(Stream) - 6
      /\ \A i \in 1..Len(Stream) - 6 : Stream'[i] = Stream[i + 6]
  <2>1. 6 \in 0..Len(fifo)
    BY <1>2, <1>4
  <2> QED
    BY <1>4, <2>1, ReadTakes
<1>6. /\ Len(Stream) = f + Len(sent)
      /\ \A i \in 1..f : ~Stream[i].own
      /\ \A i \in (f + 1)..Len(Stream) : Stream[i] = [byte |-> sent[i - f], own |-> TRUE]
  <2>1. \A i \in (f + 1)..Len(Stream) : i - f + 1 - 1 = i - f
    BY <1>2
  <2>2. f + Len(sent) + 1 - 1 = f + Len(sent)
    BY <1>1
  <2> QED
    BY <2>1, <2>2 DEF Stands
<1>7. ASSUME NEW i \in 1..6 PROVE Stream[i].byte = Ack[i]
  <2>1. i \in 1..Len(fifo)
    BY <1>2, <1>4
  <2>2. Stream[i] = fifo[i]
    BY <1>2, <2>1, Zenon
  <2> QED
    BY <1>3, <2>2, Zenon
<1>8. CASE f = 0
  <2>1. Len(sent) >= 6
    BY <1>1, <1>2, <1>4, <1>6, <1>8
  <2>2. Len(Stream') = 0 + Len(sent) + 1 - 7
    BY <1>1, <1>5, <1>6, <1>8
  <2>3. ASSUME NEW i \in (0 + 1)..Len(Stream')
        PROVE  Stream'[i] = [byte |-> sent[i - 0 + 7 - 1], own |-> TRUE]
    <3>1. i \in 1..Len(Stream) - 6 /\ i + 6 \in (f + 1)..Len(Stream) /\ (i + 6) - f = i - 0 + 7 - 1
      BY <1>2, <1>5, <1>8
    <3> QED
      BY <1>5, <1>6, <3>1
  <2>4. Stands(Stream', sent, 0, 7)
    BY <2>2, <2>3 DEF Stands
  <2>5. 7 - 1 <= Len(sent)
    BY <1>1, <2>1
  <2> QED
    BY <1>5, <2>4, <2>5
<1>9. CASE f = 5
  <2>1. Len(Stream') = 0 + Len(sent) + 1 - 2
    BY <1>1, <1>5, <1>6, <1>9
  <2>2. ASSUME NEW i \in (0 + 1)..Len(Stream')
        PROVE  Stream'[i] = [byte |-> sent[i - 0 + 2 - 1], own |-> TRUE]
    <3>1. i \in 1..Len(Stream) - 6 /\ i + 6 \in (f + 1)..Len(Stream) /\ (i + 6) - f = i - 0 + 2 - 1
      BY <1>2, <1>5, <1>9
    <3> QED
      BY <1>5, <1>6, <3>1
  <2>3. Stands(Stream', sent, 0, 2)
    BY <2>1, <2>2 DEF Stands
  <2>4. 2 - 1 <= Len(sent)
    BY <1>1, <1>2, <1>4, <1>6, <1>9
  <2> QED
    BY <1>5, <2>3, <2>4
<1>10. CASE f >= 6
  <2>1. f - 6 \in Nat /\ Len(Stream') = (f - 6) + Len(sent) + 1 - 1
    BY <1>1, <1>5, <1>6, <1>10
  <2>2. ASSUME NEW i \in 1..(f - 6) PROVE ~Stream'[i].own
    <3>1. i \in 1..Len(Stream) - 6 /\ i + 6 \in 1..f
      BY <1>1, <1>6, <1>10, <2>1
    <3> QED
      BY <1>5, <1>6, <3>1
  <2>3. ASSUME NEW i \in ((f - 6) + 1)..Len(Stream')
        PROVE  Stream'[i] = [byte |-> sent[i - (f - 6) + 1 - 1], own |-> TRUE]
    <3>1. /\ i \in 1..Len(Stream) - 6 /\ i + 6 \in (f + 1)..Len(Stream)
          /\ (i + 6) - f = i - (f - 6) + 1 - 1
      BY <1>2, <1>5, <1>10, <2>1
    <3> QED
      BY <1>5, <1>6, <3>1
  <2>4. Stands(Stream', sent, f - 6, 1)
    BY <2>1, <2>2, <2>3 DEF Stands
  <2>5. 1 - 1 <= Len(sent)
    BY <1>1
  <2> QED
    BY <1>5, <2>1, <2>4, <2>5
<1>11. CASE f \in {1, 2, 3, 4}
  <2>1. Len(sent) >= 6 /\ Len(Stream) >= 6
    BY <1>1, <1>2, <1>4, <1>6, <1>11
  <2>2. sent[1] = 0 /\ sent[2] = 0
    BY <1>1, <2>1, AckShape
  <2>3. ASSUME NEW i \in {3, 5}, f < i PROVE Ack[i] = sent[i - f]
    <3>1. i \in (f + 1)..Len(Stream) /\ i \in 1..6
      BY <1>2, <1>11, <2>1, <2>3
    <3>2. Stream[i] = [byte |-> sent[i - f], own |-> TRUE]
      BY <1>6, <3>1, Zenon
    <3>3. Stream[i].byte = sent[i - f]
      BY <3>2
    <3> QED
      BY <1>7, <3>1, <3>3, Zenon
  <2>4. CASE f \in {1, 2}
    BY <2>2, <2>3, <2>4, AckShape
  <2>5. CASE f \in {3, 4}
    BY <2>2, <2>3, <2>5, AckShape
  <2> QED
    BY <1>11, <2>4, <2>5
<1> QED
  BY <1>8, <1>9, <1>10, <1>11

\* What the decoder makes of bytes that begin like a frame (PN532_ReadFrame).
LEMMA Decoded ==
  ASSUME NEW buff, {1, 2, 3} \subseteq DOMAIN buff, DOMAIN buff \subseteq Nat \ {0},
         buff[1] = 0, buff[2] = 0, buff[3] = 255, NEW p \in FrameIn(buff)
  PROVE  (buff[4] + buff[5]) % 256 = 0 /\ p = SubSeq(buff, 6, 5 + buff[4])
<1>1. PICK i \in DOMAIN buff :
        /\ buff[i] # 0 /\ \A j \in 1..(i - 1) : buff[j] = 0
        /\ (buff[i + 1] + buff[i + 2]) % 256 = 0
        /\ p = SubSeq(buff, i + 3, i + 2 + buff[i + 1])
  <2>1. PICK k \in DOMAIN buff :
          GoodAt(buff, k) /\ p = SubSeq(buff, k + 3, k + 2 + buff[k + 1])
    BY InFrame
  <2>2. buff[k] # 0 /\ \A j \in 1..(k - 1) : buff[j] = 0
    BY <2>1 DEF GoodAt
  <2> QED
    BY <2>1, <2>2, Zenon DEF GoodAt
<1>2. i = 3
  <2>1. i \in Nat \ {0}
    BY <1>1
  <2>2. ~(i > 3)
    BY <1>1, <2>1
  <2> QED
    BY <1>1, <2>1, <2>2
<1> QED
  BY <1>1, <1>2

\* A frame that begins with a byte of the call's own is one that was sent for it.
LEMMA OwnFrame ==
  ASSUME LineOK, CallOK, call \in CallsOfMain, GoodFrame, Head(fifo).own
  PROVE  Payloads \subseteq PayloadsFor(call)
<1>1. fifo \in Seq(OnLine) /\ wire \in Seq(OnLine) /\ StreamOK
  BY DEF GoodFrame, CallOK, LineOK
<1>2. PICK sent \in SentSoFar, f \in 0..Len(Stream), k \in {1, 2, 7} :
        Stands(Stream, sent, f, k) /\ (k # 1 => f = 0)
  BY <1>1 DEF StreamOK
<1>3. call \in Calls /\ call.size \in 1..19
  BY CallShape DEF Calls
<1>4. /\ sent \in Seq(Values) /\ Len(sent) \in 0..32
      /\ Len(sent) = 0 \/ (Len(sent) >= 6 /\ \A i \in 1..6 : sent[i] = Ack[i])
      /\ Len(sent) > 6 => \E p \in PayloadsFor(call) :
           /\ Len(sent) = Len(p) + 13
           /\ \A i \in 1..Len(p) + 7 : sent[i + 6] = Frame(p)[i]
  BY <1>3, SentShape
<1>5. /\ Len(Stream) \in Nat /\ Len(fifo) \in Nat /\ Len(fifo) <= Len(Stream)
      /\ \A i \in 1..Len(fifo) : Stream[i] = fifo[i]
  BY <1>1, StreamShape
<1>6. Len(fifo) >= 4 /\ Len(fifo) >= Needed(FrameCount)
  BY DEF GoodFrame, CanRead
<1>7. f = 0
  <2>1. 1 \in 1..Len(fifo) /\ Head(fifo) = fifo[1]
    BY <1>1, <1>5, <1>6
  <2>2. Stream[1].own
    BY <1>5, <2>1
  <2>3. ~(1 \in 1..f)
    BY <1>2, <2>2 DEF Stands
  <2> QED
    BY <1>5, <2>3
<1>8. Len(Stream) = Len(sent) + 1 - k
  BY <1>2, <1>4, <1>7 DEF Stands
<1>9. ASSUME NEW i \in 1..Len(fifo) PROVE fifo[i].byte = sent[i + k - 1]
  <2>1. i \in (f + 1)..Len(Stream) /\ i - f + k - 1 = i + k - 1
    BY <1>5, <1>7
  <2>2. Stream[i] = [byte |-> sent[i - f + k - 1], own |-> TRUE]
    BY <1>2, <2>1 DEF Stands
  <2> QED
    BY <1>5, <2>1, <2>2
<1> DEFINE n == Needed(FrameCount)
           data == ReadData(FrameCount)
           buff == Bytes(data)
<1>10. ASSUME n \in Nat, n >= 4
       PROVE  DOMAIN buff = 1..n /\ \A i \in 1..n : buff[i] = sent[i + k - 1]
  <2>1. \A i \in 1..n : i \in 1..Len(fifo)
    BY <1>5, <1>6, <1>10
  <2> HIDE DEF n
  <2>2. data = SubSeq(fifo, 1, n)
    BY DEF ReadData, n
  <2>3. data \in Seq(OnLine) /\ Len(data) = n /\ \A i \in 1..n : data[i] = fifo[i]
    <3>1. /\ SubSeq(fifo, 1, n) \in Seq(OnLine)
          /\ Len(SubSeq(fifo, 1, n)) = IF 1 <= n THEN n - 1 + 1 ELSE 0
          /\ \A i \in 1..n - 1 + 1 : SubSeq(fifo, 1, n)[i] = fifo[1 + i - 1]
      <4>1. \A i \in 1..n : fifo[i] \in OnLine
        BY <1>1, <2>1, ElementOfSeq
      <4> QED
        BY <1>10, <4>1, SubSeqProperties
    <3> QED
      BY <1>10, <2>2, <3>1
  <2>4. DOMAIN data = 1..n
    BY <2>3, LenProperties
  <2> HIDE DEF data
  <2>5. ASSUME NEW i \in 1..n PROVE data[i].byte = sent[i + k - 1]
    BY <1>9, <2>1, <2>3
  <2> QED
    BY <2>4, <2>5 DEF Bytes
<1>11. Payloads \subseteq FrameIn(buff)
  BY DEF Payloads
<1>12. CASE k = 1
  <2>1. Len(sent) >= 6 /\ \A i \in 1..6 : sent[i] = Ack[i]
    BY <1>4, <1>5, <1>6, <1>8, <1>12
  <2>2. fifo[4].byte = 0
    BY <1>5, <1>6, <1>9, <1>12, <2>1, AckShape
  <2>3. n \in Nat /\ n >= 10
    <3>1. n = call.size + 2 + 7
      BY <2>2 DEF Needed, FrameCount
    <3>2. \A size \in 1..19 : size + 2 + 7 \in Nat /\ size + 2 + 7 >= 10
      OBVIOUS
    <3> HIDE DEF n
    <3> QED
      BY <1>3, <3>1, <3>2, Zenon
  <2>4. DOMAIN buff = 1..n /\ \A i \in 1..6 : buff[i] = Ack[i]
    <3> HIDE DEF n, buff
    <3>1. DOMAIN buff = 1..n /\ \A i \in 1..n : buff[i] = sent[i + k - 1]
      BY <1>10, <2>3
    <3>2. ASSUME NEW i \in 1..6 PROVE buff[i] = Ack[i]
      <4>1. i \in 1..n /\ i + k - 1 = i
        BY <1>12, <2>3
      <4> QED
        BY <2>1, <3>1, <4>1
    <3> QED
      BY <3>1, <3>2
  <2>5. FrameIn(buff) = {}
    <3> HIDE DEF n, buff
    <3>1. SUFFICES ASSUME NEW p \in FrameIn(buff) PROVE FALSE
      OBVIOUS
    <3>2. /\ buff[1] = 0 /\ buff[2] = 0 /\ buff[3] = 255 /\ buff[4] = 0 /\ buff[5] = 255
          /\ {1, 2, 3} \subseteq DOMAIN buff /\ DOMAIN buff \subseteq Nat \ {0}
      BY <2>3, <2>4, AckShape
    <3>3. (buff[4] + buff[5]) % 256 = 0
      BY <3>2, Decoded
    <3> QED
      BY <3>2, <3>3
  <2> QED
    BY <1>11, <2>5
<1>13. CASE k = 2
  <2>1. Len(sent) >= 6 /\ \A i \in 1..6 : sent[i] = Ack[i]
    BY <1>4, <1>5, <1>6, <1>8, <1>13
  <2>2. fifo[4].byte = 255
    BY <1>5, <1>6, <1>9, <1>13, <2>1, AckShape
  <2>3. n = 262
    BY <2>2 DEF Needed
  <2> QED
    <3>1. \A a, b \in Nat : \A c \in 0..32 : a <= b /\ b = c + 1 - 2 => ~(a >= 262)
      OBVIOUS
    <3>2. Len(fifo) >= 262 /\ Len(Stream) = Len(sent) + 1 - 2
      BY <1>6, <1>8, <1>13, <2>3
    <3> QED
      <4>1. /\ Len(sent) \in 0..32 /\ Len(Stream) \in Nat /\ Len(fifo) \in Nat
            /\ Len(fifo) <= Len(Stream)
        BY <1>4, <1>5
      <4> QED
        BY <3>1, <3>2, <4>1, Zenon
<1>14. CASE k = 7
  <2>1. Len(sent) > 6
    BY <1>4, <1>5, <1>6, <1>8, <1>14
  <2>2. PICK p \in PayloadsFor(call) :
          /\ Len(sent) = Len(p) + 13
          /\ \A i \in 1..Len(p) + 7 : sent[i + 6] = Frame(p)[i]
    BY <1>4, <2>1
  <2>3. /\ p \in Seq(Octet) /\ Len(p) \in 2..19
        /\ Frame(p)[1] = 0 /\ Frame(p)[2] = 0 /\ Frame(p)[3] = 255 /\ Frame(p)[4] = Len(p)
        /\ \A i \in 1..Len(p) : Frame(p)[i + 5] = p[i]
    BY <1>3, FrameShape
  <2>4. fifo[4].byte = Len(p)
    <3>1. 4 \in 1..Len(fifo) /\ 4 + k - 1 = 4 + 6 /\ 4 \in 1..Len(p) + 7
      BY <1>5, <1>6, <1>14, <2>3
    <3> QED
      <4>1. fifo[4].byte = sent[4 + k - 1]
        BY <1>9, <3>1, Zenon
      <4>2. sent[4 + 6] = Frame(p)[4]
        BY <2>2, <3>1, Zenon
      <4> QED
        BY <2>3, <3>1, <4>1, <4>2
  <2>5. n = Len(p) + 7
    <3>1. fifo[4].byte # 0 /\ fifo[4].byte + 7 = Len(p) + 7
      BY <2>3, <2>4
    <3> QED
      BY <3>1, Zenon DEF Needed
  <2> HIDE DEF n, buff
  <2>6. DOMAIN buff = 1..n /\ \A i \in 1..n : buff[i] = Frame(p)[i]
    <3>1. n \in Nat /\ n >= 4
      BY <2>3, <2>5
    <3>2. DOMAIN buff = 1..n /\ \A i \in 1..n : buff[i] = sent[i + k - 1]
      BY <1>10, <3>1
    <3>3. ASSUME NEW i \in 1..n PROVE buff[i] = Frame(p)[i]
      <4>1. i \in 1..Len(p) + 7 /\ i + k - 1 = i + 6
        BY <1>14, <2>5
      <4> QED
        BY <2>2, <3>2, <4>1
    <3> QED
      BY <3>2, <3>3
  <2>7. ASSUME NEW q \in FrameIn(buff) PROVE q = p
    <3>1. /\ buff[1] = 0 /\ buff[2] = 0 /\ buff[3] = 255 /\ buff[4] = Len(p)
          /\ {1, 2, 3} \subseteq DOMAIN buff /\ DOMAIN buff \subseteq Nat \ {0}
      <4>1. {1, 2, 3, 4} \subseteq 1..n /\ 1..n \subseteq Nat \ {0}
        BY <2>3, <2>5
      <4> QED
        BY <2>3, <2>6, <4>1
    <3>2. q = SubSeq(buff, 6, 5 + Len(p))
      <4>1. /\ {1, 2, 3} \subseteq DOMAIN buff /\ DOMAIN buff \subseteq Nat \ {0}
            /\ buff[1] = 0 /\ buff[2] = 0 /\ buff[3] = 255
            => q = SubSeq(buff, 6, 5 + buff[4])
        BY Decoded
      <4> QED
        BY <3>1, <4>1, Zenon
    <3>3. ASSUME NEW i \in 1..Len(p) PROVE buff[6 + i - 1] = p[i]
      <4>1. i + 5 \in 1..n /\ 6 + i - 1 = i + 5
        BY <2>3, <2>5
      <4> QED
        <5>1. buff[i + 5] = Frame(p)[i + 5] /\ Frame(p)[i + 5] = p[i]
          BY <2>3, <2>6, <4>1, Zenon
        <5> QED
          BY <4>1, <5>1, Zenon
    <3>4. \A i \in 6..5 + Len(p) : buff[i] \in Octet
      <4> SUFFICES ASSUME NEW i \in 6..5 + Len(p) PROVE buff[i] \in Octet
        OBVIOUS
      <4>1. i - 5 \in 1..Len(p) /\ 6 + (i - 5) - 1 = i
        BY <2>3
      <4> QED
        <5>1. buff[6 + (i - 5) - 1] = p[i - 5]
          BY <3>3, <4>1, Zenon
        <5>2. p[i - 5] \in Octet
          BY <2>3, <4>1, ElementOfSeq
        <5> QED
          BY <4>1, <5>1, <5>2, Zenon
    <3>5. /\ q \in Seq(Octet) /\ Len(q) = IF 6 <= 5 + Len(p) THEN (5 + Len(p)) - 6 + 1 ELSE 0
          /\ \A i \in 1..(5 + Len(p)) - 6 + 1 : q[i] = buff[6 + i - 1]
      <4>1. 6 \in Int /\ 5 + Len(p) \in Int
        BY <2>3
      <4> QED
        BY <3>2, <3>4, <4>1, SubSeqProperties
    <3>6. /\ Len(q) = Len(p) /\ \A i \in 1..Len(q) : q[i] = p[i]
      BY <2>3, <3>3, <3>5
    <3> QED
      BY <2>3, <3>5, <3>6, SeqEqual
  <2> QED
    BY <1>11, <2>2, <2>7
<1> QED
  BY <1>12, <1>13, <1>14

(***************************************************************************)
(* The steps of the driver, the chip and the line.                         *)
(***************************************************************************)

\* Where a call under way stands.
LEMMA UnderWay ==
  ASSUME NfcOK, at # "idle"
  PROVE  /\ call \in CallsOfMain /\ call \in Calls
         /\ fifo \in Seq(OnLine) /\ wire \in Seq(OnLine)
         /\ \E sent \in SentSoFar, f \in Nat, k \in {1, 2, 7} :
              /\ sent \in Seq(Values) /\ k - 1 <= Len(sent) /\ Stands(Stream, sent, f, k)
              /\ k # 1 => f = 0 /\ at \in {"frameReady", "frame"}
<1>1. call \in CallsOfMain /\ call \in Calls
  BY CallIs DEF NfcOK, CallOK, BuffersOK, Calls
<1>2. fifo \in Seq(OnLine) /\ wire \in Seq(OnLine) /\ StreamOK
  BY DEF NfcOK, CallOK, LineOK
<1>3. PICK sent \in SentSoFar, f \in 0..Len(Stream), k \in {1, 2, 7} :
        /\ Stands(Stream, sent, f, k)
        /\ k # 1 => f = 0 /\ at \in {"frameReady", "frame"}
  BY <1>2 DEF StreamOK
<1>4. sent \in Seq(Values) /\ Len(sent) \in 0..32
  BY <1>1, SentShape
<1>5. Len(Stream) \in Nat /\ Len(Stream) = f + Len(sent) + 1 - k
  BY <1>2, <1>3, StreamShape DEF Stands
<1>6. f \in Nat /\ k - 1 <= Len(sent)
  <2>1. \A s, m \in Nat : \A g \in 0..m : \A j \in {1, 2, 7} :
          m = g + s + 1 - j => g \in Nat /\ j - 1 <= s
    OBVIOUS
  <2> QED
    BY <1>4, <1>5, <2>1
<1> QED
  BY <1>1, <1>2, <1>3, <1>4, <1>6

\* What is enough to stand somewhere again.
LEMMA StandsAgain ==
  ASSUME at' = at,
         NEW sent \in Seq(Values), sent \in SentSoFar', NEW f \in Nat, NEW k \in {1, 2, 7},
         k - 1 <= Len(sent), Stands(Stream', sent, f, k),
         k # 1 => f = 0 /\ at \in {"frameReady", "frame"}
  PROVE  StreamOK'
<1>1. Len(sent) \in Nat
  BY LenProperties
<1>2. Len(Stream') = f + Len(sent) + 1 - k
  BY DEF Stands
<1>3. f \in 0..Len(Stream')
  <2>1. \A s, g \in Nat : \A j \in {1, 2, 7} : j - 1 <= s => g \in 0..(g + s + 1 - j)
    OBVIOUS
  <2> QED
    BY <1>1, <1>2, <2>1
<1>4. k # 1 => f = 0 /\ at' \in {"frameReady", "frame"}
  OBVIOUS
<1> QED
  BY <1>3, <1>4 DEF StreamOK

\* wait_ready ends: nothing moves.
LEMMA ReadyKeeps ==
  ASSUME NfcOK, Ready, UNCHANGED nfcVars
  PROVE  NfcOK'
<1> USE DEF Ready, lineVars, chipVars, nfcVars
<1>1. LineOK' /\ BuffersOK'
  BY DEF NfcOK, LineOK, BuffersOK
<1>2. PICK sent \in SentSoFar, f \in 0..Len(Stream), k \in {1, 2, 7} :
        /\ Stands(Stream, sent, f, k)
        /\ k # 1 => f = 0 /\ at \in {"frameReady", "frame"}
  BY DEF NfcOK, CallOK, StreamOK
<1>3. Stream' = Stream /\ SentSoFar' = SentSoFar
  BY DEF Stream, SentSoFar
<1>4. Stands(Stream', sent, f, k)
  BY <1>2, <1>3 DEF Stands
<1>5. k # 1 => f = 0 /\ at' \in {"frameReady", "frame"}
  BY <1>2
<1>6. StreamOK'
  BY <1>3, <1>4, <1>5 DEF StreamOK
<1>7. NextCall' = NextCall
  BY DEF NextCall
<1> QED
  BY <1>1, <1>6, <1>7 DEF NfcOK, CallOK

\* The ACK is read.
LEMMA ReadAckKeeps ==
  ASSUME NfcOK, ReadAck, UNCHANGED nfcVars
  PROVE  NfcOK'
<1>1. /\ at = "ack" /\ at' = "frameReady" /\ wire' = wire /\ call' = call
      /\ UNCHANGED <<todo, doing, card, authed>> /\ UNCHANGED nfcVars
  BY DEF ReadAck, chipVars
<1>2. LineOK' /\ BuffersOK'
  BY <1>1 DEF NfcOK, LineOK, BuffersOK, nfcVars
<1>3. PICK sent \in SentSoFar, f \in Nat, k \in {1, 2, 7} :
        /\ sent \in Seq(Values) /\ Stands(Stream, sent, f, k) /\ k = 1
  BY <1>1, UnderWay
<1>4. /\ fifo' \in Seq(OnLine)
      /\ \E g \in Nat, j \in {1, 2, 7} :
           /\ j - 1 <= Len(sent) /\ Stands(Stream', sent, g, j)
           /\ j # 1 => g = 0
  BY <1>1, <1>3, UnderWay, AckRead
<1>5. StreamOK'
  <2>1. PICK g \in Nat, j \in {1, 2, 7} :
          /\ j - 1 <= Len(sent) /\ Stands(Stream', sent, g, j)
          /\ j # 1 => g = 0
    BY <1>4
  <2>2. SentSoFar' = SentSoFar
    BY <1>1 DEF SentSoFar
  <2>3. Len(sent) \in Nat /\ Len(Stream') = g + Len(sent) + 1 - j
    BY <1>3, <2>1, LenProperties DEF Stands
  <2>4. g \in 0..Len(Stream')
    <3>1. \A s, h \in Nat : \A i \in {1, 2, 7} : i - 1 <= s => h \in 0..(h + s + 1 - i)
      OBVIOUS
    <3> QED
      BY <2>1, <2>3, <3>1
  <2> QED
    BY <1>1, <2>1, <2>2, <2>4 DEF StreamOK
<1>6. NextCall' = NextCall
  BY <1>1 DEF NextCall, nfcVars
<1> QED
  BY <1>1, <1>2, <1>4, <1>5, <1>6 DEF NfcOK, CallOK, nfcVars

\* Bytes arrive.
LEMMA ArriveKeeps ==
  ASSUME NfcOK, Arrive, UNCHANGED nfcVars
  PROVE  NfcOK'
<1>1. /\ UNCHANGED <<at, call, todo, doing, card, authed>> /\ UNCHANGED nfcVars
  BY DEF Arrive, chipVars
<1>2. /\ wire' \in Seq(OnLine)
      /\ fifo \in Seq(OnLine) => fifo' \in Seq(OnLine) /\ Stream' = Stream
  BY ArriveMoves DEF NfcOK, LineOK
<1>3. LineOK' /\ BuffersOK'
  BY <1>1, <1>2 DEF NfcOK, LineOK, BuffersOK, nfcVars
<1>4. ASSUME at # "idle" PROVE fifo' \in Seq(OnLine) /\ StreamOK'
  <2>1. Stream' = Stream /\ SentSoFar' = SentSoFar /\ fifo' \in Seq(OnLine)
    BY <1>1, <1>2, <1>4, UnderWay DEF SentSoFar
  <2>2. PICK sent \in SentSoFar, f \in 0..Len(Stream), k \in {1, 2, 7} :
          /\ Stands(Stream, sent, f, k)
          /\ k # 1 => f = 0 /\ at \in {"frameReady", "frame"}
    BY <1>4 DEF NfcOK, CallOK, StreamOK
  <2>3. Stands(Stream', sent, f, k)
    BY <2>1, <2>2 DEF Stands
  <2> QED
    BY <1>1, <2>1, <2>2, <2>3 DEF StreamOK
<1>5. NextCall' = NextCall
  BY <1>1 DEF NextCall, nfcVars
<1> QED
  BY <1>1, <1>3, <1>4, <1>5 DEF NfcOK, CallOK, nfcVars

\* The card comes or goes.
LEMMA MoveCardKeeps ==
  ASSUME NfcOK, MoveCard, UNCHANGED nfcVars
  PROVE  NfcOK'
<1> USE DEF MoveCard, lineVars, nfcVars
<1>1. LineOK' /\ BuffersOK'
  BY DEF NfcOK, LineOK, BuffersOK
<1>2. Stream' = Stream /\ SentSoFar' = SentSoFar /\ NextCall' = NextCall
  BY DEF Stream, SentSoFar, NextCall
<1>3. StreamOK => StreamOK'
  <2> SUFFICES ASSUME StreamOK PROVE StreamOK'
    OBVIOUS
  <2>1. PICK sent \in SentSoFar, f \in 0..Len(Stream), k \in {1, 2, 7} :
          /\ Stands(Stream, sent, f, k)
          /\ k # 1 => f = 0 /\ at \in {"frameReady", "frame"}
    BY DEF StreamOK
  <2>2. Stands(Stream', sent, f, k)
    BY <1>2, <2>1 DEF Stands
  <2> QED
    BY <1>2, <2>1, <2>2 DEF StreamOK
<1> QED
  BY <1>1, <1>2, <1>3 DEF NfcOK, CallOK

\* A command or none.
LEMMA OneCommand ==
  ASSUME NEW q \in {<<>>} \cup {<<t>> : t \in Commands}, q # <<>>
  PROVE  /\ Head(q) = q[1] /\ Tail(q) = <<>> /\ q = <<q[1]>>
         /\ q[1] \in Commands /\ q[1].call \in Calls /\ q[1].own \in BOOLEAN
<1>1. PICK t \in Commands : q = <<t>>
  OBVIOUS
<1> QED
  BY <1>1 DEF Commands

\* The chip takes up a command.
LEMMA ChipAckKeeps ==
  ASSUME NfcOK, ChipAck, UNCHANGED nfcVars
  PROVE  NfcOK'
<1>1. /\ UNCHANGED <<at, call, fifo, card, authed>> /\ UNCHANGED nfcVars
      /\ todo # <<>> /\ wire = <<>>
      /\ Send(Ack, Head(todo).own) /\ doing' = <<Head(todo)>> /\ todo' = Tail(todo)
  BY DEF ChipAck
<1>2. /\ Head(todo) = todo[1] /\ Tail(todo) = <<>>
      /\ todo[1] \in Commands /\ todo[1].own \in BOOLEAN
  BY <1>1, OneCommand DEF NfcOK, LineOK
<1>3. todo' = <<>> /\ doing' = <<todo[1]>> /\ Send(Ack, todo[1].own)
  BY <1>1, <1>2
<1>4. wire' \in Seq(OnLine)
  BY <1>1, <1>2, <1>3, SendPuts, AckShape
<1>5. LineOK' /\ BuffersOK'
  BY <1>1, <1>2, <1>3, <1>4 DEF NfcOK, LineOK, BuffersOK, nfcVars
<1>6. ASSUME at # "idle"
      PROVE  /\ fifo' \in Seq(OnLine) /\ StreamOK'
             /\ doing'[1] = [call |-> call, own |-> TRUE]
  <2>1. todo[1] = [call |-> call, own |-> TRUE]
    BY <1>1, <1>6 DEF NfcOK, CallOK
  <2>2. PICK sent \in SentSoFar, f \in Nat, k \in {1, 2, 7} :
          /\ sent \in Seq(Values) /\ k - 1 <= Len(sent) /\ Stands(Stream, sent, f, k)
          /\ k # 1 => f = 0 /\ at \in {"frameReady", "frame"}
    BY <1>6, UnderWay
  <2>3. sent = <<>> /\ k = 1
    BY <1>1, <2>2 DEF SentSoFar
  <2>4. fifo \in Seq(OnLine) /\ fifo' = fifo /\ Send(Ack, TRUE)
    <3>1. todo[1].own = TRUE
      BY <2>1
    <3>2. Send(Ack, TRUE)
      BY <1>3, <3>1, Zenon
    <3> QED
      BY <1>1, <1>6, <3>2, UnderWay
  <2>5. Stands(Stream', sent \o Ack, f, k)
    <3>1. Ack \in Seq(Values) /\ wire = <<>>
      BY <1>1, AckShape
    <3> QED
      BY <2>2, <2>4, <3>1, OwnBytesStand
  <2>6. sent \o Ack = Ack
    BY <2>3, AckShape, ConcatEmptySeq
  <2>7. Stands(Stream', Ack, f, k)
    BY <2>5, <2>6
  <2>8. Ack \in SentSoFar'
    BY <1>3 DEF SentSoFar
  <2>9. k - 1 <= Len(Ack)
    BY <2>3, AckShape
  <2>10. StreamOK'
    <3>1. at' = at /\ fifo' \in Seq(OnLine) /\ Ack \in Seq(Values)
      BY <1>1, <2>4, AckShape
    <3>2. k # 1 => f = 0 /\ at \in {"frameReady", "frame"}
      BY <2>2
    <3> QED
      BY <1>4, <2>2, <2>7, <2>8, <2>9, <3>1, <3>2, StandsAgain
  <2> QED
    BY <1>3, <2>1, <2>4, <2>10
<1>7. NextCall' = NextCall
  BY <1>1 DEF NextCall, nfcVars
<1> QED
  BY <1>1, <1>3, <1>5, <1>6, <1>7 DEF NfcOK, CallOK, nfcVars

\* The chip answers it, or, late, an earlier one.
LEMMA ChipAnswerKeeps ==
  ASSUME NfcOK, ChipAnswer, UNCHANGED nfcVars
  PROVE  NfcOK'
<1> DEFINE c == doing[1].call
           p == PayloadOf(c, Answer(c).data)
<1>1. /\ UNCHANGED <<at, call, fifo, todo, card>> /\ UNCHANGED nfcVars
      /\ doing # <<>> /\ wire = <<>> /\ doing' = <<>>
      /\ Send(Frame(p), doing[1].own) /\ authed' = Answer(c).authed
  BY DEF ChipAnswer, PayloadOf
<1>2. doing[1] \in Commands /\ c \in Calls /\ doing[1].own \in BOOLEAN
  BY <1>1, OneCommand DEF NfcOK, LineOK
<1>3. p \in PayloadsFor(c)
  BY <1>2, AnswerShape DEF PayloadsFor
<1>4. Frame(p) \in Seq(Values)
  BY <1>2, <1>3, FrameShape
<1>5. wire' \in Seq(OnLine)
  BY <1>1, <1>2, <1>4, SendPuts
<1>6. authed' \in BOOLEAN
  <2>1. c.op \in {"list", "auth", "read", "wakeup"}
    BY <1>2, CallShape
  <2> QED
    BY <1>1, <2>1 DEF Answer, NfcOK, LineOK
<1>7. LineOK' /\ BuffersOK'
  BY <1>1, <1>5, <1>6 DEF NfcOK, LineOK, BuffersOK, nfcVars
<1>8. ASSUME at # "idle" PROVE fifo' \in Seq(OnLine) /\ StreamOK'
  <2>1. PICK sent \in SentSoFar, f \in Nat, k \in {1, 2, 7} :
          /\ sent \in Seq(Values) /\ k - 1 <= Len(sent) /\ Stands(Stream, sent, f, k)
          /\ k # 1 => f = 0 /\ at \in {"frameReady", "frame"}
    BY <1>8, UnderWay
  <2>2. fifo \in Seq(OnLine) /\ fifo' = fifo
    BY <1>1, <1>8, UnderWay
  <2>3. CASE todo # <<>>
    <3>1. sent = <<>> /\ k = 1 /\ SentSoFar' = {<<>>}
      BY <1>1, <2>1, <2>3 DEF SentSoFar
    <3>2. doing[1].own = FALSE
      BY <1>1, <1>2, <1>8, <2>3 DEF NfcOK, CallOK
    <3>3. Send(Frame(p), FALSE)
      BY <1>1, <3>2
    <3>4. f + Len(Frame(p)) \in Nat /\ Stands(Stream', <<>>, f + Len(Frame(p)), 1)
      BY <1>1, <1>4, <2>1, <2>2, <3>1, <3>3, LateBytesStand
    <3>5. 1 - 1 <= Len(sent) /\ sent \in SentSoFar' /\ 1 \in {1, 2, 7}
      BY <3>1
    <3> HIDE DEF p
    <3> QED
      BY <1>1, <1>5, <2>1, <2>2, <3>1, <3>4, <3>5, StandsAgain
  <2>4. CASE todo = <<>>
    <3>1. sent = Ack
      BY <1>1, <2>1, <2>4 DEF SentSoFar
    <3>2. doing[1] = [call |-> call, own |-> TRUE]
      BY <1>1, <1>8, <2>4 DEF NfcOK, CallOK
    <3>3. c = call /\ Send(Frame(p), TRUE)
      <4>1. doing[1].call = call /\ doing[1].own = TRUE
        BY <3>2
      <4> QED
        BY <1>1, <4>1, Zenon
    <3>4. Stands(Stream', Ack \o Frame(p), f, k)
      BY <1>1, <1>4, <2>1, <2>2, <3>1, <3>3, OwnBytesStand
    <3>5. Ack \o Frame(p) \in SentSoFar'
      BY <1>1, <1>3, <2>4, <3>3 DEF SentSoFar
    <3>6. Ack \o Frame(p) \in Seq(Values) /\ k - 1 <= Len(Ack \o Frame(p))
      <4> HIDE DEF p
      <4>1. /\ Ack \o Frame(p) \in Seq(Values)
            /\ Len(Ack \o Frame(p)) = Len(Ack) + Len(Frame(p)) /\ Len(Frame(p)) \in Nat
        <5> DEFINE frame == Frame(p)
        <5>1. frame \in Seq(Values) /\ Ack \in Seq(Values)
          BY <1>4, AckShape
        <5> HIDE DEF frame
        <5>2. /\ Ack \o frame \in Seq(Values)
              /\ Len(Ack \o frame) = Len(Ack) + Len(frame) /\ Len(frame) \in Nat
          BY <5>1, ConcatProperties, LenProperties
        <5> QED
          BY <5>2 DEF frame
      <4> QED
        BY <4>1, AckShape
    <3> HIDE DEF p
    <3> QED
      BY <1>1, <1>5, <2>1, <2>2, <3>4, <3>5, <3>6, StandsAgain
  <2> QED
    BY <2>3, <2>4
<1>9. NextCall' = NextCall
  BY <1>1 DEF NextCall, nfcVars
<1> QED
  BY <1>1, <1>7, <1>8, <1>9 DEF NfcOK, CallOK, nfcVars

\* A call begins: what is under way is of earlier calls.
LEMMA CallKeeps ==
  ASSUME NfcOK, Call
  PROVE  NfcOK'
<1>1. /\ main \in {"poll", "auth", "read"} /\ at = "idle" /\ todo = <<>>
      /\ at' = "ackReady" /\ call' = NextCall /\ fifo' = <<>> /\ wire' = Disowned(wire)
      /\ todo' = <<[call |-> NextCall, own |-> TRUE]>> /\ doing' = Disowned(doing)
      /\ UNCHANGED <<card, authed>> /\ UNCHANGED nfcVars
  BY DEF Call, BeginCall
<1>2. NextCall \in Calls /\ NextCall' = NextCall
  BY <1>1, CallIs DEF NfcOK, BuffersOK, Calls, NextCall, nfcVars
<1>3. /\ wire' \in Seq(OnLine) /\ Len(wire') \in Nat
      /\ \A i \in 1..Len(wire') : ~wire'[i].own
  <2>1. /\ wire \in [1..Len(wire) -> OnLine] /\ DOMAIN wire = 1..Len(wire)
        /\ Len(wire) \in Nat
    BY LenProperties DEF NfcOK, LineOK
  <2>2. wire' \in [1..Len(wire) -> OnLine] /\ \A i \in 1..Len(wire) : wire'[i].own = FALSE
    BY <1>1, <2>1 DEF Disowned, OnLine
  <2>3. wire' \in Seq(OnLine) /\ Len(wire') = Len(wire)
    BY <2>1, <2>2, FunctionIsSeq, Zenon
  <2> QED
    BY <2>1, <2>2, <2>3
<1>4. /\ doing' \in {<<>>} \cup {<<t>> : t \in Commands}
      /\ doing' # <<>> => ~doing'[1].own
  <2>1. CASE doing = <<>>
    BY <1>1, <2>1 DEF Disowned
  <2>2. CASE doing # <<>>
    <3>1. doing = <<doing[1]>> /\ doing[1] \in Commands
      BY <2>2, OneCommand DEF NfcOK, LineOK
    <3> DEFINE d == [doing[1] EXCEPT !.own = FALSE]
    <3>2. d \in Commands /\ d.own = FALSE
      BY <3>1 DEF Commands
    <3>3. doing' = <<d>>
      <4>1. DOMAIN doing = {1}
        BY <3>1
      <4>2. doing' = [i \in {1} |-> [doing[i] EXCEPT !.own = FALSE]]
        BY <1>1, <4>1 DEF Disowned
      <4>3. doing' \in [1..1 -> Commands] /\ doing'[1] = d
        BY <3>2, <4>2
      <4>4. doing' \in Seq(Commands) /\ Len(doing') = 1
        BY <4>3, FunctionIsSeq
      <4>5. <<d>> \in Seq(Commands) /\ Len(<<d>>) = 1 /\ <<d>>[1] = d
        BY <3>2
      <4>6. \A i \in 1..Len(doing') : doing'[i] = <<d>>[i]
        <5>1. \A i \in 1..1 : i = 1
          OBVIOUS
        <5> QED
          BY <4>3, <4>4, <4>5, <5>1, Zenon
      <4> QED
        BY <4>4, <4>5, <4>6, SeqEqual
    <3> QED
      BY <3>2, <3>3
  <2> QED
    BY <2>1, <2>2
<1>5. LineOK' /\ BuffersOK'
  BY <1>1, <1>2, <1>3, <1>4 DEF NfcOK, LineOK, BuffersOK, Commands, nfcVars
<1>6. StreamOK'
  <2>1. Stream' = wire'
    BY <1>1, <1>3, ConcatEmptySeq DEF Stream
  <2>2. <<>> \in SentSoFar'
    BY <1>1 DEF SentSoFar
  <2>3. Len(Stream') = Len(wire') + Len(<<>>) + 1 - 1
    BY <1>3, <2>1
  <2>4. \A i \in (Len(wire') + 1)..Len(Stream') : FALSE
    BY <1>3, <2>1
  <2>5. Stands(Stream', <<>>, Len(wire'), 1)
    BY <1>3, <2>1, <2>3, <2>4 DEF Stands
  <2>6. Len(wire') \in 0..Len(Stream')
    BY <1>3, <2>1
  <2> QED
    BY <2>2, <2>5, <2>6 DEF StreamOK
<1>7. fifo' \in Seq(OnLine)
  BY <1>1
<1>8. todo'[1] = [call |-> call', own |-> TRUE]
  BY <1>1
<1> QED
  BY <1>1, <1>2, <1>4, <1>5, <1>6, <1>7, <1>8 DEF NfcOK, CallOK, nfcVars

(***************************************************************************)
(* The steps of main.                                                      *)
(***************************************************************************)

\* At the end of a call nothing is asked of its bytes any more.
LEMMA EndKeeps ==
  ASSUME NfcOK, EndCall
  PROVE  LineOK' /\ CallOK' /\ at' = "idle"
BY DEF NfcOK, LineOK, CallOK, EndCall, chipVars

\* What a read that the chip did not refuse copies is the block (readBlock).
LEMMA BlockRead ==
  ASSUME NEW b \in Blocks, call = ReadOf(b), NEW p \in PayloadsFor(call), Response(p)[1] = 0
  PROVE  BlockIn(Response(p)) = Block[b]
<1> DEFINE r == Response(p)
<1>1. call \in Calls /\ call.op = "read" /\ call.size = 17 /\ call.block = b
  BY DEF Calls, CallsOfMain, ReadOf
<1>2. PICK data \in DataFor(call) : p = PayloadOf(call, data)
  BY DEF PayloadsFor
<1>3. /\ data \in Seq(Octet) /\ Len(data) \in 0..17
      /\ Len(p) = Len(data) + 2
      /\ \A i \in 1..Len(data) : p[i + 2] = data[i]
  BY <1>1, <1>2, PayloadShape
<1>4. \A i \in 1..17 : r[i] = IF i + 2 <= Len(p) THEN p[i + 2] ELSE Leftover
  BY <1>1 DEF Response
<1> HIDE DEF r
<1>5. data = <<0>> \o Block[b] \/ data = <<AuthError>>
  BY <1>1 DEF DataFor
<1>6. data # <<AuthError>>
  <2> SUFFICES ASSUME data = <<AuthError>> PROVE FALSE
    OBVIOUS
  <2>1. Len(data) = 1 /\ data[1] = 20
    BY DEF AuthError
  <2>2. Len(p) = 3 /\ p[1 + 2] = 20
    BY <1>3, <2>1
  <2>3. r[1] = 20
    BY <1>4, <2>2
  <2> QED
    BY <2>3 DEF r
<1>7. Block[b] \in Seq(Octet) /\ Len(Block[b]) = 16
  <2>1. Block[b] \in [1..16 -> Octet]
    BY Pn532Assumption DEF Blocks, Octet
  <2>2. 16 \in Nat
    OBVIOUS
  <2>3. \A s \in [1..16 -> Octet] : s \in Seq(Octet) /\ Len(s) = 16
    BY <2>2, FunctionIsSeq
  <2> QED
    BY <2>1, <2>3, Zenon
<1>8. Len(data) = 17 /\ \A i \in 1..16 : data[i + 1] = Block[b][i]
  <2> DEFINE blk == Block[b]
  <2>1. <<0>> \in Seq(Octet) /\ Len(<<0>>) = 1
    BY DEF Octet
  <2>2. blk \in Seq(Octet) /\ Len(blk) = 16 /\ data = <<0>> \o blk
    BY <1>5, <1>6, <1>7
  <2> HIDE DEF blk
  <2>3. /\ Len(data) = Len(<<0>>) + Len(blk)
        /\ \A i \in 1..Len(<<0>>) + Len(blk) :
             data[i] = IF i <= Len(<<0>>) THEN <<0>>[i] ELSE blk[i - Len(<<0>>)]
    BY <2>1, <2>2, ConcatProperties
  <2>4. ASSUME NEW i \in 1..16 PROVE data[i + 1] = blk[i]
    <3>1. /\ i + 1 \in 1..Len(<<0>>) + Len(blk) /\ ~(i + 1 <= Len(<<0>>))
          /\ (i + 1) - Len(<<0>>) = i
      BY <2>1, <2>2
    <3> QED
      BY <2>3, <3>1, Zenon
  <2>5. Len(data) = 17
    BY <2>1, <2>2, <2>3
  <2> QED
    BY <2>4, <2>5 DEF blk
<1>9. ASSUME NEW i \in 1..16 PROVE r[2 + i - 1] = Block[b][i]
  <2>1. /\ i + 1 \in 1..17 /\ 2 + i - 1 = i + 1 /\ i + 1 \in 1..Len(data)
        /\ (i + 1) + 2 <= Len(p)
    BY <1>3, <1>8
  <2>2. r[i + 1] = p[(i + 1) + 2]
    BY <1>4, <2>1, Zenon
  <2>3. p[(i + 1) + 2] = data[i + 1]
    BY <1>3, <2>1, Zenon
  <2>4. data[i + 1] = Block[b][i]
    BY <1>8, Zenon
  <2> QED
    BY <2>1, <2>2, <2>3, <2>4, Zenon
<1> DEFINE q == BlockIn(r)
<1>10. q \in Seq(Octet) /\ Len(q) = 16 /\ \A i \in 1..16 : q[i] = Block[b][i]
  <2>1. ASSUME NEW i \in 2..17 PROVE r[i] \in Octet
    <3>1. i - 1 \in 1..16 /\ 2 + (i - 1) - 1 = i
      OBVIOUS
    <3>2. r[2 + (i - 1) - 1] = Block[b][i - 1]
      BY <1>9, <3>1, Zenon
    <3>3. Block[b][i - 1] \in Octet
      BY <1>7, <3>1, ElementOfSeq
    <3> QED
      BY <3>1, <3>2, <3>3, Zenon
  <2>2. /\ q \in Seq(Octet) /\ Len(q) = IF 2 <= 17 THEN 17 - 2 + 1 ELSE 0
        /\ \A i \in 1..17 - 2 + 1 : q[i] = r[2 + i - 1]
    BY <2>1, SubSeqProperties DEF BlockIn
  <2> HIDE DEF q
  <2>3. q \in Seq(Octet) /\ Len(q) = 16 /\ \A i \in 1..16 : q[i] = r[2 + i - 1]
    BY <2>2
  <2> QED
    BY <1>9, <2>3
<1> HIDE DEF q
<1>11. q = Block[b]
  BY <1>7, <1>10, SeqEqual
<1> QED
  BY <1>11 DEF q, r

\* The invariant holds at the start.
LEMMA InitKeeps ==
  ASSUME Init
  PROVE  NfcOK /\ lost = 0
<1>1. [call |-> Wakeup, own |-> FALSE] \in Commands
  BY DEF Commands, Calls
<1>2. LineOK
  <2>1. wire \in Seq(OnLine) /\ doing = <<>> /\ card \in BOOLEAN /\ authed \in BOOLEAN
    <3>1. wire = <<>> /\ doing = <<>> /\ card \in BOOLEAN /\ authed = FALSE
      BY DEF Init, DriverInit
    <3>2. <<>> \in Seq(OnLine)
      OBVIOUS
    <3> QED
      BY <3>1, <3>2, Zenon
  <2>2. todo = <<>> \/ todo = <<[call |-> Wakeup, own |-> FALSE]>>
    BY DEF Init, DriverInit
  <2> QED
    BY <1>1, <2>1, <2>2 DEF LineOK
<1>3. at = "idle" /\ lost = 0 /\ main = "poll" /\ block = 1 /\ ssid = Zeros /\ pwd = Zeros
      /\ retry \in Int /\ on = FALSE /\ mixed = FALSE
  BY NfcAssumption DEF Init, DriverInit
<1>4. CallOK /\ BuffersOK
  BY <1>3 DEF CallOK, BuffersOK, Blocks
<1> QED
  BY <1>2, <1>3, <1>4 DEF NfcOK

\* The poll for a card ends.
LEMMA PollKeeps ==
  ASSUME NfcOK, PollFails \/ FindCard
  PROVE  NfcOK'
<1>1. main = "poll" /\ EndCall /\ UNCHANGED <<ssid, pwd, retry, on>>
  BY DEF PollFails, FindCard, CallFails, CallSucceeds, nfcVars
<1>2. UNCHANGED <<main, block, mixed>> \/ StartTurn
  BY DEF PollFails, FindCard, nfcVars
<1>3. LineOK' /\ CallOK' /\ at' = "idle"
  BY <1>1, EndKeeps
<1>4. BuffersOK'
  BY <1>1, <1>2, <1>3 DEF NfcOK, BuffersOK, StartTurn, Blocks
<1> QED
  BY <1>3, <1>4 DEF NfcOK

\* The authentication ends.
LEMMA AuthKeeps ==
  ASSUME NfcOK, Authenticated
  PROVE  NfcOK'
<1>1. /\ main = "auth" /\ main' = "read" /\ UNCHANGED <<block, ssid, pwd, retry, on>>
      /\ EndCall
  BY DEF Authenticated, CallFails, CallSucceeds
<1>2. LineOK' /\ CallOK' /\ at' = "idle"
  BY <1>1, EndKeeps
<1>3. mixed' \in BOOLEAN /\ (mixed => mixed')
  BY DEF Authenticated, TakesForeign, NfcOK, BuffersOK
<1>4. BuffersOK'
  BY <1>1, <1>2, <1>3 DEF NfcOK, BuffersOK
<1> QED
  BY <1>2, <1>4 DEF NfcOK

\* The read of a block ends.
LEMMA ReadKeeps ==
  ASSUME NfcOK, ReadFails \/ ReadSucceeds
  PROVE  NfcOK'
<1>1. /\ main = "read" /\ AfterBlock /\ EndCall /\ UNCHANGED <<retry, on>>
  BY DEF ReadFails, ReadSucceeds, CallFails, CallSucceeds
<1>2. LineOK' /\ CallOK' /\ at' = "idle"
  BY <1>1, EndKeeps
<1>3. main' \in {"auth", "wifi"} /\ block' \in Blocks
  BY <1>1 DEF AfterBlock, NfcOK, BuffersOK, Blocks
<1>4. mixed' \in BOOLEAN /\ (mixed => mixed')
  BY DEF ReadFails, ReadSucceeds, TakesForeign, NfcOK, BuffersOK
<1>5. ASSUME ~mixed'
      PROVE  ssid' \in {ssid, Block[1]} /\ pwd' \in {pwd, Block[2]}
  <2>1. ReadSucceeds /\ ~TakesForeign
    BY <1>5 DEF ReadFails, ReadSucceeds
  <2>2. GoodFrame /\ at = "frame"
    BY <2>1 DEF ReadSucceeds, CallSucceeds, GoodFrame
  <2>3. block \in Blocks /\ call = ReadOf(block) /\ call \in CallsOfMain
    BY <1>1, <2>2, UnderWay DEF NfcOK, CallOK, BuffersOK, NextCall
  <2>4. Payloads \subseteq PayloadsFor(call)
    BY <2>1, <2>2, <2>3, OwnFrame DEF TakesForeign, NfcOK
  <2>5. PICK p \in Payloads :
          LET r == Response(p)
          IN  IF r[1] = 0 THEN Fill(BlockIn(r)) ELSE UNCHANGED <<ssid, pwd>>
    BY <2>1 DEF ReadSucceeds
  <2>6. CASE Response(p)[1] = 0
    <3>1. BlockIn(Response(p)) = Block[block]
      BY <2>3, <2>4, <2>6, BlockRead
    <3>2. Fill(Block[block])
      BY <2>5, <2>6, <3>1
    <3> QED
      BY <2>3, <3>2 DEF Fill, Blocks
  <2>7. CASE Response(p)[1] # 0
    BY <2>5, <2>7
  <2> QED
    BY <2>6, <2>7
<1>6. BuffersOK'
  BY <1>1, <1>2, <1>3, <1>4, <1>5 DEF NfcOK, BuffersOK
<1> QED
  BY <1>2, <1>6 DEF NfcOK

\* Wi-Fi: the buffers are left alone, and a second turn finds it on.
LEMMA WifiKeeps ==
  ASSUME NfcOK, WifiOn \/ ConnectAp
  PROVE  NfcOK'
<1>1. /\ UNCHANGED <<at, call, fifo, wire, lost, todo, doing, card, authed>>
      /\ main \in {"wifi", "connect"}
  BY DEF WifiOn, ConnectAp, driverVars, lineVars, chipVars
<1>2. at = "idle"
  BY <1>1 DEF NfcOK, CallOK
<1>3. LineOK' /\ CallOK'
  BY <1>1, <1>2 DEF NfcOK, LineOK, CallOK
<1>4. BuffersOK'
  <2>1. CASE WifiOn
    BY <1>1, <2>1 DEF WifiOn, NfcOK, BuffersOK
  <2>2. CASE ConnectAp
    <3>1. main = "connect" /\ on = TRUE /\ on' = TRUE /\ at' = "idle" /\ retry \in Int
      BY <1>1, <1>2, <2>2 DEF ConnectAp, NfcOK, BuffersOK
    <3>2. /\ main' \in {"auth", "done"} /\ block' \in Blocks /\ mixed' \in BOOLEAN
          /\ retry' \in {retry, retry - 1}
      BY <2>2 DEF ConnectAp, StartTurn, NfcOK, BuffersOK, Blocks
    <3>3. retry' \in Int
      BY <3>1, <3>2
    <3> QED
      BY <3>1, <3>2, <3>3 DEF BuffersOK
  <2> QED
    BY <2>1, <2>2
<1> QED
  BY <1>3, <1>4 DEF NfcOK

(***************************************************************************)
(* The theorem.                                                            *)
(***************************************************************************)

\* The count of lost bytes never falls.
LEMMA LostGrows ==
  ASSUME lost \in Nat, [Next]_vars
  PROVE  lost' \in Nat /\ (lost' = 0 => lost = 0)
<1>1. lost' = lost \/ lost' = lost + 1
  <2>1. CASE Call
    BY <2>1 DEF Call, BeginCall
  <2>2. CASE Wait
    BY <2>2 DEF Wait, DriverStep, Ready, ReadAck, lineVars
  <2>3. CASE PollFails \/ FindCard \/ Authenticated \/ ReadFails \/ ReadSucceeds
    BY <2>3 DEF PollFails, FindCard, Authenticated, ReadFails, ReadSucceeds, CallFails,
                CallSucceeds, EndCall
  <2>4. CASE WifiOn \/ ConnectAp
    BY <2>4 DEF WifiOn, ConnectAp, driverVars, lineVars
  <2>5. CASE Outside
    BY <2>5 DEF Outside, ChipAck, ChipAnswer, Arrive, MoveCard, lineVars
  <2>6. CASE LineFails
    BY <2>6 DEF LineFails, LoseByte
  <2>7. CASE UNCHANGED vars
    BY <2>7 DEF vars, driverVars, lineVars
  <2> QED
    BY <2>1, <2>2, <2>3, <2>4, <2>5, <2>6, <2>7 DEF Next, Main
<1> QED
  BY <1>1

\* Every step that loses no byte keeps the invariant.
LEMMA NextKeeps ==
  ASSUME NfcOK, lost \in Nat, lost' = lost, [Next]_vars
  PROVE  NfcOK'
<1>1. CASE Call
  BY <1>1, CallKeeps
<1>2. CASE Wait
  BY <1>2, ReadyKeeps, ReadAckKeeps DEF Wait, DriverStep
<1>3. CASE PollFails \/ FindCard
  BY <1>3, PollKeeps
<1>4. CASE Authenticated
  BY <1>4, AuthKeeps
<1>5. CASE ReadFails \/ ReadSucceeds
  BY <1>5, ReadKeeps
<1>6. CASE WifiOn \/ ConnectAp
  BY <1>6, WifiKeeps
<1>7. CASE Outside /\ UNCHANGED nfcVars
  BY <1>7, ChipAckKeeps, ChipAnswerKeeps, ArriveKeeps, MoveCardKeeps DEF Outside
<1>8. CASE LineFails
  BY <1>8 DEF LineFails, LoseByte
<1>9. CASE UNCHANGED vars
  <2>1. /\ UNCHANGED <<at, call, quiet, fifo, wire, lost, todo, doing, card, authed>>
        /\ UNCHANGED nfcVars
    BY <1>9 DEF vars, driverVars, lineVars, chipVars
  <2>2. LineOK' /\ BuffersOK'
    BY <2>1 DEF NfcOK, LineOK, BuffersOK, nfcVars
  <2>3. NextCall' = NextCall /\ StreamOK' = StreamOK
    BY <2>1 DEF NextCall, StreamOK, SentSoFar, Stream, nfcVars
  <2>4. CallOK'
    BY <2>1, <2>3 DEF NfcOK, CallOK, nfcVars
  <2> QED
    BY <2>2, <2>4 DEF NfcOK
<1> QED
  BY <1>1, <1>2, <1>3, <1>4, <1>5, <1>6, <1>7, <1>8, <1>9 DEF Next, Main

\* As long as the line loses nothing, connect_ap gets what the card holds, or the
\* zeroes that a refused read leaves, unless a call of the turn failed or took the
\* answer of another: for every card, every time-out and every late answer, however
\* the bytes arrive (readBlock, main of ConnectWifiByNFC.c).
THEOREM CardsCredentials == Spec => [](lost = 0 => CredentialsAreTheCards)
<1>1. Init => NfcInv
  BY InitKeeps DEF NfcInv
<1>2. NfcInv /\ [Next]_vars => NfcInv'
  BY LostGrows, NextKeeps DEF NfcInv
<1>3. NfcInv => (lost = 0 => CredentialsAreTheCards)
  BY DEF NfcInv, NfcOK, BuffersOK, CredentialsAreTheCards
<1> QED
  BY <1>1, <1>2, <1>3, PTL DEF Spec
=============================================================================
