------------------------- MODULE BleProvisionProofs -------------------------
(***************************************************************************)
(* Theorems about BleProvision, for every sequence of writes, every length *)
(* of the buffers and every set of networks.                               *)
(*                                                                         *)
(* CopyOK ties the locals of the write callback to what it has copied, and *)
(* the buffers to the first write.  BleInv adds who has cleared running    *)
(* and what connect_ap was given.                                          *)
(***************************************************************************)
EXTENDS BleProvision, SequenceTheorems, TLAPS

(***************************************************************************)
(* Bytes and steps.                                                        *)
(***************************************************************************)

\* Copies of a character are a sequence.
LEMMA CopiesSeq ==
  ASSUME NEW n \in Nat, NEW c \in Int
  PROVE  /\ Copies(n, c) \in Seq(Int) /\ Len(Copies(n, c)) = n
         /\ \A x \in 1..n : Copies(n, c)[x] = c
<1>1. Copies(n, c) \in [1..n -> Int]
  BY DEF Copies
<1>2. Copies(n, c) \in Seq(Int)
  BY <1>1, SeqDef
<1>3. DOMAIN Copies(n, c) = 1..n /\ DOMAIN Copies(n, c) = 1..Len(Copies(n, c))
  BY <1>1, <1>2, LenProperties
<1>4. Len(Copies(n, c)) \in Nat
  BY <1>2, LenProperties
<1>5. Len(Copies(n, c)) = n
  BY <1>3, <1>4
<1> QED
  BY <1>2, <1>5 DEF Copies

\* The lengths of a write fit the buffers.
LEMMA WriteType ==
  ASSUME NEW w \in 1..Len(Writes)
  PROVE  Writes[w].name \in 1..BufLen /\ Writes[w].word \in 0..BufLen
<1>1. Writes[w] \in [name: 1..BufLen, word: 0..BufLen]
  BY WritesAssumption, ElementOfSeq
<1> QED
  BY <1>1

\* The bytes of a write: the name, a newline, the password.
LEMMA ValueBytes ==
  ASSUME NEW w \in 1..Len(Writes)
  PROVE  /\ Len(Value(w)) = Writes[w].name + 1 + Writes[w].word
         /\ \A x \in 1..Writes[w].name : Value(w)[x] = w
         /\ Value(w)[Writes[w].name + 1] = Newline
         /\ \A x \in 1..Writes[w].word : Value(w)[Writes[w].name + 1 + x] = w
<1>1. PICK n \in Nat, d \in Nat : n = Writes[w].name /\ d = Writes[w].word
  BY WriteType, WritesAssumption, SMTT(30)
<1>2. w \in Int
  BY WritesAssumption
<1>3. /\ Name(w) \in Seq(Int) /\ Len(Name(w)) = n /\ \A x \in 1..n : Name(w)[x] = w
      /\ Word(w) \in Seq(Int) /\ Len(Word(w)) = d /\ \A x \in 1..d : Word(w)[x] = w
  BY <1>1, <1>2, CopiesSeq DEF Name, Word
<1>4. PICK nl \in Seq(Int) : nl = <<Newline>> /\ Len(nl) = 1 /\ nl[1] = Newline
  <2>1. <<Newline>> \in Seq(Int) /\ Len(<<Newline>>) = 1 /\ <<Newline>>[1] = Newline
    BY DEF Newline
  <2> QED
    BY <2>1, Zenon
<1> DEFINE v == Name(w) \o nl
<1>5. /\ v \in Seq(Int) /\ Len(v) = n + 1
      /\ \A x \in 1..(n + 1) : v[x] = IF x <= n THEN Name(w)[x] ELSE nl[x - n]
  <2>1. /\ v \in Seq(Int) /\ Len(v) = Len(Name(w)) + Len(nl)
        /\ \A x \in 1..(Len(Name(w)) + Len(nl)) :
             v[x] = IF x <= Len(Name(w)) THEN Name(w)[x] ELSE nl[x - Len(Name(w))]
    BY <1>3, <1>4, ConcatProperties, Zenon
  <2> HIDE DEF v
  <2> QED
    BY <1>1, <1>3, <1>4, <2>1
<1> HIDE DEF v
<1>6. /\ \A x \in 1..n : v[x] = w
      /\ v[n + 1] = Newline
  <2>1. \A x \in 1..n : x \in 1..(n + 1) /\ x <= n
    BY <1>1
  <2>2. n + 1 \in 1..(n + 1) /\ ~(n + 1 <= n) /\ (n + 1) - n = 1
    BY <1>1
  <2>3. v[n + 1] = nl[(n + 1) - n]
    BY <1>5, <2>2
  <2>4. v[n + 1] = Newline
    BY <1>4, <2>2, <2>3
  <2> QED
    BY <1>3, <1>5, <2>1, <2>4
<1>7. /\ Len(v \o Word(w)) = n + 1 + d
      /\ \A x \in 1..(n + 1 + d) :
           (v \o Word(w))[x] = IF x <= n + 1 THEN v[x] ELSE Word(w)[x - (n + 1)]
  <2>1. /\ Len(v \o Word(w)) = Len(v) + Len(Word(w))
        /\ \A x \in 1..(Len(v) + Len(Word(w))) :
             (v \o Word(w))[x] = IF x <= Len(v) THEN v[x] ELSE Word(w)[x - Len(v)]
    BY <1>3, <1>5, ConcatProperties, Zenon
  <2> QED
    BY <1>3, <1>5, <2>1
<1>8. /\ \A x \in 1..(n + 1) : (v \o Word(w))[x] = v[x]
      /\ \A x \in 1..d : (v \o Word(w))[n + 1 + x] = Word(w)[x]
  BY <1>7
<1> QED
  <2>1. Value(w) = v \o Word(w)
    BY <1>4 DEF Value, v
  <2>5. \A x \in 1..(n + 1) : Value(w)[x] = v[x]
    BY <1>8, <2>1
  <2>6. n + 1 \in 1..(n + 1) /\ \A x \in 1..n : x \in 1..(n + 1)
    OBVIOUS
  <2>2. \A x \in 1..n : Value(w)[x] = w
    BY <1>6, <2>5, <2>6
  <2>3. Value(w)[n + 1] = Newline
    BY <1>6, <2>5, <2>6
  <2>4. \A x \in 1..d : Value(w)[n + 1 + x] = w
    BY <1>3, <1>8, <2>1
  <2> QED
    BY <1>1, <1>7, <2>1, <2>2, <2>3, <2>4

\* The place of the callback by its number.
LEMMA Steps ==
  ASSUME gatt.at \in 0..4
  PROVE  /\ Len(HandlerSteps) = 4
         /\ InHandler("copy") <=> gatt.at = 1
         /\ InHandler("lock") <=> gatt.at = 2
         /\ InHandler("clear") <=> gatt.at = 3
         /\ InHandler("again") <=> gatt.at = 4
         /\ NextStep = IF gatt.at = 4 THEN 0 ELSE gatt.at + 1
BY DEF HandlerSteps, InHandler, NextStep

\* A buffer that holds n copies of c, and the string it holds.
BufOf(n, c) == [x \in 1..BufLen |-> IF x <= n THEN c ELSE NUL]

\* The text is what was copied.
LEMMA TextOf ==
  ASSUME NEW n \in 0..BufLen, NEW c \in Nat \ {0}
  PROVE  Text(BufOf(n, c)) = Copies(n, c)
<1> DEFINE Ends(m) == /\ \A x \in 1..m : BufOf(n, c)[x] # NUL
                      /\ m = BufLen \/ BufOf(n, c)[m + 1] = NUL
<1>0. BufLen \in Nat
  BY WritesAssumption
<1>1. Ends(n)
  BY <1>0 DEF BufOf, NUL
<1>2. \A m \in 0..BufLen : Ends(m) => m = n
  <2> SUFFICES ASSUME NEW m \in 0..BufLen, Ends(m)
               PROVE  m = n
    OBVIOUS
  <2>1. ~(m < n)
    BY <1>0 DEF BufOf, NUL
  <2>2. ~(n < m)
    BY <1>0 DEF BufOf, NUL
  <2> QED
    BY <2>1, <2>2, <1>0
<1>3. (CHOOSE m \in 0..BufLen : Ends(m)) = n
  BY <1>1, <1>2
<1>4. \A x \in 1..n : BufOf(n, c)[x] = c
  BY <1>0 DEF BufOf
<1> QED
  BY <1>3, <1>4 DEF Text, Copies

(***************************************************************************)
(* The write callback.                                                     *)
(***************************************************************************)

\* Where the callback is in the bytes of its write: in the name, gatt.i is one
\* more than what is copied; behind the newline, two more.
Locals == [at: 0..4, w: 0..Len(Writes), i: Nat, j: Nat, k: Nat, flag: BOOLEAN]

LocalsOK ==
  /\ gatt \in Locals
  /\ gatt.at # 0 => gatt.w # 0
  /\ gatt.w = 0 => gatt.j = 0 /\ gatt.k = 0
  /\ gatt.w # 0 /\ gatt.flag = TRUE =>
       /\ gatt.at = 1
       /\ gatt.j <= Writes[gatt.w].name /\ gatt.k = 0 /\ gatt.i = gatt.j + 1
  /\ gatt.w # 0 /\ gatt.flag = FALSE =>
       /\ gatt.j = Writes[gatt.w].name /\ gatt.k <= Writes[gatt.w].word
       /\ gatt.i = gatt.j + gatt.k + 2
       /\ gatt.at # 1 => gatt.k = Writes[gatt.w].word

BufferOK ==
  /\ ssidBuf \in [1..BufLen -> Bytes] /\ pwdBuf \in [1..BufLen -> Bytes]
  /\ gatt.w <= 1 => ssidBuf = BufOf(gatt.j, 1) /\ pwdBuf = BufOf(gatt.k, 1)

PlacesOfMain ==
  running \in BOOLEAN /\ mutex \in {"none", "main", "gatt"} /\ main \in MainPlaces

CopyOK == LocalsOK /\ BufferOK /\ PlacesOfMain

\* The indices stay in the buffers.
LEMMA CopyTypes == CopyOK => BleTypeOK
<1> SUFFICES ASSUME CopyOK
             PROVE  BleTypeOK
  OBVIOUS
<1>1. gatt.j \in 0..BufLen /\ gatt.k \in 0..BufLen
  <2>1. CASE gatt.w = 0
    BY <2>1, WritesAssumption DEF CopyOK, LocalsOK, Locals
  <2>2. CASE gatt.w # 0
    <3>1. gatt.w \in 1..Len(Writes)
      BY <2>2, WritesAssumption DEF CopyOK, LocalsOK, Locals
    <3>2. Writes[gatt.w].name \in 1..BufLen /\ Writes[gatt.w].word \in 0..BufLen
      BY <3>1, WriteType
    <3> QED
      BY <2>2, <3>2, WritesAssumption, SMTT(30) DEF CopyOK, LocalsOK, Locals
  <2> QED
    BY <2>1, <2>2
<1> QED
  BY <1>1 DEF CopyOK, LocalsOK, Locals, BufferOK, PlacesOfMain, BleTypeOK, HandlerSteps

\* Steps that leave the callback and the buffers alone.
LEMMA CopyStays ==
  ASSUME CopyOK, UNCHANGED <<gatt, ssidBuf, pwdBuf>>, PlacesOfMain'
  PROVE  CopyOK'
BY DEF CopyOK, LocalsOK, BufferOK

\* One byte more, of the name, the newline or the password.
LEMMA BufMore ==
  ASSUME NEW n \in Nat, NEW c, NEW b \in Nat, b = BufLen, n < b
  PROVE  [BufOf(n, c) EXCEPT ![n + 1] = c] = BufOf(n + 1, c)
<1> DEFINE old == BufOf(n, c)
           new == BufOf(n + 1, c)
<1>1. \A x \in 1..b : [old EXCEPT ![n + 1] = c][x] = new[x]
  BY DEF BufOf
<1> QED
  BY <1>1 DEF BufOf

\* What a byte does to the locals.
LEMMA Moved ==
  ASSUME NEW g \in Locals
  PROVE  /\ [g EXCEPT !.i = @ + 1, !.j = @ + 1] \in Locals
         /\ [g EXCEPT !.i = @ + 1, !.k = @ + 1] \in Locals
         /\ [g EXCEPT !.i = @ + 1, !.flag = FALSE] \in Locals
         /\ \A s \in 0..4 : [g EXCEPT !.at = s] \in Locals
<1> DEFINE W == 0..Len(Writes)
<1>1. g \in [at: 0..4, w: W, i: Nat, j: Nat, k: Nat, flag: BOOLEAN]
  BY DEF Locals
<1> HIDE DEF W
<1>2. g.i + 1 \in Nat /\ g.j + 1 \in Nat /\ g.k + 1 \in Nat
  BY <1>1
<1>3. /\ [g EXCEPT !.i = @ + 1, !.j = @ + 1]
           \in [at: 0..4, w: W, i: Nat, j: Nat, k: Nat, flag: BOOLEAN]
      /\ [g EXCEPT !.i = @ + 1, !.k = @ + 1]
           \in [at: 0..4, w: W, i: Nat, j: Nat, k: Nat, flag: BOOLEAN]
  BY <1>1, <1>2
<1>4. /\ [g EXCEPT !.i = @ + 1, !.flag = FALSE]
           \in [at: 0..4, w: W, i: Nat, j: Nat, k: Nat, flag: BOOLEAN]
      /\ \A s \in 0..4 : [g EXCEPT !.at = s]
           \in [at: 0..4, w: W, i: Nat, j: Nat, k: Nat, flag: BOOLEAN]
  BY <1>1, <1>2
<1> QED
  BY <1>3, <1>4 DEF W, Locals

\* One byte of the write: of the name, the newline, or of the password.
LEMMA StoreKeeps ==
  ASSUME CopyOK, gatt.at = 1, gatt.i <= Len(Value(gatt.w)), Store
  PROVE  LocalsOK' /\ BufferOK'
<1>1. PICK w \in 1..Len(Writes) : w = gatt.w /\ w \in Nat /\ w # Newline /\ w # NUL
  BY WritesAssumption DEF CopyOK, LocalsOK, Locals, Newline, NUL
<1>2. PICK n \in Nat, d \in Nat : /\ n = Writes[w].name /\ d = Writes[w].word
                                 /\ n <= BufLen /\ d <= BufLen /\ BufLen \in Nat
  BY <1>1, WriteType, WritesAssumption, SMTT(30)
<1>3. /\ gatt \in Locals
      /\ gatt.flag = TRUE => gatt.j <= n /\ gatt.k = 0 /\ gatt.i = gatt.j + 1
      /\ gatt.flag = FALSE => gatt.j = n /\ gatt.k <= d /\ gatt.i = gatt.j + gatt.k + 2
      /\ gatt.flag = TRUE \/ gatt.flag = FALSE
      /\ gatt.i \in Nat /\ gatt.j \in Nat /\ gatt.k \in Nat
  BY <1>1, <1>2 DEF CopyOK, LocalsOK, Locals, NUL
<1>4. /\ Len(Value(w)) = n + 1 + d /\ Value(w)[n + 1] = Newline
      /\ \A x \in 1..n : Value(w)[x] = w
      /\ \A x \in 1..d : Value(w)[n + 1 + x] = w
  BY <1>2, ValueBytes
<1>5. w \in Bytes
  BY DEF Bytes
<1>6. CASE gatt.flag = TRUE /\ gatt.j < n
  <2>0. gatt.i \in 1..n
    BY <1>3, <1>6
  <2>1. Byte = w
    BY <1>1, <1>4, <2>0 DEF Byte
  <2>2. /\ gatt' = [gatt EXCEPT !.i = @ + 1, !.j = @ + 1]
        /\ ssidBuf' = [ssidBuf EXCEPT ![gatt.j + 1] = w]
        /\ UNCHANGED pwdBuf
    BY <1>1, <1>6, <2>1 DEF Store, IsSeparator
  <2>3. /\ gatt' \in Locals
        /\ gatt'.at = 1 /\ gatt'.w = w /\ gatt'.j = gatt.j + 1 /\ gatt'.k = 0
        /\ gatt'.i = gatt.i + 1 /\ gatt'.flag = TRUE
    <3>1. gatt' \in Locals
      BY <1>3, <2>2, Moved
    <3>2. /\ gatt'.at = gatt.at /\ gatt'.w = gatt.w /\ gatt'.k = gatt.k
          /\ gatt'.i = gatt.i + 1
          /\ gatt'.j = gatt.j + 1 /\ gatt'.flag = gatt.flag
      BY <1>3, <2>2 DEF Locals
    <3> QED
      BY <1>1, <1>3, <1>6, <3>1, <3>2
  <2>4. LocalsOK'
    <3>1. Writes[gatt'.w].name = n /\ gatt'.w # 0
      BY <1>1, <1>2, <2>3 DEF NUL
    <3>2. gatt'.j <= n /\ gatt'.i = gatt'.j + 1
      BY <1>2, <1>3, <1>6, <2>3
    <3>3. gatt'.flag # FALSE
      BY <2>3
    <3> QED
      BY <2>3, <3>1, <3>2, <3>3 DEF LocalsOK
  <2>5. ssidBuf' \in [1..BufLen -> Bytes] /\ pwdBuf' \in [1..BufLen -> Bytes]
    BY <1>5, <2>2 DEF CopyOK, BufferOK
  <2>6. ASSUME w <= 1
        PROVE  ssidBuf' = BufOf(gatt.j + 1, 1) /\ pwdBuf' = BufOf(0, 1)
    <3>1. w = 1
      BY <1>1, <2>6
    <3>2. ssidBuf = BufOf(gatt.j, 1) /\ pwdBuf = BufOf(0, 1)
      BY <1>1, <1>3, <1>6, <2>6 DEF CopyOK, BufferOK
    <3>3. gatt.j \in Nat /\ gatt.j < BufLen
      BY <1>2, <1>3, <1>6
    <3> QED
      BY <1>2, <2>2, <3>1, <3>2, <3>3, BufMore
  <2> QED
    BY <2>3, <2>4, <2>5, <2>6 DEF BufferOK
<1>7. CASE gatt.flag = TRUE /\ gatt.j = n
  <2>0. gatt.i = n + 1
    BY <1>3, <1>7
  <2>1. Byte = Newline
    BY <1>1, <1>4, <2>0 DEF Byte
  <2>2. gatt' = [gatt EXCEPT !.i = @ + 1, !.flag = FALSE] /\ UNCHANGED <<ssidBuf, pwdBuf>>
    BY <1>1, <2>1 DEF Store, IsSeparator
  <2>3. /\ gatt' \in Locals
        /\ gatt'.at = 1 /\ gatt'.w = w /\ gatt'.j = gatt.j /\ gatt'.k = 0
        /\ gatt'.i = gatt.i + 1 /\ gatt'.flag = FALSE
    <3>1. gatt' \in Locals
      BY <1>3, <2>2, Moved
    <3>2. /\ gatt'.at = gatt.at /\ gatt'.w = gatt.w /\ gatt'.k = gatt.k
          /\ gatt'.i = gatt.i + 1
          /\ gatt'.j = gatt.j /\ gatt'.flag = FALSE
      BY <1>3, <2>2 DEF Locals
    <3> QED
      BY <1>1, <1>3, <1>7, <3>1, <3>2
  <2>4. LocalsOK'
    <3>1. Writes[gatt'.w].name = n /\ Writes[gatt'.w].word = d /\ gatt'.w # 0
      BY <1>1, <1>2, <2>3 DEF NUL
    <3>2. gatt'.j = n /\ gatt'.k <= d /\ gatt'.i = gatt'.j + gatt'.k + 2
      BY <1>2, <1>3, <1>7, <2>3
    <3>3. gatt'.flag # TRUE
      BY <2>3
    <3> QED
      BY <2>3, <3>1, <3>2, <3>3 DEF LocalsOK
  <2> QED
    BY <1>1, <1>3, <1>7, <2>2, <2>3, <2>4 DEF CopyOK, BufferOK
<1>8. CASE gatt.flag = FALSE
  <2>9. gatt.k \in Nat /\ gatt.j = n /\ gatt.i = gatt.j + gatt.k + 2
    BY <1>3, <1>8, Zenon
  <2>0. gatt.k < d
    <3>1. gatt.i <= n + 1 + d
      BY <1>1, <1>4
    <3> QED
      BY <1>2, <1>3, <1>8, <3>1, SMTT(30)
  <2>1. Byte = w
    <3>0. PICK k \in Nat : k = gatt.k /\ gatt.i = n + k + 2
      BY <2>9
    <3>1. k + 1 \in 1..d /\ n + k + 2 = n + 1 + (k + 1)
      BY <2>0, <3>0
    <3> QED
      BY <1>1, <1>4, <3>0, <3>1 DEF Byte
  <2>2. /\ gatt' = [gatt EXCEPT !.i = @ + 1, !.k = @ + 1]
        /\ pwdBuf' = [pwdBuf EXCEPT ![gatt.k + 1] = w]
        /\ UNCHANGED ssidBuf
    <3>1. Byte # Newline
      BY <1>1, <2>1
    <3>2. /\ gatt' = [gatt EXCEPT !.i = @ + 1, !.k = @ + 1]
          /\ pwdBuf' = [pwdBuf EXCEPT ![gatt.k + 1] = Byte]
          /\ UNCHANGED ssidBuf
      BY <1>8, <3>1, Zenon DEF Store, IsSeparator
    <3> QED
      BY <2>1, <3>2
  <2>3. /\ gatt' \in Locals
        /\ gatt'.at = 1 /\ gatt'.w = w /\ gatt'.j = gatt.j /\ gatt'.k = gatt.k + 1
        /\ gatt'.i = gatt.i + 1 /\ gatt'.flag = FALSE
    <3>1. /\ gatt'.at = gatt.at /\ gatt'.w = gatt.w
          /\ gatt'.j = gatt.j /\ gatt'.flag = gatt.flag
      BY <1>3, <2>2 DEF Locals
    <3>2. gatt'.i = gatt.i + 1 /\ gatt'.k = gatt.k + 1
      BY <1>3, <2>2 DEF Locals
    <3>3. gatt' \in Locals
      BY <1>3, <2>2, Moved
    <3> QED
      BY <1>1, <1>8, <3>1, <3>2, <3>3
  <2>4. LocalsOK'
    <3>1. Writes[gatt'.w].name = n /\ Writes[gatt'.w].word = d /\ gatt'.w # 0
      BY <1>1, <1>2, <2>3 DEF NUL
    <3>0. PICK k \in Nat : k = gatt.k /\ gatt.i = n + k + 2 /\ gatt.j = n
      BY <2>9
    <3>4. k + 1 <= d /\ (n + k + 2) + 1 = n + (k + 1) + 2
      BY <2>0, <3>0
    <3>2. gatt'.j = n /\ gatt'.k <= d /\ gatt'.i = gatt'.j + gatt'.k + 2
      BY <2>3, <3>0, <3>4
    <3>3. gatt'.flag # TRUE
      BY <2>3
    <3> QED
      BY <2>3, <3>1, <3>2, <3>3 DEF LocalsOK
  <2>5. ssidBuf' \in [1..BufLen -> Bytes] /\ pwdBuf' \in [1..BufLen -> Bytes]
    BY <1>5, <2>2 DEF CopyOK, BufferOK
  <2>6. ASSUME w <= 1
        PROVE  ssidBuf' = BufOf(gatt.j, 1) /\ pwdBuf' = BufOf(gatt.k + 1, 1)
    <3>1. w = 1
      BY <1>1, <2>6
    <3>2. ssidBuf = BufOf(gatt.j, 1) /\ pwdBuf = BufOf(gatt.k, 1)
      BY <1>1, <2>6 DEF CopyOK, BufferOK
    <3>3. gatt.k \in Nat /\ gatt.k < BufLen
      BY <1>2, <1>3, <2>0
    <3> QED
      BY <1>2, <2>2, <3>1, <3>2, <3>3, BufMore
  <2> QED
    BY <2>3, <2>4, <2>5, <2>6 DEF BufferOK
<1>9. gatt.flag = TRUE => gatt.j < n \/ gatt.j = n
  BY <1>3
<1> QED
  BY <1>3, <1>6, <1>7, <1>8, <1>9

\* The loop over the bytes, and its end: by then the password is whole.
LEMMA CopyByteKeeps ==
  ASSUME CopyOK, CopyByte
  PROVE  CopyOK'
<1>1. gatt.at = 1 /\ PlacesOfMain'
  BY Steps DEF CopyByte, CopyOK, LocalsOK, Locals, PlacesOfMain
<1>2. CASE gatt.i <= Len(Value(gatt.w))
  BY <1>1, <1>2, StoreKeeps DEF CopyByte, CopyOK
<1>3. CASE ~(gatt.i <= Len(Value(gatt.w)))
  <2>1. PICK w \in 1..Len(Writes) : w = gatt.w /\ gatt.w # 0
    BY <1>1, WritesAssumption DEF CopyOK, LocalsOK, Locals
  <2>2. PICK n \in Nat, d \in Nat : n = Writes[w].name /\ d = Writes[w].word
    BY WriteType, WritesAssumption
  <2>11. Len(Value(w)) = n + 1 + d
    BY <2>2, ValueBytes
  <2>3. PICK i \in Nat, k \in Nat : i = gatt.i /\ k = gatt.k /\ ~(i <= n + 1 + d)
    BY <1>3, <2>1, <2>11 DEF CopyOK, LocalsOK, Locals
  <2>4. gatt.flag = FALSE
    <3>1. SUFFICES ASSUME gatt.flag = TRUE
                   PROVE  FALSE
      BY DEF CopyOK, LocalsOK, Locals
    <3>2. PICK j \in Nat : j <= n /\ i = j + 1
      BY <2>1, <2>2, <2>3, <3>1 DEF CopyOK, LocalsOK, Locals
    <3> QED
      BY <2>3, <3>2
  <2>5. gatt.j = n /\ k <= d /\ i = n + k + 2
    BY <2>1, <2>2, <2>3, <2>4 DEF CopyOK, LocalsOK
  <2>6. k = d
    BY <2>3, <2>5
  <2>7. gatt' = [gatt EXCEPT !.at = 2] /\ UNCHANGED <<ssidBuf, pwdBuf>>
    BY <1>1, <1>3, Steps DEF CopyByte
  <2>8. /\ gatt' \in Locals /\ gatt'.at = 2 /\ gatt'.w = gatt.w /\ gatt'.i = gatt.i
        /\ gatt'.j = gatt.j /\ gatt'.k = gatt.k /\ gatt'.flag = FALSE
    <3>1. gatt \in Locals
      BY DEF CopyOK, LocalsOK
    <3>4. 2 \in 0..4
      OBVIOUS
    <3>3. [gatt EXCEPT !.at = 2] \in Locals
      BY <3>1, <3>4, Moved, Zenon
    <3>2. gatt' \in Locals
      BY <2>7, <3>3
    <3> QED
      BY <2>4, <2>7, <3>1, <3>2 DEF Locals
  <2>9. LocalsOK'
    BY <2>1, <2>2, <2>3, <2>5, <2>6, <2>8 DEF LocalsOK
  <2>10. BufferOK'
    BY <2>7, <2>8 DEF CopyOK, BufferOK
  <2> QED
    BY <1>1, <2>9, <2>10 DEF CopyOK
<1> QED
  BY <1>2, <1>3

\* The steps of the callback behind the copy.
LEMMA CopiedStays ==
  ASSUME CopyOK, gatt.at \in 2..4, gatt' = [gatt EXCEPT !.at = NextStep],
         UNCHANGED <<ssidBuf, pwdBuf>>, PlacesOfMain'
  PROVE  CopyOK'
<1>1. NextStep \in {0, 3, 4}
  BY Steps
<1>2. gatt.flag = FALSE
  BY DEF CopyOK, LocalsOK, Locals
<1>3. /\ gatt' \in Locals /\ gatt'.at \in {0, 3, 4} /\ gatt'.w = gatt.w
      /\ gatt'.i = gatt.i /\ gatt'.j = gatt.j /\ gatt'.k = gatt.k
      /\ gatt'.flag = gatt.flag
  <2>1. gatt \in Locals /\ NextStep \in 0..4
    BY <1>1 DEF CopyOK, LocalsOK
  <2>2. gatt' \in Locals
    BY <2>1, Moved
  <2> QED
    BY <1>1, <2>1, <2>2 DEF Locals
<1>4. LocalsOK'
  BY <1>2, <1>3 DEF CopyOK, LocalsOK
<1> QED
  BY <1>3, <1>4 DEF CopyOK, BufferOK

\* A write request resets the locals and not the buffers.
LEMMA WriteRequestKeeps ==
  ASSUME CopyOK, WriteRequest
  PROVE  CopyOK'
<1>1. PICK w \in 1..Len(Writes) : w = gatt.w + 1
  BY WritesAssumption DEF WriteRequest, CopyOK, LocalsOK, Locals
<1>2. /\ gatt' = [at |-> 1, w |-> w, i |-> 1, j |-> 0, k |-> 0, flag |-> TRUE]
      /\ w # 0
  BY <1>1 DEF WriteRequest
<1>3. gatt' \in Locals
  <2>1. w \in 0..Len(Writes)
    BY <1>1
  <2> QED
    BY <1>2, <2>1 DEF Locals
<1>4. PICK n \in Nat : n = Writes[w].name
  BY WriteType, WritesAssumption
<1>5. LocalsOK'
  BY <1>2, <1>3, <1>4 DEF LocalsOK
<1>6. BufferOK'
  <2>1. ssidBuf' = ssidBuf /\ pwdBuf' = pwdBuf
    BY DEF WriteRequest
  <2>2. CASE gatt.w = 0
    BY <1>2, <2>1, <2>2 DEF CopyOK, LocalsOK, BufferOK
  <2>3. CASE gatt.w # 0
    <3>1. ~(w <= 1)
      BY <1>1, <2>3, WritesAssumption DEF CopyOK, LocalsOK, Locals
    <3> QED
      BY <1>2, <2>1, <3>1 DEF CopyOK, BufferOK
  <2> QED
    BY <2>2, <2>3
<1> QED
  BY <1>5, <1>6 DEF CopyOK, WriteRequest, PlacesOfMain

\* What a step of the manager does to the program around it.
Passed ==
  /\ running' = (running /\ ~(\E t \in Threads : /\ cb[t] = "call" /\ cb'[t] = "off"
                                                 /\ state = "NETWORK_CONNECTED"))
  /\ UNCHANGED <<ssidBuf, pwdBuf, mutex, main, gatt>>

\* What each of them does, and what all of them leave alone.
LEMMA ManagerPasses ==
  /\ WithManager(ApiStep) => ApiStep /\ Passed
  /\ WithManager(EvtStep) => EvtStep /\ Passed
  /\ WithManager(Supplicant) => Supplicant /\ Passed
  /\ \A t \in Threads : WithManager(CallbackStep(t)) => CallbackStep(t) /\ Passed
BY DEF WithManager, Passed

\* The callback of the manager may clear running.
LEMMA RunningStays ==
  ASSUME Passed, running \in BOOLEAN
  PROVE  /\ running' \in BOOLEAN
         /\ running' = running \/ \E t \in Threads : cb[t] = "call"
<1>1. running' = (running /\ ~(\E t \in Threads : /\ cb[t] = "call" /\ cb'[t] = "off"
                                                /\ state = "NETWORK_CONNECTED"))
  BY DEF Passed
<1>2. CASE \E t \in Threads : /\ cb[t] = "call" /\ cb'[t] = "off"
                              /\ state = "NETWORK_CONNECTED"
  <2>1. running' = FALSE
    BY <1>1, <1>2, Zenon
  <2>2. \E t \in Threads : cb[t] = "call"
    BY <1>2
  <2> QED
    BY <2>1, <2>2
<1>3. CASE ~(\E t \in Threads : /\ cb[t] = "call" /\ cb'[t] = "off"
                                /\ state = "NETWORK_CONNECTED")
  <2>1. running' = (running /\ TRUE)
    BY <1>1, <1>3, Zenon
  <2>2. running' = running
    BY <2>1
  <2> QED
    BY <2>2
<1> QED
  BY <1>2, <1>3

\* CopyOK holds from the start and is kept by every step.
LEMMA CopyInductive ==
  /\ BleInit => CopyOK
  /\ CopyOK /\ [BleNext]_allVars => CopyOK'
<1>1. BleInit => CopyOK
  <2> SUFFICES ASSUME BleInit
               PROVE  CopyOK
    OBVIOUS
  <2>1. /\ gatt = [at |-> 0, w |-> 0, i |-> 0, j |-> 0, k |-> 0, flag |-> FALSE]
        /\ 0 \in 0..Len(Writes)
    BY WritesAssumption DEF BleInit
  <2>2. LocalsOK
    BY <2>1 DEF LocalsOK, Locals
  <2>3. BufOf(0, 1) = [x \in 1..BufLen |-> NUL]
    BY DEF BufOf
  <2>4. BufferOK
    BY <2>1, <2>3 DEF BleInit, BufferOK, Bytes
  <2> QED
    BY <2>2, <2>4 DEF CopyOK, PlacesOfMain, BleInit, MainPlaces
<1>2. CopyOK /\ [BleNext]_allVars => CopyOK'
  <2> SUFFICES ASSUME CopyOK, [BleNext]_allVars
               PROVE  CopyOK'
    OBVIOUS
  <2>1. CASE UNCHANGED allVars
    BY <2>1, CopyStays DEF allVars, bleVars, CopyOK, PlacesOfMain
  <2>2. CASE MainStep
    <3>1. PlacesOfMain' /\ UNCHANGED <<gatt, ssidBuf, pwdBuf>>
      BY <2>2 DEF MainStep, Lock, ReadRunning, Unlock, WifiOn, WifiIsOn, LeaveSpin,
         Connect, Finish, CopyOK, PlacesOfMain, MainPlaces
    <3> QED
      BY <3>1, CopyStays
  <2>3. CASE WriteRequest
    BY <2>3, WriteRequestKeeps
  <2>4. CASE CopyByte
    BY <2>4, CopyByteKeeps
  <2>5. CASE LockForClear \/ ClearRunning \/ ClearAgain
    <3>1. gatt.at \in 2..4
      BY <2>5, Steps DEF LockForClear, ClearRunning, ClearAgain, CopyOK, LocalsOK, Locals
    <3>2. PlacesOfMain'
      BY <2>5 DEF LockForClear, ClearRunning, ClearAgain, CopyOK, PlacesOfMain
    <3> QED
      BY <2>5, <3>1, <3>2, CopiedStays DEF LockForClear, ClearRunning, ClearAgain
  <2>6. CASE Passed
    <3>1. PlacesOfMain' /\ UNCHANGED <<gatt, ssidBuf, pwdBuf>>
      BY <2>6, RunningStays DEF Passed, CopyOK, PlacesOfMain
    <3> QED
      BY <3>1, CopyStays
  <2> QED
    BY <2>1, <2>2, <2>3, <2>4, <2>5, <2>6, ManagerPasses DEF BleNext, GattStep
<1> QED
  BY <1>1, <1>2

\* Neither buffer is written behind its end, and the indices of the write
\* callback stay in them whatever the lengths of the names and the passwords.
THEOREM BleTypeCorrect == BleSpec => []BleTypeOK
<1>1. BleInit => CopyOK
  BY CopyInductive
<1>2. CopyOK /\ [BleNext]_allVars => CopyOK'
  BY CopyInductive
<1>3. CopyOK => BleTypeOK
  BY CopyTypes
<1> QED
  BY <1>1, <1>2, <1>3, PTL DEF BleSpec

(***************************************************************************)
(* What connect_ap is given, and what becomes of it.                       *)
(***************************************************************************)

\* Before aw_wifi_on nothing of the manager runs.
MainOff ==
  main \in {"lock", "read", "on"} =>
    /\ pc = "idle" /\ call.op = "none" /\ ~listening
    /\ \A t \in Threads : cb[t] = "off"

\* Nothing clears running before the first write is copied.
Served ==
  ~running \/ main \notin {"lock", "read"} =>
    gatt.w >= 1 /\ (gatt.w = 1 => gatt.at # 1)

\* connect_ap is the only call.
OpOK ==
  /\ {"op", "ssid"} \subseteq DOMAIN call
  /\ call.op \in {"none", "connect_ap"}
  /\ pc \notin {"idle", "status"} => call.op = "connect_ap"
  /\ pc # "pbc"

\* Until the second write the call has the name of the first one, and so has
\* every network that was not there before.
CallNames ==
  gatt.w <= 1 /\ call.op = "connect_ap" => gatt.w = 1 /\ call.ssid = Name(1)

Shaped(n) == {"id", "ssid"} \subseteq DOMAIN n
Sent(n) ==
  gatt.w <= 1 /\ n.id \notin Ids(KnownNets) => gatt.w = 1 /\ n.ssid = Name(1)
NetOK == \A n \in net \cup saved : Shaped(n) /\ Sent(n)

BleInv == CopyOK /\ MainOff /\ Served /\ OpOK /\ CallNames /\ NetOK

\* The buffers after the first write.
LEMMA FirstText ==
  ASSUME CopyOK, gatt.w = 1, gatt.at # 1
  PROVE  Text(ssidBuf) = Name(1) /\ Text(pwdBuf) = Word(1)
<1>1. 1 \in 1..Len(Writes)
  BY WritesAssumption DEF CopyOK, LocalsOK, Locals
<1>2. gatt.flag = FALSE
  BY DEF CopyOK, LocalsOK, Locals
<1>3. /\ gatt.j = Writes[1].name /\ gatt.k = Writes[1].word
      /\ ssidBuf = BufOf(gatt.j, 1) /\ pwdBuf = BufOf(gatt.k, 1)
  BY <1>2 DEF CopyOK, LocalsOK, BufferOK
<1>4. /\ Writes[1].name \in 0..BufLen /\ Writes[1].word \in 0..BufLen
      /\ 1 \in Nat \ {0}
  BY <1>1, WriteType, WritesAssumption
<1>5. /\ Text(BufOf(Writes[1].name, 1)) = Copies(Writes[1].name, 1)
      /\ Text(BufOf(Writes[1].word, 1)) = Copies(Writes[1].word, 1)
  BY <1>4, TextOf, Zenon
<1> QED
  BY <1>3, <1>5 DEF Name, Word

\* Both properties are read off the invariant.
LEMMA InvImplies == BleInv => WholeWriteBeforeWifi /\ AddsWhatWasSent
<1> SUFFICES ASSUME BleInv
             PROVE  WholeWriteBeforeWifi /\ AddsWhatWasSent
  OBVIOUS
<1>1. WholeWriteBeforeWifi
  BY FirstText DEF BleInv, Served, WholeWriteBeforeWifi
<1>2. gatt.w <= 1 => \A n \in net : n.id \notin Ids(KnownNets) => gatt.w = 1 /\ n.ssid = Name(1)
  BY DEF BleInv, NetOK, Sent
<1>3. ASSUME gatt.w <= 1, call.op = "connect_ap"
      PROVE  gatt.w = 1 /\ call.ssid = Name(1) /\ Text(pwdBuf) = Word(1)
  <2>1. main \notin {"lock", "read"}
    BY <1>3 DEF BleInv, MainOff
  <2> QED
    BY <1>1, <1>3, <2>1 DEF BleInv, CallNames, WholeWriteBeforeWifi
<1> QED
  BY <1>1, <1>2, <1>3 DEF AddsWhatWasSent

\* Where the networks of a list come from: they were there, or the call under
\* way made them.
From(nets) ==
  \A m \in nets :
    /\ Shaped(m)
    /\ \/ \E n \in net \cup saved : n.id = m.id /\ n.ssid = m.ssid
       \/ call.op = "connect_ap" /\ m.ssid = call.ssid

AllShaped == \A n \in net \cup saved : Shaped(n)

\* Networks that were there before.
LEMMA FromPart ==
  ASSUME AllShaped, NEW a \in SUBSET (net \cup saved)
  PROVE  From(a)
BY DEF AllShaped, From

\* Turning a network on or off changes neither its identifier nor its name.
LEMMA FromSwitch ==
  ASSUME AllShaped, NEW nets,
         \A m \in nets : \E n \in net : \E b : m = [n EXCEPT !.on = b]
  PROVE  From(nets)
BY DEF AllShaped, From, Shaped

\* The commands that take networks away, or switch them.
LEMMA RemoveFrom ==
  ASSUME AllShaped, NEW i, RemoveAndSave(i) \/ CancelSavedConf(i)
  PROVE  From(net') /\ From(saved')
<1>1. net' \in SUBSET (net \cup saved) /\ saved' \in SUBSET (net \cup saved)
  BY DEF RemoveAndSave, CancelSavedConf, SaveConfig, Saved, Without, conf
<1> QED
  BY <1>1, FromPart

\* ENABLE_NETWORK of each.
LEMMA EnableFrom ==
  ASSUME AllShaped, EnableNetworks
  PROVE  From(net') /\ From(saved')
<1>1. CASE alive
  <2>1. net' = {[n EXCEPT !.on = TRUE] : n \in net} /\ saved' \in {net', saved}
    BY <1>1 DEF EnableNetworks, SaveConfig, Saved
  <2>2. From(net')
    BY <2>1, FromSwitch
  <2>3. From(saved)
    BY FromPart
  <2> QED
    BY <2>1, <2>2, <2>3
<1>2. CASE ~alive
  <2>1. net' \in SUBSET (net \cup saved) /\ saved' \in SUBSET (net \cup saved)
    BY <1>2 DEF EnableNetworks, conf
  <2> QED
    BY <2>1, FromPart
<1> QED
  BY <1>1, <1>2

\* A call keeps its name until it returns.
SameCall ==
  /\ DOMAIN call' = DOMAIN call /\ call'.op = call.op /\ call'.ssid = call.ssid

Continues ==
  /\ pc # "idle" /\ From(net') /\ From(saved')
  /\ \/ SameCall /\ pc' # "pbc" /\ (pc = "status" => pc' = "idle")
     \/ call' = NoCall /\ pc' = "idle"

\* The record of no call.
LEMMA NoCallShape == {"op", "ssid"} \subseteq DOMAIN NoCall /\ NoCall.op = "none"
BY DEF NoCall

\* The call that refuses its arguments fails.
LEMMA NoCallRet ==
  ASSUME NEW e, NEW c, c = [NoCall EXCEPT !.op = e, !.ret = -1]
  PROVE  c.ret # 0
BY DEF NoCall

\* No update that a call makes to its locals renames it.
LEMMA EditsSame ==
  ASSUME OpOK
  PROVE  /\ UNCHANGED call => SameCall
         /\ call' = [call EXCEPT !.ret = -1] => SameCall
         /\ call' = [call EXCEPT !.ret = 0] => SameCall
         /\ call' = [call EXCEPT !.stale = 0] => SameCall
         /\ \A i, j : call' = [call EXCEPT !.new = i, !.old = j] => SameCall
         /\ \A n : call' = [call EXCEPT !.new = NoId, !.stale = n] => SameCall
         /\ \A m, r : call' = [call EXCEPT !.mgmt = m, !.rest = r] => SameCall
         /\ \A m, r : call' = [call EXCEPT !.mgmt = m, !.rest = r, !.first = FALSE]
                        => SameCall
BY DEF SameCall, OpOK

\* No attempt ends in the push button.
LEMMA FinishedThere == Finished # "pbc"
BY DEF Finished

\* Commands that fail, or that leave the list alone.
LEMMA ListStays ==
  ASSUME AllShaped, UNCHANGED conf
  PROVE  From(net') /\ From(saved')
<1>1. net' \in SUBSET (net \cup saved) /\ saved' \in SUBSET (net \cup saved)
  BY DEF conf
<1> QED
  BY <1>1, FromPart

\* ADD_NETWORK gives the new entry the name of the call.
LEMMA CreateContinues ==
  ASSUME OpOK, AllShaped, CreateNetwork
  PROVE  Continues
<1>1. pc = "add" /\ call.op = "connect_ap" /\ saved' = saved
  BY DEF CreateNetwork, At, OpOK
<1>2. From(saved')
  BY <1>1, FromPart
<1>3. CASE \E i \in NetIds \ Ids(net) :
             /\ net' = net \cup {[id |-> i, ssid |-> call.ssid,
                                  key |-> KeyType(call.mgmt), on |-> FALSE]}
             /\ \E j : call' = [call EXCEPT !.new = i, !.old = j]
             /\ Goto("configure")
  <2>1. From(net')
    BY <1>1, <1>3 DEF From, AllShaped, Shaped
  <2>2. SameCall
    BY <1>3, EditsSame
  <2> QED
    BY <1>1, <1>2, <1>3, <2>1, <2>2 DEF Continues, Goto
<1>4. CASE Fail("CMD_OR_PARAMS_ERROR", Finished) /\ UNCHANGED net
  <2>1. From(net')
    BY <1>4, FromPart
  <2>2. SameCall /\ pc' = Finished
    BY <1>4, EditsSame DEF Fail, Goto
  <2> QED
    BY <1>1, <1>2, <2>1, <2>2, FinishedThere DEF Continues
<1> QED
  BY <1>3, <1>4 DEF CreateNetwork

\* SET_NETWORK gives no other name.
LEMMA ConfigureContinues ==
  ASSUME OpOK, AllShaped, Configure
  PROVE  Continues
<1>1. pc = "configure"
  BY DEF Configure, At
<1>2. CASE Goto("select") /\ UNCHANGED <<state, event, call, conf, link>>
  <2>1. From(net') /\ From(saved') /\ SameCall
    BY <1>2, ListStays, EditsSame
  <2> QED
    BY <1>1, <1>2, <2>1 DEF Continues, Goto
<1>3. CASE \E e : Fail(e, Finished)
  <2>1. SameCall /\ pc' = Finished
    BY <1>3, EditsSame DEF Fail, Goto
  <2>2. CASE RemoveAndSave(call.new) \/ CancelSavedConf(call.new)
    BY <1>1, <2>1, <2>2, RemoveFrom, FinishedThere DEF Continues
  <2>3. CASE net' = Without(net, call.new) /\ UNCHANGED <<saved, link>>
    <3>1. net' \in SUBSET (net \cup saved) /\ saved' \in SUBSET (net \cup saved)
      BY <2>3 DEF Without
    <3> QED
      BY <1>1, <2>1, <3>1, FromPart, FinishedThere DEF Continues
  <2> QED
    BY <1>3, <2>2, <2>3 DEF Configure, Goto, Fail, Finished
<1> QED
  BY <1>2, <1>3 DEF Configure

\* SELECT_NETWORK gives none.
LEMMA SelectContinues ==
  ASSUME OpOK, AllShaped, SelectNew \/ SelectExisting
  PROVE  Continues
<1>1. pc = "select" /\ SelectNew
  BY DEF SelectNew, SelectExisting, At, OpOK
<1>2. CASE /\ SelectNetwork(call.new)
           /\ IF call.op = "add_network" THEN Saved ELSE UNCHANGED <<saved, unsaved>>
           /\ Goto("wait") /\ UNCHANGED <<state, event, call>>
  <2>1. From(net')
    <3>1. net' = {[n EXCEPT !.on = (n.id = call.new)] : n \in net}
      BY <1>2 DEF SelectNetwork
    <3> QED
      BY <3>1, FromSwitch
  <2>2. From(saved')
    BY <1>2, <2>1, FromPart DEF Saved
  <2> QED
    BY <1>1, <1>2, <2>1, <2>2, EditsSame DEF Continues, Goto
<1>3. CASE RemoveAndSave(call.new) /\ Fail("CMD_OR_PARAMS_ERROR", Finished)
  <2>1. SameCall /\ pc' = Finished
    BY <1>3, EditsSame DEF Fail, Goto
  <2> QED
    BY <1>1, <1>3, <2>1, RemoveFrom, FinishedThere DEF Continues
<1>4. ~(call.op = "add_network")
  BY DEF OpOK
<1> QED
  BY <1>1, <1>2, <1>3, <1>4 DEF SelectNew

\* An attempt that ends takes networks away, its own or the old one.
LEMMA WaitContinues ==
  ASSUME OpOK, AllShaped, WaitConnected \/ WaitFailed \/ WaitTimeout \/ WaitError
  PROVE  Continues
<1>1. pc = "wait"
  BY DEF WaitConnected, WaitFailed, WaitTimeout, WaitError, At
<1>2. ASSUME NEW e, WaitGivesUp(e)
      PROVE  Continues
  <2>1. SameCall /\ pc' = Finished
    BY <1>2, EditsSame DEF WaitGivesUp, Fail, Goto
  <2>2. From(net') /\ From(saved')
    <3>1. RemoveAndSave(call.new) \/ CancelSavedConf(call.new) \/ UNCHANGED conf
      BY <1>2 DEF WaitGivesUp, NoLink
    <3> QED
      BY <3>1, RemoveFrom, ListStays
  <2> QED
    BY <1>1, <2>1, <2>2, FinishedThere DEF Continues
<1>3. CASE WaitConnected
  <2>1. SameCall /\ pc' = Finished
    BY <1>3, EditsSame DEF WaitConnected, Goto
  <2>2. net' \in SUBSET (net \cup saved) /\ saved' \in SUBSET (net \cup saved)
    BY <1>3 DEF WaitConnected, SaveConfig, Saved, NoLink, conf, Without
  <2> QED
    BY <1>1, <2>1, <2>2, FromPart, FinishedThere DEF Continues
<1>4. CASE WaitError
  <2>1. SameCall /\ pc' = Finished
    BY <1>4, EditsSame DEF WaitError, Abandon, Goto
  <2> QED
    BY <1>1, <1>4, <2>1, ListStays, FinishedThere DEF Continues, WaitError
<1> QED
  BY <1>2, <1>3, <1>4 DEF WaitFailed, WaitTimeout

\* The steps that send no command about the list.
LEMMA PlainContinues ==
  ASSUME OpOK, AllShaped,
         \/ ReadStatus \/ Begin \/ ClearEvtSocket \/ Reconnect \/ After \/ Scan
         \/ End \/ Poll
  PROVE  Continues
<1>1. From(net') /\ From(saved')
  <2>1. UNCHANGED conf
    BY DEF ReadStatus, Begin, ClearEvtSocket, Reconnect, After, Scan, End, Poll, NoLink
  <2> QED
    BY <2>1, ListStays
<1>2. CASE ReadStatus
  BY <1>1, <1>2, EditsSame DEF ReadStatus, At, Goto, Continues
<1>3. CASE Begin
  <2>1. SameCall
    BY <1>3, EditsSame DEF Begin
  <2> QED
    BY <1>1, <1>3, <2>1 DEF Begin, At, Goto, Continues
<1>4. CASE ClearEvtSocket
  <2>1. SameCall
    BY <1>4, EditsSame DEF ClearEvtSocket
  <2>2. pc = "clear" /\ AddsNetwork
    BY <1>4 DEF ClearEvtSocket, At, OpOK, AddsNetwork
  <2>4. Goto(CASE AddsNetwork -> "add"
               [] call.op = "connect_ap_with_netid" -> "select"
               [] OTHER -> "pbc")
    BY <1>4 DEF ClearEvtSocket
  <2>3. pc' = "add"
    BY <2>2, <2>4 DEF Goto, AddsNetwork
  <2> QED
    BY <1>1, <2>1, <2>2, <2>3 DEF Continues
<1>5. CASE Reconnect
  <2>1. SameCall
    BY <1>5, EditsSame DEF Reconnect, Abandon
  <2> QED
    BY <1>1, <1>5, <2>1 DEF Reconnect, At, Goto, Continues
<1>6. CASE After
  <2>1. SameCall
    BY <1>6, EditsSame DEF After, NextAttempt
  <2> QED
    BY <1>1, <1>6, <2>1 DEF After, At, Goto, Continues
<1>7. CASE Scan
  <2>1. SameCall
    BY <1>7, EditsSame DEF Scan, Fail
  <2> QED
    BY <1>1, <1>7, <2>1 DEF Scan, Fail, At, Goto, Continues
<1>8. CASE End
  BY <1>1, <1>8, EditsSame DEF End, At, Goto, Return, Continues
<1>9. CASE Poll
  BY <1>1, <1>9, EditsSame DEF Poll, At, Goto, Return, Continues
<1> QED
  BY <1>2, <1>3, <1>4, <1>5, <1>6, <1>7, <1>8, <1>9

\* The ends of the calls switch networks or take them away.
LEMMA EndsContinue ==
  ASSUME OpOK, AllShaped, EnableAll \/ RemoveMaxNetid \/ EnableAfterWps
  PROVE  Continues
<1>1. CASE EnableAll
  BY <1>1, EnableFrom, EditsSame DEF EnableAll, At, Goto, Continues
<1>2. CASE RemoveMaxNetid
  <2>1. net' \in SUBSET (net \cup saved) /\ saved' \in SUBSET (net \cup saved)
    BY <1>2 DEF RemoveMaxNetid, SaveConfig, Saved, NoLink, conf
  <2> QED
    BY <1>2, <2>1, FromPart, EditsSame DEF RemoveMaxNetid, At, Goto, Continues
<1>3. CASE EnableAfterWps
  BY <1>3, EnableFrom DEF EnableAfterWps, At, Return, Continues
<1> QED
  BY <1>1, <1>2, <1>3

\* Every step of the API thread.
LEMMA ApiStepContinues ==
  ASSUME OpOK, AllShaped, ApiStep
  PROVE  Continues
<1>1. ~PushButton
  BY DEF PushButton, At, OpOK
<1> QED
  BY <1>1, CreateContinues, ConfigureContinues, SelectContinues, WaitContinues,
     PlainContinues, EndsContinue DEF ApiStep

\* The other threads of the manager leave the call alone, and take networks
\* away or bring the saved ones back.
LEMMA OthersLeave ==
  ASSUME AllShaped,
         \/ EvtStep \/ Supplicant \/ \E t \in Threads : CallbackStep(t)
  PROVE  /\ UNCHANGED <<pc, call>>
         /\ From(net') /\ From(saved')
<1>1. UNCHANGED <<pc, call>>
  BY DEF EvtStep, EvtConnected, EvtDisconnected, EvtTerminating, EvtFailure,
     Supplicant, SupScan, SupConnect, SupFail, SupDrop, SupTerminate, SupRestart,
     NoManager, CallbackStep, Callback, StartDhcp, Lease, DhcpDone, DhcpTimeout, NoApi
<1>2. CASE EvtStep
  <2>1. UNCHANGED conf
    BY <1>2 DEF EvtStep, EvtConnected, EvtDisconnected, EvtTerminating, EvtFailure
  <2> QED
    BY <1>1, <2>1, ListStays
<1>3. CASE Supplicant
  <2>1. net' \in SUBSET (net \cup saved) /\ saved' \in SUBSET (net \cup saved)
    BY <1>3 DEF Supplicant, SupScan, SupConnect, SupFail, SupDrop, SupTerminate,
       SupRestart, conf
  <2> QED
    BY <1>1, <2>1, FromPart
<1>4. ASSUME NEW t \in Threads, CallbackStep(t)
      PROVE  From(net') /\ From(saved')
  <2>1. CancelSavedConf(netIdConnecting) \/ UNCHANGED conf
    BY <1>4 DEF CallbackStep, Callback, StartDhcp, Lease, DhcpDone, DhcpTimeout, NoLink
  <2> QED
    BY <2>1, RemoveFrom, ListStays
<1> QED
  BY <1>1, <1>2, <1>3, <1>4

\* What there is of the networks and the call after a step that does not touch
\* the write.
LEMMA NamesStay ==
  ASSUME BleInv, gatt'.w = gatt.w, From(net'), From(saved')
  PROVE  NetOK'
<1> SUFFICES ASSUME NEW m \in net' \cup saved'
             PROVE  Shaped(m) /\ (Sent(m))'
  BY DEF NetOK, Shaped
<1>1. /\ Shaped(m)
      /\ \/ \E n \in net \cup saved : n.id = m.id /\ n.ssid = m.ssid
         \/ call.op = "connect_ap" /\ m.ssid = call.ssid
  BY DEF From
<1>2. CASE \E n \in net \cup saved : n.id = m.id /\ n.ssid = m.ssid
  BY <1>1, <1>2 DEF BleInv, NetOK, Sent
<1>3. CASE call.op = "connect_ap" /\ m.ssid = call.ssid
  BY <1>1, <1>3 DEF BleInv, CallNames, Sent
<1> QED
  BY <1>1, <1>2, <1>3

\* The records of the list have the fields that the proofs look at.
LEMMA InvShaped == BleInv => AllShaped
BY DEF BleInv, NetOK, AllShaped

\* The steps of the manager.
LEMMA ManagerKeeps ==
  ASSUME BleInv, Passed,
         \/ ApiStep \/ EvtStep \/ Supplicant
         \/ \E t \in Threads : CallbackStep(t)
  PROVE  MainOff' /\ Served' /\ OpOK' /\ CallNames' /\ NetOK'
<1>1. \/ Continues
      \/ UNCHANGED <<pc, call>> /\ From(net') /\ From(saved')
  BY InvShaped, ApiStepContinues, OthersLeave DEF BleInv
<1>2. OpOK' /\ CallNames'
  <2>1. CASE SameCall /\ pc' # "pbc" /\ (pc = "status" => pc' = "idle") /\ pc # "idle"
    BY <2>1 DEF SameCall, BleInv, OpOK, CallNames, Passed
  <2>2. CASE call' = NoCall /\ pc' = "idle"
    BY <2>2, NoCallShape DEF OpOK, CallNames
  <2>3. CASE UNCHANGED <<pc, call>>
    BY <2>3 DEF BleInv, OpOK, CallNames, Passed
  <2> QED
    BY <1>1, <2>1, <2>2, <2>3 DEF Continues
<1>3. NetOK'
  BY <1>1, NamesStay DEF Continues, Passed
<1>4. MainOff'
  <2> SUFFICES ASSUME main \in {"lock", "read", "on"}
               PROVE  /\ pc' = "idle" /\ call'.op = "none" /\ ~(listening')
                      /\ \A t \in Threads : cb'[t] = "off"
    BY DEF MainOff, Passed
  <2>1. /\ pc = "idle" /\ call.op = "none" /\ ~listening
        /\ \A t \in Threads : cb[t] = "off"
    BY DEF BleInv, MainOff
  <2>2. ~Continues
    BY <2>1 DEF Continues
  <2>3. ~EvtStep
    BY <2>1 DEF EvtStep, EvtConnected, EvtDisconnected, EvtTerminating, EvtFailure,
       Handles
  <2>4. \A t \in Threads : ~CallbackStep(t)
    BY <2>1 DEF CallbackStep, Callback, StartDhcp, Lease, DhcpDone, DhcpTimeout, In
  <2>5. Supplicant
    BY <2>2, <2>3, <2>4, InvShaped, ApiStepContinues DEF BleInv
  <2>6. UNCHANGED <<pc, call, listening, cb>>
    BY <2>5 DEF Supplicant, SupScan, SupConnect, SupFail, SupDrop, SupTerminate,
       SupRestart, NoManager
  <2> QED
    BY <2>1, <2>6
<1>5. Served'
  <2>1. main' = main /\ gatt' = gatt
    BY DEF Passed
  <2>2. running' = running \/ \E t \in Threads : cb[t] = "call"
    BY RunningStays DEF BleInv, CopyOK, PlacesOfMain
  <2>3. CASE running' = running
    BY <2>1, <2>3 DEF BleInv, Served
  <2>4. CASE \E t \in Threads : cb[t] = "call"
    <3>1. main \notin {"lock", "read"}
      BY <2>4 DEF BleInv, MainOff
    <3> QED
      BY <2>1, <3>1 DEF BleInv, Served
  <2> QED
    BY <2>2, <2>3, <2>4
<1> QED
  BY <1>2, <1>3, <1>4, <1>5

\* The steps of main.
LEMMA MainKeeps ==
  ASSUME BleInv, MainStep
  PROVE  MainOff' /\ Served' /\ OpOK' /\ CallNames' /\ NetOK'
<1>1. UNCHANGED <<running, gatt, ssidBuf, pwdBuf, net, saved>>
  BY DEF MainStep, Lock, ReadRunning, WifiOn, WifiIsOn, LeaveSpin, Connect, Finish, vars,
     conf, TurnOn, ConnectAp, NoLink
<1>2. Served'
  <2>1. main' = main \/ main = "read" \/ main \notin {"lock", "read"} \/ main' = "read"
    BY DEF MainStep, Lock, ReadRunning, WifiOn, WifiIsOn, LeaveSpin, Connect, Finish
  <2>2. main = "read" => main' = "lock" \/ ~running
    BY DEF MainStep, Lock, ReadRunning, WifiOn, WifiIsOn, LeaveSpin, Connect, Finish
  <2> QED
    BY <1>1, <2>1, <2>2 DEF BleInv, Served
<1>3. NetOK'
  BY <1>1 DEF BleInv, NetOK, Sent, Shaped
<1>4. CASE Lock \/ ReadRunning
  <2>1. UNCHANGED <<pc, call, listening, cb>>
    BY <1>4 DEF Lock, ReadRunning, vars
  <2>2. main \in {"lock", "read"}
    BY <1>4 DEF Lock, ReadRunning
  <2> QED
    BY <1>1, <1>2, <1>3, <2>1, <2>2 DEF BleInv, MainOff, OpOK, CallNames
<1>5. CASE WifiOn
  <2>1. main' = "starting" /\ call' = call /\ (pc' = pc \/ pc' = "status")
    BY <1>5 DEF WifiOn, TurnOn, Goto
  <2> QED
    BY <1>1, <1>2, <1>3, <2>1 DEF BleInv, MainOff, OpOK, CallNames
<1>6. CASE WifiIsOn \/ LeaveSpin \/ Finish
  <2>1. /\ main' \notin {"lock", "read", "on"} /\ UNCHANGED <<pc, call>>
    BY <1>6 DEF WifiIsOn, LeaveSpin, Finish, vars
  <2> QED
    BY <1>1, <1>2, <1>3, <2>1 DEF BleInv, MainOff, OpOK, CallNames
<1>7. CASE Connect
  <2>1. main = "connect" /\ main' \notin {"lock", "read", "on"}
    BY <1>7 DEF Connect
  <2>2. gatt.w >= 1 /\ (gatt.w = 1 => gatt.at # 1)
    BY <2>1 DEF BleInv, Served
  <2>3. gatt.w <= 1 => gatt.w = 1 /\ Text(ssidBuf) = Name(1)
    <3>1. gatt.w \in Nat
      BY DEF BleInv, CopyOK, LocalsOK, Locals
    <3> QED
      BY <2>2, <3>1, FirstText DEF BleInv
  <2>4. CASE UNCHANGED <<pc, call>>
    BY <1>1, <1>2, <1>3, <2>1, <2>4 DEF BleInv, MainOff, OpOK, CallNames
  <2>5. CASE /\ \E p, m : call' = [NoCall EXCEPT !.op = "connect_ap",
                                      !.ssid = Text(ssidBuf), !.pass = p,
                                      !.first = TRUE, !.mgmt = m]
             /\ Goto("begin")
    <3>1. call'.op = "connect_ap" /\ call'.ssid = Text(ssidBuf)
          /\ {"op", "ssid"} \subseteq DOMAIN call'
      BY <2>5, NoCallShape
    <3> QED
      BY <1>1, <1>2, <1>3, <2>1, <2>3, <2>5, <3>1 DEF MainOff, OpOK, CallNames, Goto
  <2>6. CASE call' = [NoCall EXCEPT !.op = "connect_ap", !.ret = -1]
    <3>1. call'.ret = 0 \/ UNCHANGED <<pc, call>>
      BY <1>7 DEF Connect, vars
    <3> QED
      BY <2>4, <2>6, <3>1, NoCallRet
  <2> QED
    BY <1>7, <2>4, <2>5, <2>6 DEF Connect, ConnectAp, RefuseBusy, vars
<1> QED
  BY <1>4, <1>5, <1>6, <1>7 DEF MainStep

\* A write request: with the first one nothing runs yet, with the second one
\* the names may be any.
LEMMA RequestKeeps ==
  ASSUME BleInv, WriteRequest
  PROVE  MainOff' /\ Served' /\ OpOK' /\ CallNames' /\ NetOK'
<1>1. /\ gatt'.w = gatt.w + 1 /\ gatt.w \in Nat
      /\ UNCHANGED <<vars, running, main>>
  BY DEF WriteRequest, BleInv, CopyOK, LocalsOK, Locals
<1>2. MainOff' /\ OpOK'
  BY <1>1 DEF BleInv, MainOff, OpOK, vars
<1>3. CASE gatt.w = 0
  <2>1. running /\ main \in {"lock", "read"}
    BY <1>3 DEF BleInv, Served
  <2>2. call.op = "none"
    BY <2>1 DEF BleInv, MainOff
  <2>3. Served' /\ CallNames'
    BY <1>1, <2>1, <2>2 DEF Served, CallNames, vars
  <2>4. NetOK'
    BY <1>1, <1>3 DEF BleInv, NetOK, Sent, Shaped, vars, conf
  <2> QED
    BY <1>2, <2>3, <2>4
<1>4. CASE gatt.w # 0
  <2>1. ~(gatt'.w <= 1) /\ gatt'.w >= 1 /\ gatt'.w # 1
    BY <1>1, <1>4
  <2> QED
    BY <1>1, <1>2, <2>1 DEF BleInv, Served, CallNames, NetOK, Sent, Shaped, vars, conf
<1> QED
  BY <1>3, <1>4

\* The steps of the write callback.  A byte reaches a call under way only from
\* the second write on.
LEMMA HandlerKeeps ==
  ASSUME BleInv, GattStep
  PROVE  MainOff' /\ Served' /\ OpOK' /\ CallNames' /\ NetOK'
<1>1. /\ gatt.at \in 1..4 /\ gatt.w \in Nat /\ gatt.w # 0
      /\ main' = main /\ UNCHANGED <<pc, cb, listening, net, saved>>
  BY Steps DEF BleInv, CopyOK, LocalsOK, Locals, GattStep, CopyByte, LockForClear,
     ClearRunning, ClearAgain, vars, conf
<1>2. gatt \in Locals
  BY DEF BleInv, CopyOK, LocalsOK
<1>3. gatt'.w = gatt.w /\ (gatt.at # 1 => gatt'.at # 1)
  <2>1. CASE CopyByte
    <3>1. gatt.at = 1
      BY <2>1, Steps, <1>1 DEF CopyByte
    <3>2. gatt'.w = gatt.w
      BY <1>2, <2>1 DEF CopyByte, Store, Locals
    <3> QED
      BY <3>1, <3>2
  <2>2. CASE ~CopyByte
    <3>1. gatt' = [gatt EXCEPT !.at = NextStep]
      BY <2>2 DEF GattStep, LockForClear, ClearRunning, ClearAgain
    <3>2. gatt.at # 1
      BY <1>1, <2>2, Steps DEF GattStep, LockForClear, ClearRunning, ClearAgain
    <3>3. NextStep # 1
      BY <1>1, <3>2, Steps
    <3> QED
      BY <1>2, <3>1, <3>3 DEF Locals
  <2> QED
    BY <2>1, <2>2
<1>4. NetOK'
  BY <1>1, <1>3 DEF BleInv, NetOK, Sent, Shaped
<1>5. CASE CopyByte
  <2>1. gatt.at = 1 /\ running' = running
    BY <1>1, <1>5, Steps DEF CopyByte
  <2>2. gatt.w = 1 => running /\ main \in {"lock", "read"}
    BY <2>1 DEF BleInv, Served
  <2>3. gatt.w = 1 => call.op = "none"
    BY <2>2 DEF BleInv, MainOff
  <2>4. Served'
    BY <1>1, <1>3, <2>1, <2>2 DEF BleInv, Served
  <2>5. \/ call' = call
        \/ /\ call.op = "connect_ap"
           /\ \E s, p : call' = [call EXCEPT !.ssid = s, !.pass = p]
    BY <1>5 DEF CopyByte
  <2>6. call'.op = call.op /\ {"op", "ssid"} \subseteq DOMAIN call'
    BY <2>5 DEF BleInv, OpOK
  <2>7. OpOK' /\ MainOff'
    BY <1>1, <2>6 DEF BleInv, OpOK, MainOff
  <2>8. CallNames'
    <3>1. gatt.w <= 1 => gatt.w = 1
      BY <1>1
    <3> QED
      BY <1>3, <2>3, <2>6, <3>1 DEF CallNames
  <2> QED
    BY <1>4, <2>4, <2>7, <2>8
<1>6. CASE LockForClear \/ ClearRunning \/ ClearAgain
  <2>1. gatt.at # 1 /\ call' = call
    BY <1>1, <1>6, Steps DEF LockForClear, ClearRunning, ClearAgain, vars
  <2>2. Served'
    BY <1>1, <1>3, <2>1 DEF Served
  <2> QED
    BY <1>1, <1>3, <1>4, <2>1, <2>2 DEF BleInv, MainOff, OpOK, CallNames
<1> QED
  BY <1>5, <1>6 DEF GattStep

\* BleInv holds from the start and is kept by every step.
LEMMA BleInductive ==
  /\ BleInit => BleInv
  /\ BleInv /\ [BleNext]_allVars => BleInv'
<1>1. BleInit => BleInv
  <2> SUFFICES ASSUME BleInit
               PROVE  BleInv
    OBVIOUS
  <2>1. CopyOK
    BY CopyInductive
  <2>2. /\ main = "lock" /\ running = TRUE /\ call = NoCall /\ pc = "idle"
        /\ listening = FALSE /\ cb = [t \in Threads |-> "off"] /\ gatt.w = 0
        /\ saved = KnownNets /\ (net = {} \/ net = saved)
    BY DEF BleInit, Init
  <2>3. MainOff /\ Served /\ OpOK /\ CallNames
    BY <2>2, NoCallShape DEF MainOff, Served, OpOK, CallNames
  <2>4. NetOK
    <3> SUFFICES ASSUME NEW n \in KnownNets
                 PROVE  Shaped(n) /\ Sent(n)
      BY <2>2 DEF NetOK
    <3>1. n \in Network /\ n.id \in Ids(KnownNets)
      BY ConstantsAssumption DEF Ids
    <3> QED
      BY <3>1 DEF Network, Shaped, Sent
  <2> QED
    BY <2>1, <2>3, <2>4 DEF BleInv
<1>2. BleInv /\ [BleNext]_allVars => BleInv'
  <2> SUFFICES ASSUME BleInv, [BleNext]_allVars
               PROVE  BleInv'
    OBVIOUS
  <2>1. CopyOK'
    BY CopyInductive DEF BleInv
  <2>2. CASE UNCHANGED allVars
    BY <2>1, <2>2 DEF allVars, bleVars, vars, conf, BleInv, MainOff, Served, OpOK,
       CallNames, NetOK, Sent, Shaped
  <2>3. CASE MainStep
    BY <2>1, <2>3, MainKeeps DEF BleInv
  <2>4. CASE WriteRequest
    BY <2>1, <2>4, RequestKeeps DEF BleInv
  <2>5. CASE GattStep
    BY <2>1, <2>5, HandlerKeeps DEF BleInv
  <2>6. CASE \/ WithManager(ApiStep) \/ WithManager(EvtStep) \/ WithManager(Supplicant)
             \/ \E t \in Threads : WithManager(CallbackStep(t))
    BY <2>1, <2>6, ManagerPasses, ManagerKeeps DEF BleInv
  <2> QED
    BY <2>2, <2>3, <2>4, <2>5, <2>6 DEF BleNext
<1> QED
  BY <1>1, <1>2

\* BleInv holds in every reachable state.
LEMMA BleAlways == BleSpec => []BleInv
<1>1. BleInit => BleInv
  BY BleInductive
<1>2. BleInv /\ [BleNext]_allVars => BleInv'
  BY BleInductive
<1> QED
  BY <1>1, <1>2, PTL DEF BleSpec

\* main does not turn Wi-Fi on before a write is copied to its last byte, and
\* goes on with the name and the password of the first write, whole, until the
\* phone writes again: what bt_test_gatt_char_write_request_cb2 and the loop on
\* running have to get right between them.
THEOREM WholeWriteFirst == BleSpec => []WholeWriteBeforeWifi
<1>1. BleInv => WholeWriteBeforeWifi
  BY InvImplies
<1> QED
  BY <1>1, BleAlways, PTL

\* Until the phone writes a second time, connect_ap adds no network but the one
\* the phone named, and has the name and the password the phone sent, whole, for
\* as long as it runs, although it is handed the buffers and not copies of them.
THEOREM SentIsAdded == BleSpec => []AddsWhatWasSent
<1>1. BleInv => AddsWhatWasSent
  BY InvImplies
<1> QED
  BY <1>1, BleAlways, PTL

=============================================================================
