--------------------------- MODULE MeshNetProofs ---------------------------
(***************************************************************************)
(* Theorems about MeshNet, for every set of nodes, every choice of their   *)
(* subscribers and every length of a name.                                 *)
(*                                                                         *)
(* DeviceInv is VendorModelsOnce with what counting the list needs: each   *)
(* addition to it is of a model that it does not hold.  NetInv says of the *)
(* messages under way what keeps the names right: the byte of a status, or *)
(* the right to give a name to the node that they go to.                   *)
(***************************************************************************)
EXTENDS MeshNet, FiniteSetTheorems, TLAPS

Model == [element : 0..255, model : VndModelId]
Once(queue) == IsFiniteSet(Listed(queue)) /\ Cardinality(Listed(queue)) = Len(queue)

(***************************************************************************)
(* The list of vendor models.                                              *)
(***************************************************************************)

LEMMA VndModelType ==
  ASSUME NEW idx \in ElementIdx, NEW model \in VndModelId
  PROVE  VndModel(idx, model) \in Model
BY DEF VndModel, Model, ElementIdx, VndModelId

\* What is listed once a model is appended.
LEMMA AppendListed ==
  ASSUME NEW q \in Seq(Model), NEW v \in Model
  PROVE  /\ Append(q, v) \in Seq(Model) /\ Len(Append(q, v)) = Len(q) + 1
         /\ Listed(Append(q, v)) = Listed(q) \cup {v}
<1> DEFINE r == Append(q, v)
<1>1. r \in Seq(Model) /\ Len(r) = Len(q) + 1
  OBVIOUS
<1>2. Listed(r) \subseteq Listed(q) \cup {v}
  BY <1>1 DEF Listed
<1>3. ASSUME NEW i \in DOMAIN q PROVE q[i] \in Listed(r)
  <2>1. i \in DOMAIN r /\ r[i] = q[i]
    BY <1>1
  <2> QED BY <2>1 DEF Listed
<1>4. v \in Listed(r)
  <2>1. Len(r) \in DOMAIN r /\ r[Len(r)] = v
    BY <1>1
  <2> QED BY <2>1 DEF Listed
<1> QED BY <1>1, <1>2, <1>3, <1>4 DEF Listed

\* vendor_model_reg lists the model and keeps the list free of repetitions.
LEMMA RegLists ==
  ASSUME NEW q \in Seq(Model), Once(q), NEW idx \in ElementIdx, NEW model \in VndModelId
  PROVE  /\ VendorModelReg(q, idx, model) \in Seq(Model)
         /\ Once(VendorModelReg(q, idx, model))
         /\ Listed(VendorModelReg(q, idx, model)) = Listed(q) \cup {VndModel(idx, model)}
<1> DEFINE v == VndModel(idx, model)
<1>1. CASE v \in Listed(q)
  BY <1>1 DEF VendorModelReg
<1>2. CASE v \notin Listed(q)
  <2>1. VendorModelReg(q, idx, model) = Append(q, v)
    BY <1>2 DEF VendorModelReg
  <2>2. v \in Model
    BY VndModelType
  <2>3. /\ IsFiniteSet(Listed(q) \cup {v})
        /\ Cardinality(Listed(q) \cup {v}) = Len(q) + 1
    BY <1>2, FS_AddElement DEF Once
  <2> HIDE DEF v
  <2>4. /\ Append(q, v) \in Seq(Model) /\ Len(Append(q, v)) = Len(q) + 1
        /\ Listed(Append(q, v)) = Listed(q) \cup {v}
    BY <2>2, AppendListed
  <2> QED BY <2>1, <2>3, <2>4 DEF Once, v
<1> QED BY <1>1, <1>2

DeviceInv ==
  /\ DeviceTypeOK
  /\ vndModels \in [Node -> Seq(Model)]
  /\ \A n \in Node : Once(vndModels[n])
  /\ VendorModelsOnce

LEMMA DeviceInitInv == DeviceInit => DeviceInv
<1> SUFFICES ASSUME DeviceInit PROVE DeviceInv
  OBVIOUS
<1>1. Listed(<<>>) = {}
  BY DEF Listed
<1>2. Once(<<>>)
  BY <1>1, FS_EmptySet DEF Once
<1>3. DeviceTypeOK
  BY <1>1, MeshDeviceAssumption DEF DeviceInit, DeviceTypeOK, ElementIdx
<1>4. vndModels \in [Node -> Seq(Model)] /\ \A n \in Node : Once(vndModels[n])
  BY <1>2 DEF DeviceInit
<1>5. VendorModelsOnce
  BY <1>1, <1>2 DEF DeviceInit, VendorModelsOnce, Once
<1> QED BY <1>3, <1>4, <1>5 DEF DeviceInv

\* cmd_enable keeps it, whichever step of it the stack refuses.
LEMMA EnableInv ==
  ASSUME DeviceInv, NEW n \in Node, EnableNode(n)
  PROVE  DeviceInv'
<1> PICK idx \in ElementIdx :
      AddElement(n, idx) /\ NewGooModel(n, idx) /\ NewVendorModel(n, idx)
  BY DEF EnableNode
<1> DEFINE q == vndModels[n]
           r == VendorModelReg(q, idx, 0)
           t == VendorModelReg(r, idx, 1)
           new == {VndModel(idx, 0), VndModel(idx, 1)}
<1>1. elements \in [Node -> 0..MaxElements] /\ vndModels \in [Node -> Seq(Model)] /\ Once(q)
  BY DEF DeviceInv, DeviceTypeOK
<1>2. /\ elements' \in [Node -> 0..MaxElements]
      /\ \A k \in Node : elements[k] <= elements'[k]
      /\ \A k \in Node : \A i \in 0..(elements'[k] - 1) : i \in 0..(elements[k] - 1) \/ (k = n /\ i = idx)
      /\ idx < elements'[n] \/ idx = 0
  <2>1. MaxElements \in Nat /\ \A k \in Node : elements[k] \in Nat
    BY <1>1, MeshDeviceAssumption
  <2>2. CASE elements[n] < MaxElements /\ idx = elements[n]
                /\ elements' = [elements EXCEPT ![n] = @ + 1]
    <3>1. /\ elements' \in [Node -> 0..MaxElements]
          /\ elements'[n] = elements[n] + 1
          /\ \A k \in Node : k # n => elements'[k] = elements[k]
      BY <1>1, <2>1, <2>2
    <3>2. ASSUME NEW k \in Node
          PROVE  /\ elements[k] <= elements'[k]
                 /\ \A i \in 0..(elements'[k] - 1) : i \in 0..(elements[k] - 1) \/ (k = n /\ i = idx)
      <4>1. CASE k = n
        BY <2>1, <2>2, <3>1, <4>1
      <4>2. CASE k # n
        <5>1. elements'[k] = elements[k]
          BY <3>1, <4>2
        <5> QED BY <2>1, <5>1
      <4> QED BY <4>1, <4>2
    <3>3. idx < elements'[n]
      BY <2>1, <2>2, <3>1
    <3> QED BY <3>1, <3>2, <3>3
  <2>3. CASE idx = 0 /\ UNCHANGED elements
    <3>1. elements' = elements /\ idx = 0
      BY <2>3
    <3>2. ASSUME NEW k \in Node
          PROVE  elements[k] <= elements'[k] /\ elements'[k] = elements[k]
      BY <2>1, <3>1
    <3>3. elements' \in [Node -> 0..MaxElements]
      BY <1>1, <3>1
    <3> QED BY <3>1, <3>2, <3>3
  <2> QED BY <2>2, <2>3 DEF AddElement
<1>3. t \in Seq(Model) /\ Once(t) /\ Listed(t) = Listed(q) \cup new
  <2>1. r \in Seq(Model) /\ Once(r) /\ Listed(r) = Listed(q) \cup {VndModel(idx, 0)}
    BY <1>1, RegLists DEF VndModelId
  <2> HIDE DEF r
  <2>2. /\ t \in Seq(Model) /\ Once(t) /\ Listed(t) = Listed(r) \cup {VndModel(idx, 1)}
    BY <2>1, RegLists DEF VndModelId
  <2> QED BY <2>1, <2>2
<1>4. vndModels' = [vndModels EXCEPT ![n] = t]
  BY DEF NewVendorModel
<1> HIDE DEF t, r, q
<1>5. /\ vndModels' \in [Node -> Seq(Model)]
      /\ vndModels'[n] = t
      /\ \A k \in Node : k # n => vndModels'[k] = vndModels[k]
  BY <1>1, <1>3, <1>4
<1>6. \A k \in Node : Once(vndModels'[k])
  BY <1>3, <1>5 DEF DeviceInv
<1>7. \A k \in Node : Listed(vndModels[k]) \subseteq Listed(vndModels'[k])
  BY <1>3, <1>5 DEF q
<1>8. \A k \in Node : Listed(vndModels'[k]) \subseteq Model
  BY <1>5 DEF Listed
<1>9. /\ vndInStack' \in [Node -> SUBSET Model]
      /\ \A k \in Node : vndInStack'[k] \subseteq Listed(vndModels'[k])
  <2>1. vndInStack \in [Node -> SUBSET Model]
    BY DEF DeviceInv, DeviceTypeOK, Model
  <2>2. \A k \in Node : vndInStack[k] \subseteq Listed(vndModels[k])
    BY DEF DeviceInv, VendorModelsOnce
  <2>3. PICK taken \in SUBSET (Listed(vndModels'[n]) \ Listed(vndModels[n])) :
          vndInStack' = [vndInStack EXCEPT ![n] = @ \cup taken]
    BY DEF NewVendorModel
  <2>4. taken \subseteq Listed(vndModels'[n])
    BY <2>3
  <2> QED BY <1>7, <1>8, <2>1, <2>2, <2>3, <2>4
<1>10. VendorModelsOnce'
  <2>1. \A k \in Node : Cardinality(Listed(vndModels'[k])) = Len(vndModels'[k])
    BY <1>6 DEF Once
  <2>2. ASSUME NEW k \in Node, NEW i \in 0..(elements'[k] - 1), NEW model \in VndModelId
        PROVE  VndModel(i, model) \in Listed(vndModels'[k])
    <3>1. CASE i \in 0..(elements[k] - 1)
      BY <3>1, <1>7 DEF DeviceInv, VendorModelsOnce
    <3>2. CASE k = n /\ i = idx
      BY <3>2, <1>3, <1>5 DEF VndModelId
    <3> QED BY <1>2, <3>1, <3>2
  <2> QED BY <1>9, <2>1, <2>2 DEF VendorModelsOnce
<1>11. /\ light' \in [Node -> [ElementIdx -> {"none", "off", "on"}]]
       /\ \A k \in Node, i \in ElementIdx : light'[k][i] # "none" => i < elements'[k] \/ i = 0
  <2>1. /\ light \in [Node -> [ElementIdx -> {"none", "off", "on"}]]
        /\ \A k \in Node, i \in ElementIdx : light[k][i] # "none" => i < elements[k] \/ i = 0
    BY DEF DeviceInv, DeviceTypeOK
  <2>2. CASE light' = [light EXCEPT ![n][idx] = "off"]
    BY <1>1, <1>2, <2>1, <2>2 DEF ElementIdx
  <2>3. CASE UNCHANGED light
    BY <1>1, <1>2, <2>1, <2>3 DEF ElementIdx
  <2> QED BY <2>2, <2>3 DEF NewGooModel
<1>12. enables' \in [Node -> Nat]
  BY DEF EnableNode, DeviceInv, DeviceTypeOK
<1>13. DeviceTypeOK'
  BY <1>2, <1>8, <1>9, <1>11, <1>12 DEF DeviceTypeOK, Model
<1> QED BY <1>5, <1>6, <1>10, <1>13 DEF DeviceInv

LEMMA DeviceUnchanged ==
  ASSUME DeviceInv, UNCHANGED deviceVars
  PROVE  DeviceInv'
<1>1. /\ elements' = elements /\ light' = light /\ vndModels' = vndModels
      /\ vndInStack' = vndInStack /\ enables' = enables
  BY DEF deviceVars
<1>2. DeviceTypeOK'
  BY <1>1 DEF DeviceInv, DeviceTypeOK
<1>3. VendorModelsOnce'
  BY <1>1 DEF DeviceInv, VendorModelsOnce
<1> QED BY <1>1, <1>2, <1>3 DEF DeviceInv

(***************************************************************************)
(* The messages under way.                                                 *)
(***************************************************************************)

Data == [status : BOOLEAN, by : Nat, len : Nat]
Names == [by : Nat, len : 0..(NameSize - 1)]

\* A message that may give a name has the byte of a status first, or comes from
\* a command that gave the node that name.
VendorOK(m) ==
  /\ m.data \in Data
  /\ m.data.status => OpcodeSize + m.data.len <= MsgSize
  /\ m.op \in {"SET", "SET_UNACK"} => m.data.status \/ m.data.by \in given[m.dst]
OnOffOK(m) == m.element \in ElementIdx /\ m.on \in {"on", "off"}
MsgOK(m) ==
  /\ m.src \in Node /\ m.dst \in Node
  /\ m.model = "vendor" => VendorOK(m)
  /\ m.model = "onoff" => OnOffOK(m)

HistOK ==
  /\ sent \in Nat
  /\ given \in [Node -> SUBSET (1..sent)]
  /\ asked \in [Node -> Nat] /\ heard \in [Node -> Nat]

NetInv ==
  /\ HistOK
  /\ \A m \in BagToSet(air) : MsgOK(m)
  /\ name \in [Node -> Names]
  /\ OnlyTheTargetTakesTheName

LEMMA PutAdds ==
  ASSUME NEW bag, NEW msgs
  PROVE  BagToSet(Put(bag, msgs)) = BagToSet(bag) \cup msgs
BY DEF BagToSet, Put, SetToBag, (+)

LEMMA TakeDrops ==
  ASSUME NEW m
  PROVE  BagToSet(Take(m)) \subseteq BagToSet(air)
BY DEF BagToSet, Take, SetToBag, (-)

\* What a node has been given stays given.
LEMMA MsgKept ==
  ASSUME NEW m, MsgOK(m), \A k \in Node : given[k] \subseteq given'[k]
  PROVE  MsgOK(m)'
BY DEF MsgOK, VendorOK, OnOffOK

LEMMA InitInv == Init => DeviceInv /\ NetInv
<1> SUFFICES ASSUME Init PROVE DeviceInv /\ NetInv
  OBVIOUS
<1>1. DeviceInv
  BY DeviceInitInv DEF Init
<1>2. BagToSet(air) = {}
  BY DEF Init, EmptyBag, SetToBag, BagToSet
<1>3. name \in [Node -> Names]
  BY DEF Init, Names, Fresh, NameSize
<1>4. HistOK
  BY DEF Init, HistOK
<1>5. OnlyTheTargetTakesTheName
  BY DEF Init, OnlyTheTargetTakesTheName
<1> QED BY <1>1, <1>2, <1>3, <1>4, <1>5 DEF NetInv

(***************************************************************************)
(* The commands.                                                           *)
(***************************************************************************)

LEMMA SendVendorInv ==
  ASSUME NetInv, NEW n \in Node, NEW dst \in Node, NEW op \in {"GET", "SET", "SET_UNACK"},
         NEW size \in Nat, SendVendor(n, dst, op, size)
  PROVE  NetInv'
<1> DEFINE data == [status |-> FALSE, by |-> sent', len |-> size]
           v == Vendor(op, n, dst, FALSE, data)
<1>1. sent' \in Nat /\ sent' = sent + 1
  BY DEF SendVendor, NetInv, HistOK
<1>2. /\ given' \in [Node -> SUBSET (1..sent')]
      /\ \A k \in Node : given[k] \subseteq given'[k]
      /\ op # "GET" => sent' \in given'[dst]
  <2>1. given \in [Node -> SUBSET (1..sent')]
    BY <1>1 DEF NetInv, HistOK
  <2>2. sent' \in 1..sent'
    BY <1>1 DEF NetInv, HistOK
  <2> QED BY <2>1, <2>2 DEF SendVendor
<1>3. HistOK'
  BY <1>1, <1>2 DEF SendVendor, NetInv, HistOK
<1>4. ASSUME NEW m, m = v PROVE MsgOK(m)'
  <2>1. /\ m.model = "vendor" /\ m.op = op /\ m.src = n /\ m.dst = dst
        /\ m.data = data /\ data \in Data /\ ~data.status /\ data.by = sent'
    BY <1>1, <1>4 DEF Vendor, Data
  <2> HIDE DEF v, data
  <2> QED BY <1>2, <2>1 DEF MsgOK, VendorOK
<1>5. BagToSet(air)' = BagToSet(air) \cup {v}
  BY PutAdds DEF SendVendor
<1>6. ASSUME NEW m \in BagToSet(air)' PROVE MsgOK(m)'
  <2>1. CASE m = v
    BY <1>4, <2>1
  <2>2. CASE m \in BagToSet(air)
    BY <1>2, <2>2, MsgKept DEF NetInv
  <2> QED BY <1>5, <2>1, <2>2
<1>7. (name \in [Node -> Names])' /\ OnlyTheTargetTakesTheName'
  BY <1>2 DEF SendVendor, NetInv, OnlyTheTargetTakesTheName
<1> QED BY <1>3, <1>6, <1>7 DEF NetInv

LEMMA SendOnOffInv ==
  ASSUME NetInv, NEW n \in Node, NEW dst \in Node, NEW idx \in ElementIdx,
         NEW on \in {"on", "off"}, SendOnOff(n, dst, idx, on)
  PROVE  NetInv'
<1> DEFINE v == OnOff("SET", n, dst, idx, on)
<1>1. sent' \in Nat /\ sent' = sent + 1
  BY DEF SendOnOff, NetInv, HistOK
<1>2. given' = given
  BY DEF SendOnOff
<1>3. HistOK'
  <2>1. given \in [Node -> SUBSET (1..sent')]
    BY <1>1 DEF NetInv, HistOK
  <2> QED BY <1>1, <2>1 DEF SendOnOff, NetInv, HistOK
<1>4. ASSUME NEW m, m = v PROVE MsgOK(m)'
  <2>1. /\ m.model = "onoff" /\ m.src = n /\ m.dst = dst
        /\ m.element = idx /\ m.on = on
    BY <1>4 DEF OnOff
  <2> QED BY <2>1 DEF MsgOK, OnOffOK
<1>5. BagToSet(air)' = BagToSet(air) \cup {v}
  BY PutAdds DEF SendOnOff
<1>6. ASSUME NEW m \in BagToSet(air)' PROVE MsgOK(m)'
  <2>1. CASE m = v
    BY <1>4, <2>1
  <2>2. CASE m \in BagToSet(air)
    BY <1>2, <2>2, MsgKept DEF NetInv
  <2> QED BY <1>5, <2>1, <2>2
<1>7. (name \in [Node -> Names])' /\ OnlyTheTargetTakesTheName'
  BY DEF SendOnOff, NetInv, OnlyTheTargetTakesTheName
<1> QED BY <1>3, <1>6, <1>7 DEF NetInv

(***************************************************************************)
(* What the stack delivers or loses.                                       *)
(***************************************************************************)

\* A message is taken from the air and others that keep to the rules are put there.
LEMMA AnswerOK ==
  ASSUME NetInv, given' = given, NEW x, NEW msgs, \A m \in msgs : MsgOK(m)',
         BagToSet(air)' \subseteq BagToSet(air) \cup msgs
  PROVE  \A m \in BagToSet(air)' : MsgOK(m)'
<1> SUFFICES ASSUME NEW m \in BagToSet(air)' PROVE MsgOK(m)'
  OBVIOUS
<1>1. CASE m \in msgs
  BY <1>1
<1>2. CASE m \in BagToSet(air)
  BY <1>2, MsgKept DEF NetInv
<1> QED BY <1>1, <1>2

\* SetName cuts what does not fit.
LEMMA SetNameType ==
  ASSUME NEW data \in Data
  PROVE  /\ SetName(data) \in Names
         /\ SetName(data) = Empty \/ (~data.status /\ SetName(data).by = data.by)
<1>1. data.len % 256 \in Nat
  BY DEF Data
<1>2. data.by \in Nat /\ data.status \in BOOLEAN
  BY DEF Data
<1>3. Empty \in Names
  BY DEF Empty, Names, NameSize
<1>4. CASE data.status
  BY <1>3, <1>4 DEF SetName, NameIn
<1>5. CASE ~data.status
  <2> DEFINE len == IF data.len % 256 >= NameSize THEN NameSize - 1 ELSE data.len % 256
  <2>1. len \in 0..(NameSize - 1)
    BY <1>1 DEF NameSize
  <2>2. SetName(data) = [by |-> data.by, len |-> len]
    BY <1>5 DEF SetName, NameIn
  <2> HIDE DEF len
  <2> QED BY <1>2, <1>5, <2>1, <2>2 DEF Names
<1> QED BY <1>2, <1>4, <1>5

LEMMA ReceiveVendorInv ==
  ASSUME NetInv, NEW m \in BagToSet(air), m.model = "vendor", ReceiveVendor(m.dst, m)
  PROVE  NetInv'
<1> DEFINE n == m.dst
<1>1. n \in Node /\ m.src \in Node /\ VendorOK(m)
  BY DEF NetInv, MsgOK
<1>2. name \in [Node -> Names] /\ HistOK /\ OnlyTheTargetTakesTheName
  BY DEF NetInv
<1>3. given' = given /\ sent' = sent /\ asked' = asked
  BY DEF ReceiveVendor
<1>4. HistOK'
  BY <1>1, <1>2, <1>3 DEF ReceiveVendor, HistOK
<1>5. /\ name' = [name EXCEPT ![n] = IF GivesName(m) THEN SetName(m.data) ELSE @]
      /\ name' \in [Node -> Names]
  BY <1>1, <1>2, SetNameType DEF ReceiveVendor, VendorOK
<1>6. ASSUME NEW r \in Replies(n, m)
      PROVE  MsgOK(r)'
  <2>1. name'[n] \in Names
    BY <1>1, <1>5
  <2>2. NameData(n) \in Data /\ NameData(n).status /\ OpcodeSize + NameData(n).len <= MsgSize
    BY <2>1 DEF NameData, Data, Names, NameSize, OpcodeSize, MsgSize
  <2>3. \A s \in Subscribers[n] : s \in Node
    BY <1>1, MeshNetAssumption
  <2>4. /\ r.model = "vendor" /\ r.src = n /\ r.dst \in Node /\ r.data = NameData(n)
    BY <1>1, <2>3 DEF Replies, Vendor
  <2> QED BY <1>1, <2>2, <2>4 DEF MsgOK, VendorOK
<1>7. BagToSet(air)' \subseteq BagToSet(air) \cup Replies(n, m)
  <2>1. BagToSet(air)' = BagToSet(Take(m)) \cup Replies(n, m)
    BY PutAdds DEF ReceiveVendor
  <2> QED BY <2>1, TakeDrops
<1>8. \A r \in BagToSet(air)' : MsgOK(r)'
  <2> DEFINE msgs == Replies(n, m)
  <2>1. \A r \in msgs : MsgOK(r)'
    BY <1>6
  <2> HIDE DEF msgs
  <2> QED BY <1>3, <1>7, <2>1, AnswerOK DEF msgs
<1>9. OnlyTheTargetTakesTheName'
  <2> SUFFICES ASSUME NEW k \in Node
               PROVE  name'[k].by \in given[k] \/ name'[k] \in {Fresh, Empty}
    BY <1>3 DEF OnlyTheTargetTakesTheName
  <2>1. CASE k = n /\ GivesName(m)
    <3>1. name'[k] = SetName(m.data)
      BY <1>1, <1>2, <1>5, <2>1
    <3>2. m.data.status \/ m.data.by \in given[k]
      BY <1>1, <2>1 DEF GivesName, VendorOK
    <3>3. m.data \in Data
      BY <1>1 DEF VendorOK
    <3>4. SetName(m.data) = Empty \/ (~m.data.status /\ SetName(m.data).by = m.data.by)
      BY <3>3, SetNameType
    <3> QED BY <3>1, <3>2, <3>4
  <2>2. CASE ~(k = n /\ GivesName(m))
    <3>1. name'[k] = name[k]
      BY <1>1, <1>2, <1>5, <2>2
    <3> QED BY <1>2, <3>1 DEF OnlyTheTargetTakesTheName
  <2> QED BY <2>1, <2>2
<1> QED BY <1>4, <1>5, <1>8, <1>9 DEF NetInv

\* A step that takes a message from the air, may put others there, and leaves the
\* names and what has been counted.
LEMMA NamesKept ==
  ASSUME NetInv, UNCHANGED <<name, sent, given, asked, heard>>,
         \A m \in BagToSet(air)' : MsgOK(m)'
  PROVE  NetInv'
<1>1. HistOK' /\ (name \in [Node -> Names])'
  BY DEF NetInv, HistOK
<1>2. OnlyTheTargetTakesTheName'
  BY DEF NetInv, OnlyTheTargetTakesTheName
<1> QED BY <1>1, <1>2 DEF NetInv

LEMMA LoseInv ==
  ASSUME NetInv, NEW m \in BagToSet(air), Lose(m)
  PROVE  NetInv' /\ UNCHANGED deviceVars
<1>1. UNCHANGED <<name, sent, given, asked, heard, deviceVars>>
  BY DEF Lose
<1>2. BagToSet(air)' \subseteq BagToSet(air)
  BY TakeDrops DEF Lose
<1>3. \A r \in BagToSet(air)' : MsgOK(r)'
  BY <1>1, <1>2, MsgKept DEF NetInv
<1> QED BY <1>1, <1>3, NamesKept

LEMMA StatusOK ==
  ASSUME NEW n \in Node, NEW idx \in ElementIdx, NEW on \in {"on", "off"},
         NEW status \in StatusOf(n, idx, on), NEW m \in status
  PROVE  MsgOK(m)'
<1>1. PICK to \in Node : m = OnOff("STATUS", n, to, idx, on)
  BY DEF StatusOf
<1>2. /\ m.model = "onoff" /\ m.src = n /\ m.dst = to
      /\ m.element = idx /\ m.on = on
  BY <1>1 DEF OnOff
<1> QED BY <1>2 DEF MsgOK, OnOffOK

LEMMA ReceiveOnOffInv ==
  ASSUME DeviceInv, NetInv, NEW m \in BagToSet(air), m.model = "onoff",
         HasModel(m.dst, m), ReceiveOnOff(m.dst, m)
  PROVE  DeviceInv' /\ NetInv'
<1> DEFINE n == m.dst
<1>1. n \in Node /\ m.element \in ElementIdx /\ m.on \in {"on", "off"}
  BY DEF NetInv, MsgOK, OnOffOK
<1>2. /\ UNCHANGED <<name, sent, given, asked, heard>>
      /\ UNCHANGED <<elements, vndModels, vndInStack, enables>>
  BY DEF ReceiveOnOff
<1>3. \/ UNCHANGED light
      \/ light' = [light EXCEPT ![n][m.element] = m.on]
  BY DEF ReceiveOnOff, ReceiveOnOffSet
<1>4. DeviceInv'
  <2>1. /\ light \in [Node -> [ElementIdx -> {"none", "off", "on"}]]
        /\ \A k \in Node, i \in ElementIdx : light[k][i] # "none" => i < elements[k] \/ i = 0
    BY DEF DeviceInv, DeviceTypeOK
  <2>2. light[n][m.element] # "none"
    BY DEF HasModel
  <2>3. /\ light' \in [Node -> [ElementIdx -> {"none", "off", "on"}]]
        /\ \A k \in Node, i \in ElementIdx : light'[k][i] # "none" => light[k][i] # "none"
    BY <1>1, <1>3, <2>1, <2>2
  <2>4. DeviceTypeOK'
    BY <1>2, <2>1, <2>3 DEF DeviceInv, DeviceTypeOK
  <2>5. VendorModelsOnce'
    BY <1>2 DEF DeviceInv, VendorModelsOnce
  <2> QED BY <1>2, <2>4, <2>5 DEF DeviceInv
<1>5. \A r \in BagToSet(air)' : MsgOK(r)'
  <2>1. CASE air' = Take(m)
    <3>1. BagToSet(air)' \subseteq BagToSet(air)
      BY <2>1, TakeDrops
    <3> QED BY <1>2, <3>1, MsgKept DEF NetInv
  <2>2. ASSUME NEW status \in StatusOf(n, m.element, m.on), air' = Put(Take(m), status)
        PROVE  \A r \in BagToSet(air)' : MsgOK(r)'
    <3>1. BagToSet(air)' = BagToSet(Take(m)) \cup status
      BY <2>2, PutAdds
    <3>2. BagToSet(air)' \subseteq BagToSet(air) \cup status
      BY <3>1, TakeDrops
    <3>3. \A r \in status : MsgOK(r)'
      BY <1>1, StatusOK
    <3> QED BY <1>2, <3>2, <3>3, AnswerOK
  <2> QED BY <2>1, <2>2 DEF ReceiveOnOff, ReceiveOnOffSet
<1> QED BY <1>2, <1>4, <1>5, NamesKept

(***************************************************************************)
(* The invariant, and what follows from it.                                *)
(***************************************************************************)

LEMMA StepInv == DeviceInv /\ NetInv /\ [Next]_vars => DeviceInv' /\ NetInv'
<1> SUFFICES ASSUME DeviceInv, NetInv, [Next]_vars
             PROVE  DeviceInv' /\ NetInv'
  OBVIOUS
<1>1. CASE Command
  <2>1. UNCHANGED deviceVars
    BY <1>1 DEF Command, SendVendor, SendOnOff
  <2>2. NetInv'
    <3>1. PICK n \in Consoles, dst \in Node :
            \/ SendVendor(n, dst, "GET", 0)
            \/ \E op \in {"SET", "SET_UNACK"}, size \in Sizes : SendVendor(n, dst, op, size)
            \/ \E idx \in ElementIdx, on \in {"on", "off"} : SendOnOff(n, dst, idx, on)
      BY <1>1 DEF Command
    <3>2. n \in Node
      BY MeshNetAssumption
    <3>3. \A size \in Sizes : size \in Nat
      BY MeshNetAssumption
    <3> QED BY <3>1, <3>2, <3>3, SendVendorInv, SendOnOffInv
  <2> QED BY <2>1, <2>2, DeviceUnchanged
<1>2. CASE Stack
  <2> PICK m \in BagToSet(air) : Deliver(m) \/ Lose(m)
    BY <1>2 DEF Stack
  <2>1. CASE m.model = "vendor" /\ ReceiveVendor(m.dst, m)
    <3>1. UNCHANGED deviceVars
      BY <2>1 DEF ReceiveVendor
    <3> QED BY <2>1, <3>1, ReceiveVendorInv, DeviceUnchanged
  <2>2. CASE m.model = "onoff" /\ HasModel(m.dst, m) /\ ReceiveOnOff(m.dst, m)
    BY <2>2, ReceiveOnOffInv
  <2>3. CASE Lose(m)
    BY <2>3, LoseInv, DeviceUnchanged
  <2> QED BY <2>1, <2>2, <2>3 DEF Deliver
<1>3. ASSUME NEW n \in Node, Enable(n) PROVE DeviceInv' /\ NetInv'
  <2>1. EnableNode(n) /\ UNCHANGED netVars
    BY <1>3 DEF Enable
  <2>2. UNCHANGED <<air, name, sent, given, asked, heard>>
    BY <2>1 DEF netVars
  <2>3. \A m \in BagToSet(air)' : MsgOK(m)'
    BY <2>2, MsgKept DEF NetInv
  <2> QED BY <2>1, <2>2, <2>3, EnableInv, NamesKept
<1>4. CASE UNCHANGED vars
  <2>1. UNCHANGED <<air, name, sent, given, asked, heard>> /\ UNCHANGED deviceVars
    BY <1>4 DEF vars, netVars
  <2>2. \A m \in BagToSet(air)' : MsgOK(m)'
    BY <2>1, MsgKept DEF NetInv
  <2> QED BY <2>1, <2>2, DeviceUnchanged, NamesKept
<1> QED BY <1>1, <1>2, <1>3, <1>4 DEF Next

\* Whatever the operators send and enable and the air loses, DeviceInv and NetInv
\* hold.
THEOREM Invariant == Spec => [](DeviceInv /\ NetInv)
<1>1. Init => DeviceInv /\ NetInv
  BY InitInv
<1> QED BY <1>1, StepInv, PTL DEF Spec

\* Each vendor model of each element is handed to the stack once, however often a
\* node is enabled and whichever call of the stack fails (vendor_model_reg).
THEOREM RegisteredOnce == Spec => []VendorModelsOnce
<1>1. DeviceInv /\ NetInv => VendorModelsOnce
  BY DEF DeviceInv
<1> QED BY <1>1, Invariant, PTL

\* A name and the message that carries it stay within their arrays, whatever length
\* the consoles send (xradio_vendor_model_receive).
THEOREM NamesFit == Spec => []NameFits
<1>1. DeviceInv /\ NetInv => NameFits
  BY DEF NetInv, NameFits, MsgOK, VendorOK, Names, NameSize
<1> QED BY <1>1, Invariant, PTL

\* No node takes a name that no command gave it: from the publications of others it
\* only ever learns the empty name (xradio_vendor_model_receive).
THEOREM NamedByItsOwn == Spec => []OnlyTheTargetTakesTheName
<1>1. DeviceInv /\ NetInv => OnlyTheTargetTakesTheName
  BY DEF NetInv
<1> QED BY <1>1, Invariant, PTL

\* Every variable keeps its type; an on/off server is on an element of its node.
THEOREM MeshTypeCorrect == Spec => []MeshTypeOK
<1>1. DeviceInv /\ NetInv => MeshTypeOK
  BY DEF DeviceInv, NetInv, HistOK, MsgOK, MeshTypeOK
<1> QED BY <1>1, Invariant, PTL

(***************************************************************************)
(* Answers.  A node is owed the answers on their way to it and one for     *)
(* each GET and SET of its own that has not arrived.  With those it has    *)
(* heard they are never more than it has asked for: an answer replaces the *)
(* question, and nothing that is published is owed.                        *)
(***************************************************************************)

Due(m, n) ==
  /\ m.model = "vendor"
  /\ \/ m.op \in {"GET", "SET"} /\ m.src = n
     \/ m.op = "STAT" /\ ~m.published /\ m.dst = n

\* What a node is owed, of the messages of a bag with their copies.
OwedIn(bag, n) == UNION {{m} \X (1..bag[m]) : m \in {x \in DOMAIN bag : Due(x, n)}}

AnswerInv ==
  /\ IsABag(air)
  /\ \A n \in Node : /\ IsFiniteSet(OwedIn(air, n))
                     /\ heard[n] + Cardinality(OwedIn(air, n)) <= asked[n]

\* A copy that is owed.
LEMMA InOwed ==
  ASSUME NEW bag, NEW n, NEW c
  PROVE  c \in OwedIn(bag, n)
           <=> \E m \in DOMAIN bag : Due(m, n) /\ \E k \in 1..bag[m] : c = <<m, k>>
BY DEF OwedIn

\* How often a message is in a bag, once others have been put there.
LEMMA PutCounts ==
  ASSUME NEW bag, IsABag(bag), NEW msgs
  PROVE  /\ IsABag(Put(bag, msgs)) /\ DOMAIN Put(bag, msgs) = DOMAIN bag \cup msgs
         /\ \A m \in DOMAIN Put(bag, msgs) :
              Put(bag, msgs)[m] = (IF m \in DOMAIN bag THEN bag[m] ELSE 0)
                                  + (IF m \in msgs THEN 1 ELSE 0)
<1> DEFINE new == Put(bag, msgs)
<1>1. new = [m \in DOMAIN bag \cup msgs |-> (IF m \in DOMAIN bag THEN bag[m] ELSE 0)
                                            + (IF m \in msgs THEN 1 ELSE 0)]
  <2>1. new = [m \in DOMAIN bag \cup msgs |-> (IF m \in DOMAIN bag THEN bag[m] ELSE 0)
                                   + (IF m \in msgs THEN SetToBag(msgs)[m] ELSE 0)]
    BY DEF Put, SetToBag, (+)
  <2>2. \A m \in msgs : SetToBag(msgs)[m] = 1
    BY DEF SetToBag
  <2> QED BY <2>1, <2>2
<1> HIDE DEF new
<1>2. \A m \in DOMAIN bag : bag[m] \in Nat /\ bag[m] > 0
  BY DEF IsABag
<1>3. \A m \in DOMAIN new : new[m] \in {k \in Nat : k > 0}
  BY <1>1, <1>2
<1>4. IsABag(new)
  BY <1>1, <1>3 DEF IsABag
<1> QED BY <1>1, <1>4 DEF new

\* How often, once a copy of one has been taken from the air.
LEMMA TakeCounts ==
  ASSUME IsABag(air), NEW m \in DOMAIN air
  PROVE  /\ IsABag(Take(m)) /\ DOMAIN Take(m) \subseteq DOMAIN air
         /\ \A x \in DOMAIN Take(m) : Take(m)[x] = IF x = m THEN air[m] - 1 ELSE air[x]
<1> DEFINE less == [x \in DOMAIN air |-> IF x = m THEN air[x] - 1 ELSE air[x]]
           new == Take(m)
<1>1. new = [x \in {y \in DOMAIN less : less[y] > 0} |-> less[x]]
  <2>1. DOMAIN SetToBag({m}) = {m} /\ SetToBag({m})[m] = 1
    BY DEF SetToBag
  <2>2. less = [x \in DOMAIN air |-> IF x \in DOMAIN SetToBag({m})
                                     THEN air[x] - SetToBag({m})[x] ELSE air[x]]
    BY <2>1
  <2> QED BY <2>2, Zenon DEF Take, (-)
<1>2. \A x \in DOMAIN air : air[x] \in Nat /\ air[x] > 0
  BY DEF IsABag
<1>3. DOMAIN less = DOMAIN air
      /\ \A x \in DOMAIN air : less[x] \in Nat /\ less[x] = IF x = m THEN air[m] - 1 ELSE air[x]
  BY <1>2
<1> HIDE DEF less, new
<1>4. IsABag(new)
  BY <1>1, <1>3 DEF IsABag
<1> QED BY <1>1, <1>3, <1>4 DEF new

\* Messages put in a bag add what one of them owes.
LEMMA PutOwes ==
  ASSUME NEW bag, IsABag(bag), NEW msgs, NEW n, NEW a, \A m \in msgs : Due(m, n) => m = a
  PROVE  \E c : OwedIn(Put(bag, msgs), n) \subseteq OwedIn(bag, n) \cup {c}
<1> DEFINE old == IF a \in DOMAIN bag THEN bag[a] ELSE 0
           new == Put(bag, msgs)
<1>1. /\ DOMAIN new = DOMAIN bag \cup msgs
      /\ \A m \in DOMAIN new : new[m] = (IF m \in DOMAIN bag THEN bag[m] ELSE 0)
                                        + (IF m \in msgs THEN 1 ELSE 0)
  BY PutCounts, Zenon
<1>2. \A m \in DOMAIN bag : bag[m] \in Nat
  BY DEF IsABag
<1> HIDE DEF new
<1>3. ASSUME NEW c \in OwedIn(new, n) PROVE c \in OwedIn(bag, n) \cup {<<a, old + 1>>}
  <2>1. PICK m \in DOMAIN new : Due(m, n) /\ \E k \in 1..new[m] : c = <<m, k>>
    BY <1>3, InOwed
  <2>2. PICK k \in 1..new[m] : c = <<m, k>>
    BY <2>1
  <2>3. CASE m \in DOMAIN bag /\ k \in 1..bag[m]
    BY <2>1, <2>2, <2>3, InOwed
  <2>4. CASE ~(m \in DOMAIN bag /\ k \in 1..bag[m])
    <3>1. m \in msgs
      BY <1>1, <1>2, <2>2, <2>4
    <3>2. m = a
      BY <2>1, <3>1
    <3>3. k = old + 1
      BY <1>1, <1>2, <2>2, <2>4, <3>2
    <3> QED BY <2>2, <3>2, <3>3
  <2> QED BY <2>3, <2>4
<1> QED BY <1>3 DEF new

\* Messages that owe nothing to a node leave what it is owed.
LEMMA PutOwesNothing ==
  ASSUME NEW bag, IsABag(bag), NEW msgs, NEW n, \A m \in msgs : ~Due(m, n)
  PROVE  OwedIn(Put(bag, msgs), n) \subseteq OwedIn(bag, n)
<1> DEFINE new == Put(bag, msgs)
<1>1. /\ DOMAIN new = DOMAIN bag \cup msgs
      /\ \A m \in DOMAIN new : new[m] = (IF m \in DOMAIN bag THEN bag[m] ELSE 0)
                                        + (IF m \in msgs THEN 1 ELSE 0)
  BY PutCounts, Zenon
<1>2. \A m \in DOMAIN bag : bag[m] \in Nat
  BY DEF IsABag
<1> HIDE DEF new
<1>3. ASSUME NEW c \in OwedIn(new, n) PROVE c \in OwedIn(bag, n)
  <2>1. PICK m \in DOMAIN new : Due(m, n) /\ \E k \in 1..new[m] : c = <<m, k>>
    BY <1>3, InOwed
  <2>2. m \in DOMAIN bag /\ new[m] = bag[m]
    BY <1>1, <1>2, <2>1
  <2> QED BY <2>1, <2>2, InOwed
<1> QED BY <1>3 DEF new

\* A copy taken from the air is no longer owed.
LEMMA TakeOwes ==
  ASSUME IsABag(air), NEW m \in DOMAIN air, NEW n
  PROVE  /\ OwedIn(Take(m), n) \subseteq OwedIn(air, n) \ {<<m, air[m]>>}
         /\ Due(m, n) => <<m, air[m]>> \in OwedIn(air, n)
<1> DEFINE new == Take(m)
<1>1. /\ DOMAIN new \subseteq DOMAIN air
      /\ \A x \in DOMAIN new : new[x] = IF x = m THEN air[m] - 1 ELSE air[x]
  BY TakeCounts
<1>2. \A x \in DOMAIN air : air[x] \in Nat /\ air[x] > 0
  BY DEF IsABag
<1> HIDE DEF new
<1>3. ASSUME NEW c \in OwedIn(new, n) PROVE c \in OwedIn(air, n) \ {<<m, air[m]>>}
  <2>1. PICK x \in DOMAIN new : Due(x, n) /\ \E k \in 1..new[x] : c = <<x, k>>
    BY <1>3, InOwed
  <2>2. PICK k \in 1..new[x] : c = <<x, k>>
    BY <2>1
  <2>3. x \in DOMAIN air /\ k \in 1..air[x] /\ (x = m => k # air[m])
    BY <1>1, <1>2, <2>2
  <2>4. c \in OwedIn(air, n)
    BY <2>1, <2>2, <2>3, InOwed
  <2>5. c # <<m, air[m]>>
    BY <2>2, <2>3
  <2> QED BY <2>4, <2>5
<1>4. ASSUME Due(m, n) PROVE <<m, air[m]>> \in OwedIn(air, n)
  <2>1. air[m] \in 1..air[m]
    BY <1>2
  <2> QED BY <1>4, <2>1, InOwed
<1> QED BY <1>3, <1>4 DEF new

\* Counting what was added and what was taken.
LEMMA OneMore ==
  ASSUME NEW S, IsFiniteSet(S), NEW c, NEW T, T \subseteq S \cup {c}
  PROVE  /\ IsFiniteSet(T) /\ Cardinality(T) \in Nat
         /\ Cardinality(S) \in Nat /\ Cardinality(T) <= Cardinality(S) + 1
<1>1. /\ IsFiniteSet(S \cup {c}) /\ Cardinality(S) \in Nat
      /\ Cardinality(S \cup {c}) \in {Cardinality(S), Cardinality(S) + 1}
  BY FS_AddElement, FS_CardinalityType
<1>2. IsFiniteSet(T) /\ Cardinality(T) <= Cardinality(S \cup {c})
  BY <1>1, FS_Subset
<1>3. Cardinality(T) \in Nat
  BY <1>2, FS_CardinalityType
<1> QED BY <1>1, <1>2, <1>3

LEMMA OneLess ==
  ASSUME NEW S, IsFiniteSet(S), NEW c \in S, NEW T, T \subseteq S \ {c}
  PROVE  /\ IsFiniteSet(T) /\ Cardinality(T) \in Nat
         /\ Cardinality(S) \in Nat /\ Cardinality(T) + 1 <= Cardinality(S)
<1>1. /\ IsFiniteSet(S \ {c}) /\ Cardinality(S) \in Nat
      /\ Cardinality(S \ {c}) = Cardinality(S) - 1
  BY FS_RemoveElement, FS_CardinalityType
<1>2. IsFiniteSet(T) /\ Cardinality(T) <= Cardinality(S \ {c})
  BY <1>1, FS_Subset
<1>3. Cardinality(T) \in Nat
  BY <1>2, FS_CardinalityType
<1> QED BY <1>1, <1>2, <1>3

LEMMA NoMore ==
  ASSUME NEW S, IsFiniteSet(S), NEW T, T \subseteq S
  PROVE  /\ IsFiniteSet(T) /\ Cardinality(T) \in Nat
         /\ Cardinality(S) \in Nat /\ Cardinality(T) <= Cardinality(S)
BY FS_Subset, FS_CardinalityType

\* A command: the question is owed from the step that asks it.
LEMMA CommandAnswers ==
  ASSUME NetInv, AnswerInv, Command
  PROVE  AnswerInv'
<1>1. /\ IsABag(air) /\ asked \in [Node -> Nat] /\ heard \in [Node -> Nat]
      /\ \A k \in Node : /\ IsFiniteSet(OwedIn(air, k))
                         /\ heard[k] + Cardinality(OwedIn(air, k)) <= asked[k]
  BY DEF NetInv, HistOK, AnswerInv
<1>2. ASSUME NEW n \in Node, NEW dst, NEW op \in {"GET", "SET", "SET_UNACK"}, NEW size,
             SendVendor(n, dst, op, size)
      PROVE  AnswerInv'
  <2> DEFINE v == Vendor(op, n, dst, FALSE, [status |-> FALSE, by |-> sent', len |-> size])
  <2>1. air' = Put(air, {v}) /\ heard' = heard
        /\ asked' = IF op = "SET_UNACK" THEN asked ELSE [asked EXCEPT ![n] = @ + 1]
    BY <1>2 DEF SendVendor
  <2>2. v.op = op /\ v.src = n
    BY DEF Vendor
  <2> HIDE DEF v
  <2>3. IsABag(air')
    BY <1>1, <2>1, PutCounts
  <2>4. ASSUME NEW k \in Node
        PROVE  IsFiniteSet(OwedIn(air', k)) /\ heard[k] + Cardinality(OwedIn(air', k)) <= asked'[k]
    <3>1. CASE Due(v, k)
      <4>1. op # "SET_UNACK" /\ k = n
        BY <2>2, <3>1 DEF Due
      <4>2. asked'[k] = asked[k] + 1
        BY <1>1, <2>1, <4>1
      <4>3. PICK c : OwedIn(air', k) \subseteq OwedIn(air, k) \cup {c}
        BY <1>1, <2>1, PutOwes
      <4>4. /\ IsFiniteSet(OwedIn(air', k)) /\ Cardinality(OwedIn(air', k)) \in Nat
            /\ Cardinality(OwedIn(air, k)) \in Nat
            /\ Cardinality(OwedIn(air', k)) <= Cardinality(OwedIn(air, k)) + 1
        BY <1>1, <4>3, OneMore
      <4> QED BY <1>1, <4>2, <4>4
    <3>2. CASE ~Due(v, k)
      <4>1. asked'[k] \in Nat /\ asked'[k] >= asked[k]
        BY <1>1, <2>1
      <4>2. OwedIn(air', k) \subseteq OwedIn(air, k)
        BY <1>1, <2>1, <3>2, PutOwesNothing
      <4>3. /\ IsFiniteSet(OwedIn(air', k)) /\ Cardinality(OwedIn(air', k)) \in Nat
            /\ Cardinality(OwedIn(air, k)) \in Nat
            /\ Cardinality(OwedIn(air', k)) <= Cardinality(OwedIn(air, k))
        BY <1>1, <4>2, NoMore
      <4> QED BY <1>1, <4>1, <4>3
    <3> QED BY <3>1, <3>2
  <2> QED BY <2>1, <2>3, <2>4 DEF AnswerInv
<1>3. ASSUME NEW n, NEW dst, NEW idx, NEW on, SendOnOff(n, dst, idx, on)
      PROVE  AnswerInv'
  <2> DEFINE v == OnOff("SET", n, dst, idx, on)
  <2>1. air' = Put(air, {v}) /\ heard' = heard /\ asked' = asked
    BY <1>3 DEF SendOnOff
  <2>2. \A k : ~Due(v, k)
    BY DEF Due, OnOff
  <2> HIDE DEF v
  <2>3. IsABag(air')
    BY <1>1, <2>1, PutCounts
  <2>4. ASSUME NEW k \in Node
        PROVE  IsFiniteSet(OwedIn(air', k)) /\ heard[k] + Cardinality(OwedIn(air', k)) <= asked[k]
    <3>1. OwedIn(air', k) \subseteq OwedIn(air, k)
      BY <1>1, <2>1, <2>2, PutOwesNothing
    <3>2. /\ IsFiniteSet(OwedIn(air', k)) /\ Cardinality(OwedIn(air', k)) \in Nat
          /\ Cardinality(OwedIn(air, k)) \in Nat
          /\ Cardinality(OwedIn(air', k)) <= Cardinality(OwedIn(air, k))
      BY <1>1, <3>1, NoMore
    <3> QED BY <1>1, <3>2
  <2> QED BY <2>1, <2>3, <2>4 DEF AnswerInv
<1>4. \A n \in Consoles : n \in Node
  BY MeshNetAssumption
<1> QED BY <1>2, <1>3, <1>4 DEF Command

\* A message is taken, others that owe nothing are put there, and nobody hears.
LEMMA QuietAnswers ==
  ASSUME NetInv, AnswerInv, NEW m \in BagToSet(air),
         \/ air' = Take(m)
         \/ \E msgs : (\A r \in msgs : \A k : ~Due(r, k)) /\ air' = Put(Take(m), msgs),
         heard' = heard, asked' = asked
  PROVE  AnswerInv'
<1>1. /\ IsABag(air) /\ asked \in [Node -> Nat] /\ heard \in [Node -> Nat]
      /\ \A k \in Node : /\ IsFiniteSet(OwedIn(air, k))
                         /\ heard[k] + Cardinality(OwedIn(air, k)) <= asked[k]
  BY DEF NetInv, HistOK, AnswerInv
<1>2. m \in DOMAIN air
  BY DEF BagToSet
<1>3. IsABag(Take(m))
  BY <1>1, <1>2, TakeCounts
<1>5. IsABag(air')
  <2>1. \A msgs : IsABag(Put(Take(m), msgs))
    BY <1>3, PutCounts
  <2> QED BY <1>3, <2>1
<1>4. ASSUME NEW k \in Node
      PROVE  IsFiniteSet(OwedIn(air', k)) /\ heard[k] + Cardinality(OwedIn(air', k)) <= asked[k]
  <2>1. OwedIn(air', k) \subseteq OwedIn(Take(m), k)
    BY <1>3, PutOwesNothing, Zenon
  <2>2. OwedIn(Take(m), k) \subseteq OwedIn(air, k)
    BY <1>1, <1>2, TakeOwes
  <2>3. OwedIn(air', k) \subseteq OwedIn(air, k)
    BY <2>1, <2>2
  <2>4. /\ IsFiniteSet(OwedIn(air', k)) /\ Cardinality(OwedIn(air', k)) \in Nat
        /\ Cardinality(OwedIn(air, k)) \in Nat
        /\ Cardinality(OwedIn(air', k)) <= Cardinality(OwedIn(air, k))
    BY <1>1, <2>3, NoMore
  <2> QED BY <1>1, <2>4
<1> QED BY <1>4, <1>5 DEF AnswerInv

\* What xradio_vendor_model_receive sends: one answer to a GET or SET, to the node
\* that it came from.  What it publishes is nobody's.
LEMMA RepliesOwe ==
  ASSUME NEW n, NEW m, NEW r \in Replies(n, m), NEW k, Due(r, k)
  PROVE  /\ m.op \in {"GET", "SET"} /\ k = m.src
         /\ r = Vendor("STAT", n, m.src, FALSE, NameData(n))
<1>1. r.op \notin {"GET", "SET"}
  <2>1. r.op = ReplyOp(m)
    BY DEF Replies, Vendor
  <2> QED BY <2>1 DEF ReplyOp
<1>2. r.op = "STAT" /\ ~r.published /\ r.dst = k
  BY <1>1 DEF Due
<1>3. CASE Answers(m) /\ r = Vendor(ReplyOp(m), n, m.src, FALSE, NameData(n))
  <2>1. r.dst = m.src
    BY <1>3 DEF Vendor
  <2>2. m.op \in {"GET", "SET"} /\ ReplyOp(m) = "STAT"
    BY <1>3 DEF Answers, ReplyOp
  <2> QED BY <1>2, <1>3, <2>1, <2>2
<1>4. CASE \E s \in Subscribers[n] : r = Vendor(ReplyOp(m), n, s, TRUE, NameData(n))
  BY <1>2, <1>4 DEF Vendor
<1> QED BY <1>3, <1>4 DEF Replies

LEMMA ReceiveAnswers ==
  ASSUME NetInv, AnswerInv, NEW m \in BagToSet(air), m.model = "vendor",
         ReceiveVendor(m.dst, m)
  PROVE  AnswerInv'
<1> DEFINE msgs == Replies(m.dst, m)
           answer == Vendor("STAT", m.dst, m.src, FALSE, NameData(m.dst))
<1>1. /\ IsABag(air) /\ asked \in [Node -> Nat] /\ heard \in [Node -> Nat]
      /\ \A k \in Node : /\ IsFiniteSet(OwedIn(air, k))
                         /\ heard[k] + Cardinality(OwedIn(air, k)) <= asked[k]
  BY DEF NetInv, HistOK, AnswerInv
<1>2. m \in DOMAIN air /\ m.dst \in Node
  BY DEF BagToSet, NetInv, MsgOK
<1>3. /\ air' = Put(Take(m), msgs) /\ asked' = asked
      /\ heard' = IF m.op = "STAT" /\ ~m.published THEN [heard EXCEPT ![m.dst] = @ + 1] ELSE heard
  BY DEF ReceiveVendor
<1>4. /\ \A r \in msgs : \A k : Due(r, k) => r = answer /\ k = m.src /\ m.op \in {"GET", "SET"}
      /\ IsABag(Take(m))
  <2>1. \A r \in msgs : \A k : Due(r, k) => r = answer /\ k = m.src /\ m.op \in {"GET", "SET"}
    BY RepliesOwe
  <2> QED BY <1>1, <1>2, <2>1, TakeCounts
<1> HIDE DEF msgs, answer
<1>5. IsABag(air')
  BY <1>3, <1>4, PutCounts
<1>6. ASSUME NEW k \in Node
      PROVE  IsFiniteSet(OwedIn(air', k)) /\ heard'[k] + Cardinality(OwedIn(air', k)) <= asked[k]
  <2> DEFINE rest == OwedIn(Take(m), k)
             copy == <<m, air[m]>>
  <2>1. rest \subseteq OwedIn(air, k) \ {copy} /\ (Due(m, k) => copy \in OwedIn(air, k))
    BY <1>1, <1>2, TakeOwes
  <2> HIDE DEF rest, copy
  <2>2. CASE Due(m, k)
    <3>1. /\ IsFiniteSet(rest) /\ Cardinality(rest) \in Nat /\ Cardinality(OwedIn(air, k)) \in Nat
          /\ Cardinality(rest) + 1 <= Cardinality(OwedIn(air, k))
      BY <1>1, <2>1, <2>2, OneLess
    <3>2. CASE m.op = "STAT"
      <4>1. OwedIn(air', k) \subseteq rest
        <5>1. \A r \in msgs : ~Due(r, k)
          BY <1>4, <3>2
        <5> QED BY <1>3, <1>4, <5>1, PutOwesNothing DEF rest
      <4>2. /\ IsFiniteSet(OwedIn(air', k)) /\ Cardinality(OwedIn(air', k)) \in Nat
            /\ Cardinality(OwedIn(air', k)) <= Cardinality(rest)
        BY <3>1, <4>1, NoMore
      <4>3. heard'[k] \in {heard[k], heard[k] + 1}
        BY <1>1, <1>2, <1>3
      <4> QED BY <1>1, <3>1, <4>2, <4>3
    <3>3. CASE m.op # "STAT"
      <4>1. PICK c : OwedIn(air', k) \subseteq rest \cup {c}
        <5>1. \A r \in msgs : Due(r, k) => r = answer
          BY <1>4
        <5> QED BY <1>3, <1>4, <5>1, PutOwes DEF rest
      <4>2. /\ IsFiniteSet(OwedIn(air', k)) /\ Cardinality(OwedIn(air', k)) \in Nat
            /\ Cardinality(OwedIn(air', k)) <= Cardinality(rest) + 1
        BY <3>1, <4>1, OneMore
      <4>3. heard'[k] = heard[k]
        BY <1>3, <3>3
      <4> QED BY <1>1, <3>1, <4>2, <4>3
    <3> QED BY <3>2, <3>3
  <2>3. CASE ~Due(m, k)
    <3>1. heard'[k] = heard[k]
      BY <1>1, <1>2, <1>3, <2>3 DEF Due
    <3>2. \A r \in msgs : ~Due(r, k)
      BY <1>4, <2>3 DEF Due
    <3>3. OwedIn(air', k) \subseteq rest
      BY <1>3, <1>4, <3>2, PutOwesNothing DEF rest
    <3>4. OwedIn(air', k) \subseteq OwedIn(air, k)
      BY <2>1, <3>3
    <3>5. /\ IsFiniteSet(OwedIn(air', k)) /\ Cardinality(OwedIn(air', k)) \in Nat
          /\ Cardinality(OwedIn(air, k)) \in Nat
          /\ Cardinality(OwedIn(air', k)) <= Cardinality(OwedIn(air, k))
      BY <1>1, <3>4, NoMore
    <3> QED BY <1>1, <3>1, <3>5
  <2> QED BY <2>2, <2>3
<1> QED BY <1>3, <1>5, <1>6 DEF AnswerInv

\* Every step keeps AnswerInv.
LEMMA AnswerStep ==
  ASSUME NetInv, AnswerInv, [Next]_vars
  PROVE  AnswerInv'
<1>1. CASE Command
  BY <1>1, CommandAnswers
<1>2. ASSUME NEW m \in BagToSet(air), Deliver(m) \/ Lose(m) PROVE AnswerInv'
  <2>1. CASE m.model = "vendor" /\ ReceiveVendor(m.dst, m)
    BY <2>1, ReceiveAnswers
  <2>2. CASE ReceiveOnOff(m.dst, m)
    <3>1. heard' = heard /\ asked' = asked
      BY <2>2 DEF ReceiveOnOff
    <3>2. \/ air' = Take(m)
          \/ \E status \in StatusOf(m.dst, m.element, m.on) : air' = Put(Take(m), status)
      BY <2>2 DEF ReceiveOnOff, ReceiveOnOffSet
    <3>3. \A status \in StatusOf(m.dst, m.element, m.on) : \A r \in status : \A k : ~Due(r, k)
      BY DEF StatusOf, OnOff, Due
    <3> QED BY <3>1, <3>2, <3>3, QuietAnswers
  <2>3. CASE Lose(m)
    <3>1. heard' = heard /\ asked' = asked /\ air' = Take(m)
      BY <2>3 DEF Lose
    <3> QED BY <3>1, QuietAnswers
  <2> QED BY <1>2, <2>1, <2>2, <2>3 DEF Deliver
<1>3. CASE UNCHANGED netVars
  <2>1. air' = air /\ heard' = heard /\ asked' = asked
    BY <1>3 DEF netVars
  <2> QED BY <2>1 DEF AnswerInv
<1> QED BY <1>1, <1>2, <1>3 DEF Next, Stack, Enable, vars

\* No node ever hears more answers than it has asked for, counting those on their
\* way: publications do not pass for answers, and no answer calls for another
\* (xradio_vendor_model_receive).
THEOREM AnswersAsked == Spec => []AnswersAreAsked
<1>1. Init => AnswerInv
  <2> SUFFICES ASSUME Init PROVE AnswerInv
    OBVIOUS
  <2>1. DOMAIN air = {}
    BY DEF Init, EmptyBag, SetToBag
  <2>2. IsABag(air)
    BY <2>1 DEF IsABag, Init, EmptyBag, SetToBag
  <2>3. \A n \in Node : OwedIn(air, n) = {}
    BY <2>1 DEF OwedIn
  <2>4. \A n \in Node : heard[n] = 0 /\ asked[n] = 0
    BY DEF Init
  <2> QED BY <2>2, <2>3, <2>4, FS_EmptySet DEF AnswerInv
<1>2. NetInv /\ AnswerInv => AnswersAreAsked
  <2> SUFFICES ASSUME NetInv, AnswerInv, NEW n \in Node
               PROVE  LET coming == {m \in BagToSet(air) : m.model = "vendor" /\ m.op = "STAT"
                                                           /\ ~m.published /\ m.dst = n}
                      IN  heard[n] + Cardinality(Copies(coming)) <= asked[n]
    BY DEF AnswersAreAsked
  <2> DEFINE coming == {m \in BagToSet(air) : m.model = "vendor" /\ m.op = "STAT"
                                              /\ ~m.published /\ m.dst = n}
  <2>1. Copies(coming) \subseteq OwedIn(air, n)
    BY DEF Copies, OwedIn, Due, BagToSet
  <2> HIDE DEF coming
  <2>2. /\ IsFiniteSet(OwedIn(air, n)) /\ heard[n] + Cardinality(OwedIn(air, n)) <= asked[n]
        /\ heard[n] \in Nat /\ asked[n] \in Nat
    BY DEF NetInv, HistOK, AnswerInv
  <2>3. /\ Cardinality(Copies(coming)) \in Nat /\ Cardinality(OwedIn(air, n)) \in Nat
        /\ Cardinality(Copies(coming)) <= Cardinality(OwedIn(air, n))
    BY <2>1, <2>2, NoMore
  <2> QED BY <2>2, <2>3 DEF coming
<1> QED BY <1>1, <1>2, AnswerStep, Invariant, PTL DEF Spec

=============================================================================
