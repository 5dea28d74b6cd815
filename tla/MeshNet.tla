------------------------------ MODULE MeshNet ------------------------------
(***************************************************************************)
(* The models of the mesh demo on the air: the on/off server and client    *)
(* (mesh/aw_mesh_device_demo.c) and the vendor model, which keeps a name   *)
(* for the whole process (mesh/aw_mesh_vnd_mdl.c).  The consoles send      *)
(* commands; the air loses messages and delivers them in any order; a      *)
(* message that is published goes to every subscriber by itself.  Every    *)
(* handler runs in the stack's one thread, so its steps are one.           *)
(***************************************************************************)
EXTENDS MeshDevice, Bags

CONSTANTS
  Consoles,      \* the nodes whose operators send commands
  Subscribers,   \* to which nodes each node publishes
  Sizes,         \* the lengths of the names that the consoles send
  MaxCommands    \* bound: how many commands are sent

ASSUME MeshNetAssumption ==
  /\ Consoles \subseteq Node
  /\ Subscribers \in [Node -> SUBSET Node]
  /\ Sizes \subseteq Nat
  /\ MaxCommands \in Nat

VARIABLES
  air,      \* messages under way, a bag
  name,     \* vendor_model_name of each node: who gave it, and strlen
  sent,     \* how many commands have been sent
  given,    \* history: the commands that gave each node a name
  asked,    \* history: how many answers each node has asked for
  heard     \* history: how many answers have reached it

netVars == <<air, name, sent, given, asked, heard>>
vars == <<deviceVars, netVars>>

NameSize == 32                       \* MAX_VND_NAME_SIZE
MsgSize  == 36                       \* MAX_VND_NAME_MSG_SIZE
OpcodeSize == 3

Fresh == [by |-> 0, len |-> 11]      \* "xradio-mesh"
Empty == [by |-> 0, len |-> 0]

(***************************************************************************)
(* Messages.  The data of a vendor message are the characters of a name,   *)
(* with the byte of a status before it or without; by is the command they  *)
(* come from and len counts the bytes.                                     *)
(***************************************************************************)

Vendor(op, src, dst, published, data) ==
  [model |-> "vendor", op |-> op, src |-> src, dst |-> dst,
   published |-> published, data |-> data]
OnOff(op, src, dst, element, on) ==
  [model |-> "onoff", op |-> op, src |-> src, dst |-> dst, element |-> element, on |-> on]

Put(bag, msgs) == bag (+) SetToBag(msgs)
Take(m) == air (-) SetToBag({m})

(***************************************************************************)
(* The consoles: send_vdn_mdl and goo_client.                              *)
(***************************************************************************)

MayCommand == sent < MaxCommands

SendVendor(n, dst, op, size) ==
  /\ MayCommand /\ n # dst
  /\ sent' = sent + 1
  /\ air' = Put(air, {Vendor(op, n, dst, FALSE,
                             [status |-> FALSE, by |-> sent', len |-> size])})
  /\ given' = IF op = "GET" THEN given ELSE [given EXCEPT ![dst] = @ \cup {sent'}]
  /\ asked' = IF op = "SET_UNACK" THEN asked ELSE [asked EXCEPT ![n] = @ + 1]
  /\ UNCHANGED <<name, heard, deviceVars>>

SendOnOff(n, dst, element, on) ==
  /\ MayCommand /\ n # dst
  /\ sent' = sent + 1
  /\ air' = Put(air, {OnOff("SET", n, dst, element, on)})
  /\ UNCHANGED <<name, given, asked, heard, deviceVars>>

(***************************************************************************)
(* xradio_vendor_model_receive                                             *)
(***************************************************************************)

\* What strlen finds in the buffer once the data are in it: the byte of a status
\* is zero and ends the name before its first character.
NameIn(data, copied) ==
  IF data.status THEN Empty ELSE [by |-> data.by, len |-> copied]

CutsTooLate(data) ==     \* mutant: a name of 32 bytes is not cut
  LET len == data.len % 256
  IN  NameIn(data, IF len > NameSize THEN NameSize - 1 ELSE len)

\* The length is kept in eight bits.
SetName(data) ==
  LET len == data.len % 256
  IN  NameIn(data, IF len >= NameSize THEN NameSize - 1 ELSE len)

GivesName(m) == m.op \in {"SET", "SET_UNACK"} /\ m.data.len % 256 >= 1

AnswersStatus(m) ==      \* mutant: a status is answered like a GET
  m.op \in {"GET", "SET", "STAT"}

Answers(m) == m.op \in {"GET", "SET"}

PublishesBare(n) ==      \* mutant: no byte for the status before the name
  [status |-> FALSE, by |-> name'[n].by, len |-> name'[n].len + 1]

\* The message that both the answer and the publication carry.
NameData(n) == [status |-> TRUE, by |-> name'[n].by, len |-> name'[n].len + 2]

KeepsOpcode(m) == m.op   \* mutant: a SET is answered and published as a SET

\* The opcode of a GET or SET becomes that of a status; SET_UNACK stays.
ReplyOp(m) == IF m.op = "SET_UNACK" THEN "SET_UNACK" ELSE "STAT"

Replies(n, m) ==
  (IF Answers(m) THEN {Vendor(ReplyOp(m), n, m.src, FALSE, NameData(n))} ELSE {})
  \cup (IF GivesName(m)
        THEN {Vendor(ReplyOp(m), n, s, TRUE, NameData(n)) : s \in Subscribers[n]} ELSE {})

ReceiveVendor(n, m) ==
  /\ name' = [name EXCEPT ![n] = IF GivesName(m) THEN SetName(m.data) ELSE @]
  /\ air' = Put(Take(m), Replies(n, m))
  /\ heard' = IF m.op = "STAT" /\ ~m.published THEN [heard EXCEPT ![n] = @ + 1] ELSE heard
  /\ UNCHANGED <<sent, given, asked, deviceVars>>

(***************************************************************************)
(* The on/off server and client.                                           *)
(***************************************************************************)

\* on_off_value_publish leaves the destination and the kind of transmission of
\* its message unset: the status goes wherever the stack then sends it, or nowhere.
StatusOf(n, idx, on) ==
  {{}} \cup {{OnOff("STATUS", n, to, idx, on)} : to \in Node}

\* on_off_value_set; a set with a transition still under way changes nothing.
ReceiveOnOffSet(n, m) ==
  \E steps \in {0, 1} :
    IF steps = 0 /\ light[n][m.element] # m.on
    THEN /\ light' = [light EXCEPT ![n][m.element] = m.on]
         /\ \E status \in StatusOf(n, m.element, m.on) : air' = Put(Take(m), status)
    ELSE air' = Take(m) /\ UNCHANGED light

ReceiveOnOff(n, m) ==
  /\ \/ m.op = "SET" /\ ReceiveOnOffSet(n, m)
     \/ m.op = "STATUS" /\ air' = Take(m) /\ UNCHANGED light    \* the client logs it
  /\ UNCHANGED <<name, sent, given, asked, heard, elements, vndModels, vndInStack, enables>>

(***************************************************************************)
(* The stack: it calls the handler of a model that the node has registered *)
(* (demo_vnd_model_msg_receive, demo_model_msg_receive), or the message is *)
(* lost.                                                                   *)
(***************************************************************************)

HasModel(n, m) ==
  IF m.model = "vendor" THEN vndInStack[n] # {} ELSE light[n][m.element] # "none"

Deliver(m) ==
  /\ HasModel(m.dst, m)
  /\ \/ m.model = "vendor" /\ ReceiveVendor(m.dst, m)
     \/ m.model = "onoff" /\ ReceiveOnOff(m.dst, m)

Lose(m) ==
  /\ air' = Take(m)
  /\ UNCHANGED <<name, sent, given, asked, heard, deviceVars>>

Command ==
  \E n \in Consoles, dst \in Node :
    \/ SendVendor(n, dst, "GET", 0)
    \/ \E op \in {"SET", "SET_UNACK"}, size \in Sizes : SendVendor(n, dst, op, size)
    \/ \E idx \in ElementIdx, on \in {"on", "off"} : SendOnOff(n, dst, idx, on)

Enable(n) == EnableNode(n) /\ UNCHANGED netVars

Stack == \E m \in BagToSet(air) : Deliver(m) \/ Lose(m)

Init ==
  /\ DeviceInit
  /\ air = EmptyBag
  /\ name = [n \in Node |-> Fresh]
  /\ sent = 0
  /\ given = [n \in Node |-> {}]
  /\ asked = [n \in Node |-> 0] /\ heard = [n \in Node |-> 0]

Next == Command \/ Stack \/ \E n \in Node : Enable(n)

\* Every message comes to its end.
Spec == Init /\ [][Next]_vars /\ WF_vars(Stack)

(***************************************************************************)
(* Properties.                                                             *)
(***************************************************************************)

MeshTypeOK ==
  /\ DeviceTypeOK
  /\ \A m \in BagToSet(air) : m.src \in Node /\ m.dst \in Node
  /\ sent \in Nat
  /\ given \in [Node -> SUBSET (1..sent)]
  /\ asked \in [Node -> Nat] /\ heard \in [Node -> Nat]

\* A name and the message that carries it stay within their arrays, whatever
\* length arrives (xradio_vendor_model_receive).
NameFits ==
  /\ \A n \in Node : name[n].len < NameSize
  /\ \A m \in BagToSet(air) :
       m.model = "vendor" /\ m.data.status => OpcodeSize + m.data.len <= MsgSize

\* A node only ever takes a name from a command sent to itself: what it learns
\* from the publications of others is the empty name, for the byte of a status
\* comes first in them (NameData, xradio_vendor_model_receive).
OnlyTheTargetTakesTheName ==
  \A n \in Node : name[n].by \in given[n] \/ name[n] \in {Fresh, Empty}

\* The messages of a set with each of their copies on the air.
Copies(msgs) == UNION {{m} \X (1..air[m]) : m \in msgs}

\* No node gets more answers than it has asked for, though a SET is also
\* published and a status may reach a node that publishes in turn.
AnswersAreAsked ==
  \A n \in Node :
    LET coming == {m \in BagToSet(air) :
                     m.model = "vendor" /\ m.op = "STAT" /\ ~m.published /\ m.dst = n}
    IN  heard[n] + Cardinality(Copies(coming)) <= asked[n]

\* Where the publications make no circle, the air falls silent once the consoles
\* have: no answer calls for an answer (xradio_vendor_model_receive).
AirFallsSilent == <>[](air = EmptyBag)
=============================================================================
