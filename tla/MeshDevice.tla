----------------------------- MODULE MeshDevice -----------------------------
(***************************************************************************)
(* What a node of the mesh demo sets up when it is enabled                 *)
(* (mesh/aw_mesh_device_demo.c, vendor_model_reg in mesh/aw_mesh_vnd_mdl.c *)
(* and cmd_enable): an element of its own with an on/off server, an on/off *)
(* client and the two vendor models.  Nothing stops an operator who        *)
(* enables a node twice, and the results of the stack are not looked at.   *)
(***************************************************************************)
EXTENDS Naturals, Sequences, FiniteSets

CONSTANTS
  Node,          \* the nodes
  MaxElements,   \* how many elements the stack gives a node
  MaxEnables,    \* bound: how often each node is enabled
  Refusing       \* bound: the nodes whose stack may refuse with room left

ASSUME MeshDeviceAssumption ==
  /\ IsFiniteSet(Node)
  /\ MaxElements \in 1..256
  /\ MaxEnables \in [Node -> Nat]
  /\ Refusing \subseteq Node

VARIABLES
  elements,    \* how many elements the stack has for the node
  light,       \* present_onoff of the on/off server of each element
  vndModels,   \* m_vnd_models: the vendor models handed to the stack, in order
  vndInStack,  \* those the stack has taken
  enables      \* how often the node has been enabled (for the bound)

deviceVars == <<elements, light, vndModels, vndInStack, enables>>

ElementIdx == 0..(MaxElements - 1)
VndModelId == {0, 1}    \* server and client

VndModel(idx, model) == [element |-> idx % 256, model |-> model]
Listed(queue) == {queue[i] : i \in DOMAIN queue}

ByModelOnly(queue, idx, model) ==     \* mutant: the element is not compared
  IF \E m \in Listed(queue) : m.model = model THEN queue
  ELSE Append(queue, VndModel(idx, model))

\* vendor_model_reg: a model that is listed is not given to the stack again.
VendorModelReg(queue, idx, model) ==
  IF VndModel(idx, model) \in Listed(queue) THEN queue
  ELSE Append(queue, VndModel(idx, model))

\* aw_mesh_add_element: the index of the new element, or the zero that was there.
AddElement(n, idx) ==
  \/ /\ elements[n] < MaxElements
     /\ idx = elements[n]
     /\ elements' = [elements EXCEPT ![n] = @ + 1]
  \/ /\ n \in Refusing \/ elements[n] = MaxElements
     /\ idx = 0
     /\ UNCHANGED elements

AtTheCount(n, idx) ==    \* mutant: the count of elements for the index
  elements'[n] \in ElementIdx /\ light' = [light EXCEPT ![n][elements'[n]] = "off"]

\* demo_new_goo_model: a new server is off; the stack may refuse it, which leaves
\* the element what it had.
NewGooModel(n, idx) ==
  \/ light' = [light EXCEPT ![n][idx] = "off"]
  \/ n \in Refusing /\ UNCHANGED light

\* demo_new_vendor_model; the stack may refuse either model, and both stay listed.
NewVendorModel(n, idx) ==
  /\ vndModels' = [vndModels EXCEPT ![n] = VendorModelReg(VendorModelReg(@, idx, 0), idx, 1)]
  /\ LET new == Listed(vndModels'[n]) \ Listed(vndModels[n])
     IN  \E taken \in IF n \in Refusing THEN SUBSET new ELSE {new} :
           vndInStack' = [vndInStack EXCEPT ![n] = @ \cup taken]

\* cmd_enable, aw_mesh_demo_device_init
EnableNode(n) ==
  /\ enables[n] < MaxEnables[n]
  /\ enables' = [enables EXCEPT ![n] = @ + 1]
  /\ \E idx \in ElementIdx :
       /\ AddElement(n, idx)
       /\ NewGooModel(n, idx)
       /\ NewVendorModel(n, idx)

DeviceInit ==
  /\ elements = [n \in Node |-> 0]
  /\ light = [n \in Node |-> [idx \in ElementIdx |-> "none"]]
  /\ vndModels = [n \in Node |-> <<>>]
  /\ vndInStack = [n \in Node |-> {}]
  /\ enables = [n \in Node |-> 0]

(***************************************************************************)
(* Properties.                                                             *)
(***************************************************************************)

DeviceTypeOK ==
  /\ elements \in [Node -> 0..MaxElements]
  /\ light \in [Node -> [ElementIdx -> {"none", "off", "on"}]]
  /\ \A n \in Node, idx \in ElementIdx : light[n][idx] # "none" => idx < elements[n] \/ idx = 0
  /\ \A n \in Node : Listed(vndModels[n]) \subseteq [element : 0..255, model : VndModelId]
  /\ vndInStack \in [Node -> SUBSET [element : 0..255, model : VndModelId]]
  /\ enables \in [Node -> Nat]

\* However often a node is enabled and whichever call of the stack fails, each
\* vendor model of each element is handed to the stack once and no other is
\* (vendor_model_reg, demo_new_vendor_model).
VendorModelsOnce ==
  \A n \in Node :
    /\ Cardinality(Listed(vndModels[n])) = Len(vndModels[n])
    /\ vndInStack[n] \subseteq Listed(vndModels[n])
    /\ \A idx \in 0..(elements[n] - 1), model \in VndModelId :
         VndModel(idx, model) \in Listed(vndModels[n])
=============================================================================
