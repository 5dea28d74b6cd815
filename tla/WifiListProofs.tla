--------------------------- MODULE WifiListProofs ---------------------------
(***************************************************************************)
(* Theorems about the list of networks that the calls of WifiManager edit  *)
(* and the file it is saved to, for every set of names and identifiers.    *)
(*                                                                         *)
(* ListInv says where a call may be, that an identifier names one entry,   *)
(* which entries a call that adds a network is working on, when the file   *)
(* may be behind the list, and where the entry of a call that failed may   *)
(* still be.  TwinsInv, on top of it, follows the entries of equal name    *)
(* and key type from ADD_NETWORK to the removal of one of the two.         *)
(***************************************************************************)
EXTENDS WifiManagerProofs

(***************************************************************************)
(* Lists of networks.  What the properties tell apart is the identifier,   *)
(* the name and the key type of an entry, not whether it is on.            *)
(***************************************************************************)

Same(m, n) == m.id = n.id /\ m.ssid = n.ssid /\ m.key = n.key

\* Every entry of a is one of b.
Within(a, b) == \A m \in a : \E n \in b : Same(m, n)

OneEach(nets) == \A m, n \in nets : m.id = n.id => Same(m, n)
NoTwins(nets) ==
  \A m, n \in nets : m.ssid = n.ssid /\ m.key = n.key => m.id = n.id

\* What is true of a list is true of a part of it.
LEMMA PartOf ==
  ASSUME NEW a, NEW b, Within(a, b)
  PROVE  /\ OneEach(b) => OneEach(a)
         /\ NoTwins(b) => NoTwins(a)
         /\ \A i : i \notin Ids(b) => i \notin Ids(a)
         /\ \A i : Within(Without(a, i), Without(b, i))
BY DEF Within, Same, OneEach, NoTwins, Ids, Without

\* A list is a part of itself, and so is what is left when entries go.
LEMMA WithinItself ==
  ASSUME NEW a
  PROVE  /\ Within(a, a)
         /\ \A b \in SUBSET a : Within(b, a)
         /\ \A i : Within(Without(a, i), a) /\ i \notin Ids(Without(a, i))
BY DEF Within, Same, Without, Ids

\* A part of a part is a part.
LEMMA WithinWithin ==
  ASSUME NEW a, NEW b, NEW c, Within(a, b), Within(b, c)
  PROVE  Within(a, c)
BY DEF Within, Same

\* Turning entries on and off changes no entry.
LEMMA SwitchSame ==
  ASSUME NEW n \in Network, NEW b \in BOOLEAN
  PROVE  Same([n EXCEPT !.on = b], n) /\ Same(n, [n EXCEPT !.on = b])
BY DEF Same, Network

\* So of all entries at once.
LEMMA SwitchAll ==
  ASSUME NEW a \in SUBSET Network, NEW b \in BOOLEAN
  PROVE  /\ Within({[n EXCEPT !.on = b] : n \in a}, a)
         /\ Within(a, {[n EXCEPT !.on = b] : n \in a})
BY SwitchSame DEF Within

\* SELECT_NETWORK switches one on and the others off.
LEMMA SwitchOne ==
  ASSUME NEW a \in SUBSET Network, NEW i
  PROVE  /\ Within({[n EXCEPT !.on = (n.id = i)] : n \in a}, a)
         /\ Within(a, {[n EXCEPT !.on = (n.id = i)] : n \in a})
<1>1. \A n \in a : (n.id = i) \in BOOLEAN
  OBVIOUS
<1>2. \A n \in a : /\ Same([n EXCEPT !.on = (n.id = i)], n)
                   /\ Same(n, [n EXCEPT !.on = (n.id = i)])
  BY <1>1, SwitchSame
<1> QED
  BY <1>2, ZenonT(60) DEF Within

\* Two lists have the same entries when each is part of the other.
LEMMA SameEntries ==
  ASSUME NEW a, NEW b, Within(a, b), Within(b, a)
  PROVE  Entries(a) = Entries(b)
BY DEF Within, Same, Entries

\* Equal sets of entries are parts of each other.
LEMMA EntriesTell ==
  ASSUME NEW a, NEW b, Entries(a) = Entries(b)
  PROVE  Within(a, b)
<1> SUFFICES ASSUME NEW m \in a
             PROVE  \E n \in b : Same(m, n)
  BY DEF Within
<1>1. <<m.id, m.ssid, m.key>> \in Entries(b)
  BY DEF Entries
<1>2. PICK n \in b : <<m.id, m.ssid, m.key>> = <<n.id, n.ssid, n.key>>
  BY <1>1 DEF Entries
<1> QED
  BY <1>2 DEF Same

(***************************************************************************)
(* The invariant.                                                          *)
(***************************************************************************)

\* From ADD_NETWORK to the end of the attempt the call has an entry, call.new,
\* and knows the one it stands to replace, call.old.
Adding == AddsNetwork /\ pc \in {"configure", "select", "wait"}
Named(n) == n.ssid = call.ssid /\ n.key = KeyType(call.mgmt)

\* Where the API thread is when it runs which call.
PlacesOK ==
  /\ pc \in {"add", "configure"} => AddsNetwork
  /\ pc \in {"after", "scan"} => call.op = "connect_ap"
  /\ pc \in {"remove", "reenable"} => call.op = "wps_pbc"
  /\ pc \in {"reconnect", "pbc"} => ~AddsNetwork
  /\ pc \in {"idle", "status", "clear", "add"} => call.new = NoId
  /\ pc = "scan" => call.ret < 0

DeadEmpty == ~alive => net = {}
IdsOK == OneEach(net) /\ OneEach(saved)
PairOK == Adding => \A n \in net : n.id \in {call.old, call.new} => Named(n)

\* Apart from a SAVE_CONFIG that failed, the file may be behind the list from the first command of an attempt to the
\* last ENABLE_NETWORK of the call, or to SELECT_NETWORK in add_network.
Behind ==
  \/ /\ call.op \in {"connect_ap", "connect_ap_key_mgmt"}
     /\ pc \in Attempt \cup {"after", "scan", "enable"}
  \/ call.op = "add_network" /\ pc \in {"configure", "select"}
Synced == alive /\ ~Behind /\ ~unsaved => Entries(net) = Entries(saved)

\* The entry of an attempt that failed is gone from the list, and from the file
\* when the call ends.
GoneOK ==
  ~orphan /\ ~crashed =>
    /\ ~alive => call.new = NoId
    /\ AddsNetwork /\ call.ret < 0 /\ ~Adding => call.new \notin Ids(net)
    /\ AddsNetwork /\ call.ret < 0 /\ pc = "end" =>
         (call.new \in Ids(saved) => unsaved)

ListInv == PlacesOK /\ DeadEmpty /\ IdsOK /\ PairOK /\ Synced /\ GoneOK

(***************************************************************************)
(* What the commands do to the list.                                       *)
(***************************************************************************)

\* Nothing, to the list, to the file and to the life of the supplicant.
ListKept == UNCHANGED conf /\ (alive' <=> alive)

\* The list goes to the file, or the file stays behind.
Stored == saved' = net' \/ (saved' = saved /\ unsaved')

\* The list loses or switches entries.
Trimmed == alive /\ alive' /\ Within(net', net)

\* An attempt fails and its entry goes; only connect_ap and connect_ap_key_mgmt
\* may leave the file behind.
Undone ==
  /\ pc' = Finished /\ call' = [call EXCEPT !.ret = -1]
  /\ UNCHANGED <<orphan, crashed>>
  /\ \/ /\ Trimmed /\ Within(net', Without(net, call.new))
        /\ Within(Without(net, call.new), net')
        /\ Stored \/ (call.op # "add_network" /\ saved' = saved)
     \/ ~alive /\ ListKept

\* That is what SAVE_CONFIG does.
LEMMA SaveStores ==
  /\ SaveConfig => Stored
  /\ Saved => Stored /\ saved' = net'
BY DEF SaveConfig, Saved, Stored

\* The commands do not end the supplicant.
LEMMA LeaveAlive ==
  /\ \A w, c : w # "dead" /\ Leave(w, c) => alive'
  /\ \A gone : alive /\ Drop(gone) => alive'
BY DEF Leave, Drop, alive, link

\* A removal takes one entry out of list and file, or nothing if the supplicant is gone.
LEMMA RemoveCuts ==
  ASSUME NEW i, RemoveAndSave(i) \/ CancelSavedConf(i)
  PROVE  \/ /\ Trimmed /\ net' = Without(net, i) /\ Stored
         \/ ~alive /\ ListKept
<1>1. CASE alive
  <2>1. net' = Without(net, i) /\ Stored /\ alive'
    BY <1>1, LeaveAlive, SaveStores DEF RemoveAndSave, CancelSavedConf
  <2> QED
    BY <1>1, <2>1, WithinItself DEF Trimmed
<1>2. CASE ~alive
  BY <1>2 DEF RemoveAndSave, CancelSavedConf, ListKept, link, alive
<1> QED
  BY <1>1, <1>2

\* SELECT_NETWORK only switches.
LEMMA SelectSwitches ==
  ASSUME TypeOK, NEW i, SelectNetwork(i), alive
  PROVE  Trimmed /\ Within(net, net')
<1>1. net \in SUBSET Network
  BY DEF TypeOK
<1>2. Within(net', net) /\ Within(net, net')
  BY <1>1, SwitchOne, ZenonT(60) DEF SelectNetwork
<1>3. alive'
  BY DEF SelectNetwork, Leave, alive, link
<1> QED
  BY <1>2, <1>3 DEF Trimmed

\* ENABLE_NETWORK only switches, and the file follows.
LEMMA EnableSwitches ==
  ASSUME TypeOK, EnableNetworks, UNCHANGED wpa
  PROVE  \/ Trimmed /\ Within(net, net') /\ Stored
         \/ ~alive /\ ListKept
<1>1. net \in SUBSET Network
  BY DEF TypeOK
<1>2. CASE alive
  <2>1. net' = {[n EXCEPT !.on = TRUE] : n \in net} /\ Stored
    BY <1>2, SaveStores DEF EnableNetworks
  <2>2. Within(net', net) /\ Within(net, net')
    BY <1>1, <2>1, SwitchAll
  <2> QED
    BY <1>2, <2>1, <2>2 DEF Trimmed, alive
<1>3. CASE ~alive
  BY <1>3 DEF EnableNetworks, ListKept, alive
<1> QED
  BY <1>2, <1>3

\* What each step of a call does to the list.
LEMMA ConfigureDoes ==
  ASSUME TypeOK, ListInv, Configure
  PROVE  /\ Adding
         /\ \/ /\ pc' = "select" /\ UNCHANGED <<call, orphan, crashed>>
               /\ ListKept
            \/ Undone
<1>1. Adding
  BY DEF Configure, At, ListInv, PlacesOK, Adding
<1>2. CASE /\ alive /\ Goto("select")
           /\ UNCHANGED <<state, event, call, conf, link>>
  BY <1>2, <1>1 DEF Configure, Goto, NoEvt, hist, ListKept, link, alive
<1>3. CASE \E e : /\ RemoveAndSave(call.new) \/ CancelSavedConf(call.new)
                  /\ Fail(e, Finished)
  <2>1. \/ Trimmed /\ net' = Without(net, call.new) /\ Stored
        \/ ~alive /\ ListKept
    BY <1>3, RemoveCuts
  <2> QED
    BY <1>1, <1>3, <2>1, WithinItself DEF Undone, Fail, Goto, Configure, NoEvt, hist
<1>4. CASE /\ call.mgmt = "WPA_PSK" /\ call.op # "add_network"
           /\ net' = Without(net, call.new) /\ UNCHANGED <<saved, unsaved, link>>
           /\ Fail("CMD_OR_PARAMS_ERROR", Finished)
  <2>1. CASE alive
    BY <1>1, <1>4, <2>1, WithinItself
    DEF Undone, Trimmed, Fail, Goto, Configure, NoEvt, hist, alive, link
  <2>2. CASE ~alive
    <3>1. ListKept
      BY <1>4, <2>2 DEF ListInv, DeadEmpty, Without, ListKept, conf, link, alive
    <3> QED
      BY <1>1, <1>4, <2>2, <3>1 DEF Undone, Fail, Goto, Configure, NoEvt, hist
  <2> QED
    BY <2>1, <2>2
<1> QED
  BY <1>1, <1>2, <1>3, <1>4 DEF Configure

\* SELECT_NETWORK of the new entry, or the ways it fails.
LEMMA SelectNewDoes ==
  ASSUME TypeOK, ListInv, SelectNew
  PROVE  /\ Adding
         /\ \/ /\ pc' = "wait" /\ UNCHANGED <<call, orphan, crashed>>
               /\ Trimmed /\ Within(net, net')
               /\ IF call.op = "add_network" THEN Saved ELSE UNCHANGED <<saved, unsaved>>
            \/ Undone
<1>1. Adding
  BY DEF SelectNew, At, Adding
<1>2. CASE /\ alive /\ SelectNetwork(call.new)
           /\ IF call.op = "add_network" THEN Saved ELSE UNCHANGED <<saved, unsaved>>
           /\ Goto("wait") /\ UNCHANGED <<state, event, call>>
  BY <1>1, <1>2, SelectSwitches DEF SelectNew, Goto, NoEvt, hist
<1>3. CASE RemoveAndSave(call.new) /\ Fail("CMD_OR_PARAMS_ERROR", Finished)
  <2>1. \/ Trimmed /\ net' = Without(net, call.new) /\ Stored
        \/ ~alive /\ ListKept
    BY <1>3, RemoveCuts
  <2> QED
    BY <1>1, <1>3, <2>1, WithinItself DEF Undone, Fail, Goto, SelectNew, NoEvt, hist
<1>4. CASE /\ call.op = "add_network" /\ alive
           /\ net' = {[n EXCEPT !.on = FALSE] : n \in Without(net, call.new)}
           /\ SaveConfig
           /\ Leave("scan", NoId)
           /\ Fail("CMD_OR_PARAMS_ERROR", Finished)
  <2>1. Without(net, call.new) \in SUBSET Network
    BY DEF TypeOK, Without
  <2>2. Within(net', Without(net, call.new)) /\ Within(Without(net, call.new), net')
    BY <1>4, <2>1, SwitchAll
  <2>3. Within(net', net)
    BY <2>2, WithinItself, WithinWithin
  <2> QED
    BY <1>1, <1>4, <2>2, <2>3, LeaveAlive, SaveStores
    DEF Undone, Trimmed, Fail, Goto, SelectNew, NoEvt, hist
<1> QED
  BY <1>1, <1>2, <1>3, <1>4 DEF SelectNew

\* The old entry goes with the report that the new one is connected.
LEMMA WaitDoes ==
  ASSUME TypeOK, WaitConnected \/ WaitFailed \/ WaitTimeout \/ WaitError
  PROVE  /\ pc = "wait" /\ pc' = Finished /\ crashed' = crashed
         /\ \/ /\ Adding /\ Trimmed /\ net' = Without(net, call.old)
               /\ Stored /\ state' = "CONNECTED" /\ orphan' = orphan
               /\ call' = [call EXCEPT !.ret = 0]
            \/ Adding /\ Undone
            \/ /\ ListKept
               /\ \/ /\ ~AddsNetwork \/ ~alive
                     /\ call' = [call EXCEPT !.ret = 0]
                  \/ ~AddsNetwork /\ call' = [call EXCEPT !.ret = -1]
                  \/ orphan' /\ AddsNetwork /\ call' = [call EXCEPT !.ret = -1]
               /\ orphan' \/ orphan' = orphan
<1>1. CASE WaitConnected
  <2>1. CASE AddsNetwork /\ alive
    <3>1. alive' /\ net' = Without(net, call.old)
      BY <1>1, <2>1, LeaveAlive DEF WaitConnected
    <3>2. Trimmed
      BY <2>1, <3>1, WithinItself DEF Trimmed
    <3> QED
      BY <1>1, <2>1, <3>1, <3>2, SaveStores DEF WaitConnected, At, Goto, Adding
  <2>2. CASE ~(AddsNetwork /\ alive)
    BY <1>1, <2>2 DEF WaitConnected, At, Goto, NoLink, link, ListKept, alive
  <2> QED
    BY <2>1, <2>2
<1>2. ASSUME NEW e, WaitGivesUp(e), pc = "wait"
      PROVE  /\ pc' = Finished /\ UNCHANGED <<orphan, crashed>>
             /\ \/ Adding /\ Undone
                \/ ListKept /\ ~AddsNetwork /\ call' = [call EXCEPT !.ret = -1]
  <2>1. CASE AddsNetwork
    <3>1. \/ Trimmed /\ net' = Without(net, call.new) /\ Stored
          \/ ~alive /\ ListKept
      BY <1>2, <2>1, RemoveCuts DEF WaitGivesUp
    <3> QED
      BY <1>2, <2>1, <3>1, WithinItself
      DEF Adding, Undone, Fail, Goto, WaitGivesUp, hist
  <2>2. CASE ~AddsNetwork
    BY <1>2, <2>2 DEF WaitGivesUp, Fail, Goto, NoLink, link, hist, ListKept, alive
  <2> QED
    BY <2>1, <2>2
<1>3. CASE WaitFailed
  BY <1>2, <1>3 DEF WaitFailed, At
<1>4. CASE WaitTimeout
  BY <1>2, <1>4 DEF WaitTimeout, At
<1>5. CASE WaitError
  <2>1. orphan' = (orphan \/ AddsNetwork) /\ orphan \in BOOLEAN
    BY <1>5 DEF WaitError, Abandon, TypeOK
  <2>2. CASE AddsNetwork
    <3>1. orphan'
      BY <2>1, <2>2, Zenon
    <3> QED
      BY <1>5, <2>2, <3>1 DEF WaitError, Abandon, At, Goto, link, ListKept, alive
  <2>3. CASE ~AddsNetwork
    <3>1. orphan' = orphan
      BY <2>1, <2>3
    <3> QED
      BY <1>5, <2>3, <3>1 DEF WaitError, Abandon, At, Goto, link, ListKept, alive
  <2> QED
    BY <2>2, <2>3
<1> QED
  BY <1>1, <1>3, <1>4, <1>5

\* wps_pbc and the ends of the calls.
LEMMA EndsDo ==
  ASSUME TypeOK, EnableAll \/ EnableAfterWps \/ RemoveMaxNetid
  PROVE  /\ UNCHANGED <<orphan, crashed>>
         /\ \/ Trimmed /\ Stored
            \/ (~alive \/ pc = "remove") /\ ListKept
<1>1. CASE EnableAll
  BY <1>1, EnableSwitches DEF EnableAll, hist, link
<1>2. CASE EnableAfterWps
  BY <1>2, EnableSwitches DEF EnableAfterWps, hist, link
<1>3. CASE RemoveMaxNetid
  <2>1. CASE state # "NETWORK_CONNECTED" /\ alive
    <3>1. net' = net \ Largest(net) /\ Stored /\ alive'
      BY <1>3, <2>1, LeaveAlive, SaveStores DEF RemoveMaxNetid
    <3>2. net' \in SUBSET net
      BY <3>1
    <3> QED
      BY <1>3, <2>1, <3>1, <3>2, WithinItself DEF RemoveMaxNetid, hist, Trimmed
  <2>2. CASE ~(state # "NETWORK_CONNECTED" /\ alive)
    BY <1>3, <2>2 DEF RemoveMaxNetid, NoLink, link, hist, ListKept, alive, At
  <2> QED
    BY <2>1, <2>2
<1> QED
  BY <1>1, <1>2, <1>3

(***************************************************************************)
(* The steps of the calls keep ListInv.                                    *)
(***************************************************************************)

\* No entry has the identifier that stands for none.
LEMMA NoIdNowhere ==
  ASSUME TypeOK
  PROVE  NoId \notin Ids(net) /\ NoId \notin Ids(saved)
BY ConstantsAssumption DEF TypeOK, Ids, Network

\* The record of no call.
LEMMA NoCallFields == NoCall.op = "none" /\ NoCall.new = NoId
BY DEF NoCall

\* Where an attempt ends, by the call it is of.
LEMMA FinishedAt ==
  /\ Finished \in {"after", "enable", "end"}
  /\ Finished = "after" => call.op = "connect_ap"
  /\ AddsNetwork =>
       /\ Finished = "end" => call.op = "add_network"
       /\ Finished # "end" => call.op \in {"connect_ap", "connect_ap_key_mgmt"}
BY DEF Finished, AddsNetwork

\* A trimmed list has what the list had.
LEMMA TrimmedIds ==
  ASSUME IdsOK, Trimmed, Stored \/ saved' = saved
  PROVE  DeadEmpty' /\ IdsOK'
BY PartOf DEF IdsOK, Trimmed, DeadEmpty, Stored

\* A list left alone keeps its identifiers.
LEMMA KeptIds ==
  ASSUME ListInv, ListKept
  PROVE  DeadEmpty' /\ IdsOK'
BY DEF ListInv, IdsOK, ListKept, DeadEmpty, conf

\* An attempt that fails and takes its entry back.
LEMMA UndoneKeeps ==
  ASSUME TypeOK, ListInv, Adding, Undone
  PROVE  ListInv'
<1>1. /\ call' \in CallType /\ call'.ret = -1 /\ pc' = Finished
      /\ call'.op = call.op /\ call'.new = call.new
      /\ AddsNetwork /\ (AddsNetwork')
  BY CallEdits DEF TypeOK, CallType, Undone, Adding, AddsNetwork
<1>2. PlacesOK' /\ ~Adding'
  BY <1>1, FinishedAt DEF PlacesOK, Adding
<1>3. CASE /\ Trimmed /\ Within(net', Without(net, call.new))
           /\ Stored \/ (call.op # "add_network" /\ saved' = saved)
  <2>1. DeadEmpty' /\ IdsOK'
    BY <1>3, TrimmedIds DEF ListInv
  <2>2. Synced'
    <3>1. CASE Stored
      BY <3>1 DEF Synced, Stored
    <3>2. CASE call.op # "add_network"
      BY <3>2, <1>1, FinishedAt DEF Synced, Behind, AddsNetwork
    <3> QED
      BY <1>3, <3>1, <3>2
  <2>3. call.new \notin Ids(net')
    <3>1. call.new \notin Ids(Without(net, call.new))
      BY WithinItself
    <3> QED
      BY <1>3, <3>1 DEF Within, Same, Ids
  <2>4. pc' = "end" => Stored
    BY <1>1, <1>3, FinishedAt
  <2>5. GoneOK'
    <3>1. alive' /\ call'.new \notin Ids(net')
      BY <1>1, <1>3, <2>3 DEF Trimmed
    <3>2. pc' = "end" => (call'.new \in Ids(saved') => unsaved')
      BY <2>4, <3>1 DEF Stored
    <3> QED
      BY <3>1, <3>2 DEF GoneOK
  <2> QED
    BY <1>2, <2>1, <2>2, <2>5 DEF ListInv, PairOK
<1>4. CASE ~alive /\ ListKept
  <2>1. DeadEmpty' /\ IdsOK'
    BY <1>4, KeptIds
  <2>2. Synced'
    BY <1>4 DEF Synced, ListKept
  <2>3. GoneOK'
    BY <1>1, <1>4, NoIdNowhere
    DEF ListInv, GoneOK, ListKept, conf, Ids, Undone
  <2> QED
    BY <1>2, <2>1, <2>2, <2>3 DEF ListInv, PairOK
<1> QED
  BY <1>3, <1>4 DEF Undone

\* A step that leaves the list alone and is not between ADD_NETWORK and the end
\* of an attempt afterwards.
LEMMA KeptKeeps ==
  ASSUME ListInv, ListKept, PlacesOK', ~Adding', GoneOK',
         alive => (Behind => Behind')
  PROVE  ListInv'
<1>1. Synced'
  BY DEF ListInv, Synced, ListKept, conf
<1> QED
  BY <1>1, KeptIds DEF ListInv, PairOK

\* When GoneOK survives a step that leaves the list alone.
LEMMA KeptGone ==
  ASSUME TypeOK, ListInv, ListKept, ~orphan' /\ ~crashed' => ~orphan /\ ~crashed,
         \/ call'.new = NoId
         \/ /\ call'.new = call.new /\ ~(AddsNetwork /\ pc' = "end")
            /\ \/ ~(AddsNetwork')
               \/ ~Adding /\ AddsNetwork /\ (call'.ret < 0 => call.ret < 0)
         \/ ~alive /\ call'.new = call.new
  PROVE  GoneOK'
<1>1. CASE call'.new = NoId
  BY <1>1, NoIdNowhere DEF GoneOK, ListKept, conf, Ids
<1>2. CASE ~alive /\ call'.new = call.new
  BY <1>2, NoIdNowhere DEF ListInv, GoneOK, ListKept, conf, Ids
<1>3. CASE /\ call'.new = call.new /\ ~(AddsNetwork /\ pc' = "end")
           /\ \/ ~(AddsNetwork')
              \/ ~Adding /\ AddsNetwork /\ (call'.ret < 0 => call.ret < 0)
  BY <1>3 DEF ListInv, GoneOK, ListKept, conf, Ids
<1> QED
  BY <1>1, <1>2, <1>3

\* An attempt that ends with nothing undone is remembered in orphan.
LEMMA Abandoned ==
  ASSUME TypeOK, Abandon
  PROVE  /\ ~orphan' => ~orphan /\ ~AddsNetwork
         /\ call' = [call EXCEPT !.ret = -1]
<1>1. orphan' = (orphan \/ AddsNetwork)
  BY DEF Abandon
<1>2. orphan \/ AddsNetwork => orphan'
  BY <1>1, Zenon
<1> QED
  BY <1>2 DEF Abandon

\* ADD_NETWORK makes an entry of a free identifier, or the attempt fails with
\* nothing done.
LEMMA CreateKeeps ==
  ASSUME TypeOK, ListInv, CreateNetwork
  PROVE  ListInv'
<1>1. /\ pc = "add" /\ AddsNetwork /\ call.new = NoId /\ call \in CallType
      /\ UNCHANGED <<orphan, crashed>>
  BY DEF CreateNetwork, At, ListInv, PlacesOK, TypeOK, NoEvt, hist
<1>2. CASE Fail("CMD_OR_PARAMS_ERROR", Finished) /\ UNCHANGED net
  <2>1. /\ ListKept /\ pc' = Finished /\ call'.new = NoId /\ call'.op = call.op
        /\ (AddsNetwork' <=> AddsNetwork)
    BY <1>1, <1>2 DEF CreateNetwork, ListKept, conf, link, alive, Fail, Goto,
       CallType, AddsNetwork
  <2>2. PlacesOK' /\ ~Adding' /\ (Behind => Behind')
    BY <1>1, <2>1, FinishedAt DEF PlacesOK, Adding, Behind, AddsNetwork
  <2>3. GoneOK'
    BY <1>1, <2>1, KeptGone
  <2> QED
    BY <2>1, <2>2, <2>3, KeptKeeps
<1>3. ASSUME NEW i \in NetIds \ Ids(net), alive,
             net' = net \cup {[id |-> i, ssid |-> call.ssid,
                               key |-> KeyType(call.mgmt), on |-> FALSE]},
             \/ /\ Twins = {} /\ call' = [call EXCEPT !.new = i, !.old = NoId]
             \/ \E n \in Twins : call' = [call EXCEPT !.new = i, !.old = n.id],
             Goto("configure")
      PROVE  ListInv'
  <2> DEFINE Fresh(n) == n.id = i /\ n.ssid = call.ssid /\ n.key = KeyType(call.mgmt)
  <2>0. \A n \in net' : n \in net \/ Fresh(n)
    <3> SUFFICES ASSUME NEW n \in net', n \notin net
                 PROVE  Fresh(n)
      OBVIOUS
    <3>1. n \in net \cup {[id |-> i, ssid |-> call.ssid,
                           key |-> KeyType(call.mgmt), on |-> FALSE]}
      BY <1>3
    <3>2. n = [id |-> i, ssid |-> call.ssid, key |-> KeyType(call.mgmt), on |-> FALSE]
      BY <3>1
    <3> QED
      BY <3>2
  <2>1. /\ call'.op = call.op /\ call'.ssid = call.ssid /\ call'.mgmt = call.mgmt
        /\ call'.new = i
        /\ call'.old # NoId => \E n \in Twins : call'.old = n.id
    BY <1>1, <1>3 DEF CallType
  <2>2. pc' = "configure" /\ alive' /\ saved' = saved /\ Adding'
    BY <1>1, <1>3, <2>1 DEF CreateNetwork, Goto, link, alive, Adding, AddsNetwork
  <2>3. PlacesOK' /\ Synced' /\ GoneOK' /\ DeadEmpty'
    BY <1>1, <2>1, <2>2 DEF PlacesOK, Synced, Behind, GoneOK, DeadEmpty, Adding,
       AddsNetwork, Attempt
  <2>4. IdsOK'
    <3>1. \A n \in net : n.id # i
      BY <1>3 DEF Ids
    <3>2. OneEach(net')
      BY <2>0, <3>1 DEF ListInv, IdsOK, OneEach, Same
    <3> QED
      BY <3>2, <2>2 DEF ListInv, IdsOK
  <2>5. PairOK'
    <3> SUFFICES ASSUME NEW n \in net', n.id \in {call'.old, call'.new}
                 PROVE  n.ssid = call.ssid /\ n.key = KeyType(call.mgmt)
      BY <2>1 DEF PairOK, Named
    <3>1. CASE n \in net
      <4>1. n.id # i /\ n.id \in NetIds
        BY <3>1, <1>3 DEF Ids, TypeOK, Network
      <4>2. PICK t \in Twins : t.id = n.id
        BY <4>1, <2>1, ConstantsAssumption
      <4> QED
        BY <3>1, <4>2 DEF Twins, ListInv, IdsOK, OneEach, Same
    <3>2. CASE n \notin net
      BY <3>2, <2>0
    <3> QED
      BY <3>1, <3>2
  <2> QED
    BY <2>3, <2>4, <2>5 DEF ListInv
<1> QED
  BY <1>2, <1>3 DEF CreateNetwork

\* So does the supplicant for the push button.
LEMMA PushKeeps ==
  ASSUME TypeOK, ListInv, PushButton
  PROVE  ListInv'
<1>1. /\ pc = "pbc" /\ ~AddsNetwork /\ call \in CallType /\ crashed' = crashed
  BY DEF PushButton, At, ListInv, PlacesOK, TypeOK
<1>2. CASE Abandon /\ Goto("end") /\ UNCHANGED <<conf, link>>
  <2>1. /\ ListKept /\ pc' = "end" /\ ~(AddsNetwork') /\ call'.new = call.new
        /\ ~Behind /\ (~orphan' => ~orphan)
    BY <1>1, <1>2, Abandoned DEF ListKept, conf, link, alive, Goto, CallType,
       AddsNetwork, Behind
  <2>2. PlacesOK' /\ ~Adding'
    BY <2>1 DEF PlacesOK, Adding
  <2>3. GoneOK'
    BY <1>1, <2>1, KeptGone
  <2> QED
    BY <2>1, <2>2, <2>3, KeptKeeps
<1>3. ASSUME NEW i \in NetIds \ Ids(net), NEW s \in Ssids, alive,
             net' = {[n EXCEPT !.on = FALSE] : n \in net} \cup
                    {[id |-> i, ssid |-> s, key |-> "WPA-PSK", on |-> TRUE]},
             Stored, Leave("assoc", i),
             \/ Goto("wait") /\ UNCHANGED <<call, orphan, stuck>>
             \/ Abandon /\ Goto("end")
      PROVE  ListInv'
  <2> DEFINE Fresh(n) == n.id = i /\ n.ssid = s /\ n.key = "WPA-PSK"
  <2>1. \A n \in net' : (\E m \in net : Same(n, m)) \/ Fresh(n)
    <3>1. net \in SUBSET Network
      BY DEF TypeOK
    <3>2. Within({[n EXCEPT !.on = FALSE] : n \in net}, net)
      BY <3>1, SwitchAll
    <3> SUFFICES ASSUME NEW n \in net', n \notin {[m EXCEPT !.on = FALSE] : m \in net}
                 PROVE  Fresh(n)
      BY <3>2 DEF Within
    <3>3. n = [id |-> i, ssid |-> s, key |-> "WPA-PSK", on |-> TRUE]
      BY <1>3
    <3> QED
      BY <3>3
  <2>2. OneEach(net')
    <3>1. \A n \in net : n.id # i
      BY <1>3 DEF Ids
    <3> QED
      BY <2>1, <3>1 DEF ListInv, IdsOK, OneEach, Same
  <2>3. alive' /\ pc' \in {"wait", "end"} /\ ~(AddsNetwork')
    BY <1>1, <1>3, Abandoned DEF Leave, alive, Goto, AddsNetwork, CallType
  <2>4. PlacesOK' /\ DeadEmpty' /\ PairOK' /\ GoneOK'
    BY <2>3 DEF PlacesOK, DeadEmpty, PairOK, Adding, GoneOK
  <2>5. IdsOK' /\ Synced'
    BY <1>3, <2>2 DEF ListInv, IdsOK, Synced, Stored
  <2> QED
    BY <2>4, <2>5 DEF ListInv
<1> QED
  BY <1>2, <1>3, SaveStores DEF PushButton, Stored

\* Steps that touch neither the list nor the supplicant.
LEMMA QuietKeeps ==
  ASSUME TypeOK, ListInv,
         ReadStatus \/ Begin \/ ClearEvtSocket \/ After \/ Scan \/ End \/ Poll
  PROVE  ListInv'
<1>1. ListKept /\ UNCHANGED <<orphan, crashed>> /\ call \in CallType
  BY DEF ReadStatus, Begin, ClearEvtSocket, After, Scan, End, Poll, NoLink, NoEvt,
     link, conf, hist, ListKept, alive, TypeOK
<1>2. SUFFICES PlacesOK' /\ ~Adding' /\ GoneOK' /\ (Behind => Behind')
  BY <1>1, KeptKeeps
<1>3. CASE ReadStatus
  <2>1. pc = "status" /\ pc' = "idle" /\ call' = call /\ call.new = NoId
    BY <1>3 DEF ReadStatus, At, Goto, ListInv, PlacesOK
  <2> QED
    BY <1>1, <2>1, KeptGone DEF PlacesOK, Adding, Behind, Attempt
<1>4. CASE Begin
  <2>1. /\ pc = "begin" /\ call'.new = NoId /\ call'.op = call.op
        /\ pc' = IF call.op = "connect_ap_auto" THEN "reconnect" ELSE "clear"
    BY <1>1, <1>4 DEF Begin, At, Goto, CallType
  <2> QED
    BY <1>1, <2>1, KeptGone DEF PlacesOK, Adding, AddsNetwork, Behind, Attempt
<1>5. CASE ClearEvtSocket
  <2>1. /\ pc = "clear" /\ call.new = NoId /\ call'.new = NoId /\ call'.op = call.op
        /\ pc' \in {"add", "select", "pbc"}
        /\ pc' = "add" <=> AddsNetwork
    BY <1>1, <1>5 DEF ClearEvtSocket, At, Goto, ListInv, PlacesOK, CallType, AddsNetwork
  <2> QED
    BY <1>1, <2>1, KeptGone DEF PlacesOK, Adding, AddsNetwork, Behind, Attempt
<1>6. CASE After
  <2>1. /\ pc = "after" /\ call.op = "connect_ap" /\ call'.op = call.op
        /\ call'.new = call.new /\ call'.ret = call.ret /\ call.ret \in {0, -1}
        /\ pc' \in {"enable", "scan", "begin"}
        /\ pc' = "scan" => ~(call.ret >= 0)
    BY <1>1, <1>6 DEF After, NextAttempt, At, Goto, ListInv, PlacesOK, CallType
  <2> QED
    BY <1>1, <2>1, KeptGone DEF PlacesOK, Adding, AddsNetwork, Behind, Attempt
<1>7. CASE Scan
  <2>1. /\ pc = "scan" /\ call.op = "connect_ap" /\ call'.op = call.op
        /\ call'.new = call.new /\ call.ret < 0
        /\ pc' \in {"enable", "begin"}
    BY <1>1, <1>7 DEF Scan, Fail, At, Goto, ListInv, PlacesOK, CallType
  <2> QED
    BY <1>1, <2>1, KeptGone DEF PlacesOK, Adding, AddsNetwork, Behind, Attempt
<1>8. CASE End
  <2>1. /\ pc = "end"
        /\ \/ pc' = "remove" /\ call' = call /\ call.op = "wps_pbc"
           \/ pc' = "idle" /\ call'.new = NoId
    BY <1>8, NoCallFields DEF End, At, Goto, Return
  <2>2. CASE pc' = "remove" /\ call' = call /\ call.op = "wps_pbc"
    <3>1. ~AddsNetwork /\ ~(AddsNetwork') /\ call'.new = call.new
      BY <2>2 DEF AddsNetwork
    <3> QED
      BY <1>1, <2>1, <2>2, <3>1, KeptGone DEF PlacesOK, Adding, Behind, Attempt
  <2>3. CASE pc' = "idle" /\ call'.new = NoId
    <3>1. PlacesOK' /\ ~Adding' /\ ~Behind
      BY <2>1, <2>3 DEF PlacesOK, Adding, Behind, Attempt
    <3> QED
      BY <1>1, <2>3, <3>1, KeptGone
  <2> QED
    BY <2>1, <2>2, <2>3
<1>9. CASE Poll
  <2>1. /\ pc = "poll"
        /\ \/ pc' = "begin" /\ call' = call /\ call.op = "connect_ap_with_netid"
           \/ pc' = "idle" /\ call'.new = NoId
    BY <1>9, NoCallFields DEF Poll, At, Goto, Return
  <2>2. CASE pc' = "begin" /\ call' = call /\ call.op = "connect_ap_with_netid"
    <3>1. ~AddsNetwork /\ ~(AddsNetwork') /\ call'.new = call.new
      BY <2>2 DEF AddsNetwork
    <3> QED
      BY <1>1, <2>1, <2>2, <3>1, KeptGone DEF PlacesOK, Adding, Behind, Attempt
  <2>3. CASE pc' = "idle" /\ call'.new = NoId
    <3>1. PlacesOK' /\ ~Adding' /\ ~Behind
      BY <2>1, <2>3 DEF PlacesOK, Adding, Behind, Attempt
    <3> QED
      BY <1>1, <2>3, <3>1, KeptGone
  <2> QED
    BY <2>1, <2>2, <2>3
<1> QED
  BY <1>3, <1>4, <1>5, <1>6, <1>7, <1>8, <1>9

\* Steps of the attempts of the calls that add no network.
LEMMA PlainKeeps ==
  ASSUME TypeOK, ListInv, SelectExisting \/ Reconnect
  PROVE  ListInv'
<1>1. pc \in {"select", "reconnect"} /\ ~AddsNetwork /\ call \in CallType
  BY DEF SelectExisting, Reconnect, At, ListInv, PlacesOK, AddsNetwork, TypeOK
<1>2. ASSUME ListKept, crashed' = crashed, pc' \in {"end", "wait"},
             \/ Abandon
             \/ UNCHANGED <<call, orphan>>
      PROVE  ListInv'
  <2>1. /\ ~(AddsNetwork') /\ call'.new = call.new /\ (~orphan' => ~orphan)
        /\ ~Behind
    BY <1>1, <1>2, Abandoned DEF CallType, AddsNetwork, Behind
  <2>2. PlacesOK' /\ ~Adding'
    BY <1>2, <2>1 DEF PlacesOK, Adding
  <2>3. GoneOK'
    BY <1>1, <1>2, <2>1, KeptGone
  <2> QED
    BY <1>2, <2>1, <2>2, <2>3, KeptKeeps
<1>3. CASE Reconnect
  <2>1. ListKept /\ crashed' = crashed
    BY <1>3 DEF Reconnect, ListKept, conf, link, Leave, alive
  <2>2. pc' \in {"end", "wait"}
    BY <1>3 DEF Reconnect, Goto
  <2>3. Abandon \/ UNCHANGED <<call, orphan>>
    BY <1>3 DEF Reconnect
  <2> QED
    BY <1>2, <2>1, <2>2, <2>3
<1>4. CASE SelectExisting /\ call.old \notin Ids(net)
  <2>1. ListKept /\ crashed' = crashed /\ pc' \in {"end", "wait"} /\ Abandon
    BY <1>4 DEF SelectExisting, Goto, ListKept, conf, link, alive
  <2> QED
    BY <1>2, <2>1
<1>5. CASE SelectExisting /\ call.old \in Ids(net)
  <2>1. /\ alive /\ SelectNetwork(call.old) /\ pc' = "wait"
        /\ UNCHANGED <<call, orphan, crashed, saved, unsaved>>
    BY <1>5 DEF SelectExisting, Goto, ListInv, DeadEmpty, Ids
  <2>2. Trimmed /\ Within(net, net')
    BY <2>1, SelectSwitches
  <2>3. Entries(net') = Entries(net)
    BY <2>2, SameEntries DEF Trimmed
  <2>4. ~(AddsNetwork') /\ ~Behind /\ alive'
    BY <1>1, <2>1, <2>2 DEF AddsNetwork, Behind, Trimmed
  <2>5. PlacesOK' /\ PairOK' /\ GoneOK'
    BY <2>1, <2>4 DEF PlacesOK, PairOK, Adding, GoneOK
  <2>6. Synced'
    BY <2>1, <2>3, <2>4 DEF ListInv, Synced
  <2> QED
    BY <2>1, <2>2, <2>5, <2>6, TrimmedIds DEF ListInv
<1> QED
  BY <1>3, <1>4, <1>5

\* The SET_NETWORK commands.
LEMMA ConfigureKeeps ==
  ASSUME TypeOK, ListInv, Configure
  PROVE  ListInv'
<1>1. CASE pc' = "select" /\ UNCHANGED <<call, orphan, crashed>> /\ ListKept
  <2>1. Adding
    BY ConfigureDoes
  <2>2. PlacesOK' /\ PairOK' /\ GoneOK'
    BY <1>1, <2>1 DEF ListInv, PlacesOK, PairOK, Adding, AddsNetwork, GoneOK, Named,
       ListKept, conf
  <2>3. Synced'
    BY <1>1, <2>1 DEF Synced, Behind, Adding, AddsNetwork, Attempt
  <2> QED
    BY <1>1, <2>2, <2>3, KeptIds DEF ListInv
<1> QED
  BY <1>1, ConfigureDoes, UndoneKeeps

\* SELECT_NETWORK of the new entry.
LEMMA SelectNewKeeps ==
  ASSUME TypeOK, ListInv, SelectNew
  PROVE  ListInv'
<1>1. CASE /\ pc' = "wait" /\ UNCHANGED <<call, orphan, crashed>>
           /\ Trimmed /\ Within(net, net')
           /\ IF call.op = "add_network" THEN Saved ELSE UNCHANGED <<saved, unsaved>>
  <2>1. Adding /\ AddsNetwork /\ (AddsNetwork') /\ alive'
    BY <1>1, SelectNewDoes DEF Adding, AddsNetwork, Trimmed
  <2>2. PlacesOK' /\ GoneOK'
    BY <1>1, <2>1 DEF PlacesOK, GoneOK, Adding
  <2>3. PairOK'
    BY <1>1, <2>1 DEF ListInv, PairOK, Adding, Trimmed, Within, Same, Named
  <2>4. Synced'
    BY <1>1, <2>1 DEF Synced, Behind, AddsNetwork, Attempt, Saved
  <2> QED
    BY <1>1, <2>2, <2>3, <2>4, TrimmedIds, SaveStores DEF ListInv
<1> QED
  BY <1>1, SelectNewDoes, UndoneKeeps

\* The four ends of the wait.
LEMMA WaitKeeps ==
  ASSUME TypeOK, ListInv, WaitConnected \/ WaitFailed \/ WaitTimeout \/ WaitError
  PROVE  ListInv'
<1>1. pc = "wait" /\ pc' = Finished /\ crashed' = crashed /\ call \in CallType
  BY WaitDoes DEF TypeOK
<1>2. CASE /\ Adding /\ Trimmed /\ net' = Without(net, call.old)
           /\ Stored /\ call' = [call EXCEPT !.ret = 0]
  <2>1. call'.ret = 0 /\ call'.op = call.op /\ alive'
    BY <1>1, <1>2 DEF CallType, Trimmed
  <2>2. PlacesOK' /\ ~Adding' /\ GoneOK'
    BY <1>1, <2>1, <1>2, FinishedAt DEF PlacesOK, Adding, GoneOK, AddsNetwork
  <2>3. Synced'
    BY <1>2 DEF Synced, Stored
  <2> QED
    BY <1>2, <2>2, <2>3, TrimmedIds DEF ListInv, PairOK
<1>3. CASE /\ ListKept
           /\ \/ /\ ~AddsNetwork \/ ~alive
                 /\ call' = [call EXCEPT !.ret = 0]
              \/ ~AddsNetwork /\ call' = [call EXCEPT !.ret = -1]
              \/ orphan' /\ AddsNetwork /\ call' = [call EXCEPT !.ret = -1]
           /\ orphan' \/ orphan' = orphan
  <2>1. call'.op = call.op /\ call'.new = call.new /\ (AddsNetwork' <=> AddsNetwork)
    BY <1>1, <1>3 DEF CallType, AddsNetwork
  <2>2. PlacesOK' /\ ~Adding'
    BY <1>1, <2>1, FinishedAt DEF PlacesOK, Adding, AddsNetwork
  <2>3. alive => (Behind => Behind')
    BY <1>1, <2>1, FinishedAt DEF Behind, AddsNetwork
  <2>4. GoneOK'
    <3>1. CASE orphan'
      BY <3>1 DEF GoneOK
    <3>2. CASE ~orphan'
      BY <1>1, <1>3, <2>1, <3>2, KeptGone
    <3> QED
      BY <3>1, <3>2
  <2> QED
    BY <1>3, <2>2, <2>3, <2>4, KeptKeeps
<1> QED
  BY <1>2, <1>3, WaitDoes, UndoneKeeps

\* The ends of the calls.
LEMMA EndsKeep ==
  ASSUME TypeOK, ListInv, EnableAll \/ EnableAfterWps \/ RemoveMaxNetid
  PROVE  ListInv'
<1>1. /\ UNCHANGED <<orphan, crashed>>
      /\ \/ /\ pc = "enable" /\ pc' = "end" /\ call' = call
         \/ /\ pc = "reenable" /\ pc' = "idle" /\ ~AddsNetwork /\ call' = NoCall
         \/ /\ pc = "remove" /\ pc' = "reenable" /\ ~AddsNetwork /\ call' = call
            /\ call.op = "wps_pbc"
  BY EndsDo DEF EnableAll, EnableAfterWps, RemoveMaxNetid, At, Goto, Return, ListInv,
     PlacesOK, AddsNetwork
<1>2. PlacesOK' /\ ~Adding' /\ ~Adding
  BY <1>1, NoCallFields DEF ListInv, PlacesOK, Adding, AddsNetwork
<1>3. CASE Trimmed /\ Stored
  <2>1. alive' /\ Synced'
    BY <1>3 DEF Synced, Trimmed, Stored
  <2>2. call.new \notin Ids(net) => call.new \notin Ids(net')
    BY <1>3, PartOf DEF Trimmed
  <2>3. GoneOK'
    <3>1. CASE pc = "enable"
      BY <1>1, <1>2, <1>3, <2>1, <2>2, <3>1 DEF ListInv, GoneOK, AddsNetwork, Ids, Stored
    <3>2. CASE pc # "enable"
      BY <1>1, <2>1, <3>2, NoCallFields DEF GoneOK, AddsNetwork
    <3> QED
      BY <3>1, <3>2
  <2> QED
    BY <1>2, <1>3, <2>1, <2>3, TrimmedIds DEF ListInv, PairOK
<1>4. CASE (~alive \/ pc = "remove") /\ ListKept
  <2>1. alive => (Behind => Behind')
    BY <1>1, <1>4 DEF Behind, Attempt
  <2>2. GoneOK'
    <3>1. CASE pc = "enable" \/ pc = "remove"
      BY <1>1, <1>4, <3>1, KeptGone DEF AddsNetwork
    <3>2. CASE pc = "reenable"
      BY <1>1, <1>4, <3>2, KeptGone, NoCallFields
    <3> QED
      BY <1>1, <3>1, <3>2
  <2> QED
    BY <1>2, <1>4, <2>1, <2>2, KeptKeeps
<1> QED
  BY <1>3, <1>4, EndsDo

\* Every step of the API thread keeps ListInv.
LEMMA ApiStepList ==
  ASSUME TypeOK, ListInv, ApiStep
  PROVE  ListInv'
BY CreateKeeps, PushKeeps, QuietKeeps, PlainKeeps, ConfigureKeeps, SelectNewKeeps,
   WaitKeeps, EndsKeep DEF ApiStep

(***************************************************************************)
(* The other steps: the entry of a call, the callback, the event thread    *)
(* and the supplicant.                                                     *)
(***************************************************************************)

\* What they do to the list: nothing, a removal that is saved or not, or the loss
\* of the list with the supplicant and its return from the file.
Lost ==
  /\ alive /\ ~alive' /\ net' = {} /\ saved' = saved
  /\ (pc = "idle" /\ ~unsaved) \/ crashed'
Restored == ~alive /\ alive' /\ pc = "idle" /\ net' = saved /\ saved' = saved
ListMoves == ListKept \/ (Trimmed /\ Stored) \/ Lost \/ Restored

\* What they do to the call: it stays where it is, or one begins.
CallStays == UNCHANGED <<pc, call>>
CallBegins ==
  /\ pc = "idle" /\ pc' \in {"idle", "status", "begin", "enable", "end", "poll"}
  /\ call'.new = NoId
Outside ==
  /\ orphan' = orphan /\ (crashed => crashed')
  /\ \/ ListMoves /\ CallStays
     \/ (ListKept \/ (Trimmed /\ Stored)) /\ CallBegins

\* The program's choice of a call.
LEMMA ApplicationDoes ==
  ASSUME TypeOK, ListInv, Application
  PROVE  Outside
<1>1. call.new = NoId \/ pc # "idle"
  BY DEF ListInv, PlacesOK
<1>2. CASE TurnOn \/ TurnOff
  BY <1>1, <1>2 DEF TurnOn, TurnOff, At, Goto, Outside, ListMoves, ListKept, conf,
     link, hist, alive, CallStays, CallBegins
<1>3. CASE ConnectApAuto \/ WpsPbc
  <2>1. ListKept /\ UNCHANGED <<orphan, crashed>>
    BY <1>3 DEF ConnectApAuto, WpsPbc, RefuseBusy, NoLink, NoEvt, ListKept, link, conf,
       hist, alive
  <2>2. CallStays \/ CallBegins
    BY <1>3, NoCallType, NoCallFields DEF CallType, ConnectApAuto, WpsPbc, RefuseBusy, Entering, At, Goto,
       CallStays, CallBegins
  <2> QED
    BY <2>1, <2>2 DEF Outside, ListMoves
<1>4. CASE DisconnectAp
  BY <1>4, NoCallType, NoCallFields DEF CallType, DisconnectAp, Entering, At, Goto, Leave, NoEvt, Outside,
     ListMoves, ListKept, alive, hist, CallBegins
<1>5. CASE RemoveNetworks
  <2>1. PICK gone \in SUBSET net : net' = net \ gone /\ Stored /\ Drop(Ids(gone))
    BY <1>5, SaveStores DEF RemoveNetworks
  <2>2. alive /\ alive' /\ net' \in SUBSET net
    BY <1>5, <2>1, LeaveAlive DEF RemoveNetworks
  <2> QED
    BY <1>5, <2>1, <2>2, WithinItself DEF RemoveNetworks, NoEvt, hist, Outside,
       ListMoves, Trimmed, CallStays
<1>6. ASSUME NEW i \in NetIds, ConnectApWithNetid(i)
      PROVE  Outside
  <2>1. ListKept /\ UNCHANGED <<orphan, crashed>>
    BY <1>6 DEF ConnectApWithNetid, Leave, NoEvt, ListKept, link, conf, hist, alive
  <2>2. CallStays \/ CallBegins
    BY <1>6, NoCallType, NoCallFields DEF CallType, ConnectApWithNetid, RefuseBusy, Entering, At, Goto, CallStays,
       CallBegins
  <2> QED
    BY <2>1, <2>2 DEF Outside, ListMoves
<1>7. ASSUME NEW s \in Ssids, NEW p \in Passwords, ConnectAp(s, p)
      PROVE  Outside
  <2>1. ListKept /\ UNCHANGED <<orphan, crashed>>
    BY <1>7 DEF ConnectAp, RefuseBusy, NoLink, NoEvt, ListKept, link, conf, hist, alive
  <2>2. CallStays \/ CallBegins
    BY <1>7, NoCallType, NoCallFields DEF CallType, ConnectAp, RefuseBusy, Entering, At, Goto, CallStays, CallBegins
  <2> QED
    BY <2>1, <2>2 DEF Outside, ListMoves
<1>8. ASSUME NEW s \in Ssids, NEW p \in Passwords, NEW m \in Mgmts,
             ConnectApKeyMgmt(s, m, p) \/ AddNetwork(s, m, p)
      PROVE  Outside
  <2>1. ListKept /\ UNCHANGED <<orphan, crashed>>
    BY <1>8 DEF ConnectApKeyMgmt, AddNetwork, RefuseBusy, NoLink, NoEvt, ListKept,
       link, conf, hist, alive
  <2>2. CallStays \/ CallBegins
    BY <1>8, NoCallType, NoCallFields DEF CallType, ConnectApKeyMgmt, AddNetwork, RefuseBusy, Entering, At, Goto,
       CallStays, CallBegins
  <2> QED
    BY <2>1, <2>2 DEF Outside, ListMoves
<1> QED
  BY <1>2, <1>3, <1>4, <1>5, <1>6, <1>7, <1>8 DEF Application

\* The DHCP client that gives up.
LEMMA CallbackDoes ==
  ASSUME NEW t \in Threads, CallbackStep(t)
  PROVE  Outside
<1>1. CASE DhcpTimeout(t)
  <2>1. ListKept \/ (Trimmed /\ Stored)
    <3>1. CASE state = "CONNECTED"
      BY <1>1, <3>1 DEF DhcpTimeout, NoLink, link, ListKept, alive
    <3>2. CASE state # "CONNECTED"
      BY <1>1, <3>2, RemoveCuts DEF DhcpTimeout
    <3> QED
      BY <3>1, <3>2
  <2> QED
    BY <1>1, <2>1 DEF DhcpTimeout, NoApi, NoEvt, hist, Outside, ListMoves, CallStays
<1>2. CASE Callback(t) \/ StartDhcp(t) \/ Lease(t) \/ DhcpDone(t)
  BY <1>2 DEF Callback, StartDhcp, Lease, DhcpDone, NoApi, NoEvt, NoLink, link, conf,
     hist, Outside, ListMoves, ListKept, alive, CallStays
<1> QED
  BY <1>1, <1>2 DEF CallbackStep

\* The event thread does not touch the list.
LEMMA EvtStepDoes ==
  ASSUME EvtStep
  PROVE  Outside
<1>1. UNCHANGED <<conf, pc, call, orphan, crashed>> /\ (alive' <=> alive)
  BY DEF EvtStep, EvtConnected, EvtDisconnected, EvtTerminating, EvtFailure, NoApi,
     hist, alive
<1> QED
  BY <1>1 DEF Outside, ListMoves, ListKept, CallStays

\* The supplicant ends with its list, and comes back with its file.
LEMMA SupplicantDoes ==
  ASSUME Supplicant
  PROVE  Outside
<1>1. CASE SupTerminate
  <2>1. crashed' = (crashed \/ pc # "idle" \/ unsaved)
    BY <1>1 DEF SupTerminate
  <2>2. crashed \/ pc # "idle" \/ unsaved => crashed'
    BY <2>1, Zenon
  <2>3. Lost /\ CallStays /\ orphan' = orphan
    BY <1>1, <2>2 DEF SupTerminate, Lost, alive, CallStays
  <2> QED
    BY <2>2, <2>3 DEF Outside, ListMoves
<1>2. CASE SupRestart
  BY <1>2 DEF SupRestart, NoManager, At, hist, Outside, ListMoves, Restored, alive,
     CallStays
<1>3. CASE SupScan \/ SupConnect \/ SupDrop \/ \E r \in Failures : SupFail(r)
  BY <1>3 DEF SupScan, SupConnect, SupDrop, SupFail, Leave, NoManager, hist, Outside,
     ListMoves, ListKept, conf, alive, CallStays
<1> QED
  BY <1>1, <1>2, <1>3 DEF Supplicant

\* Every other step keeps ListInv.
LEMMA OutsideKeeps ==
  ASSUME TypeOK, ListInv, Outside
  PROVE  ListInv'
<1>1. CASE ListKept /\ CallStays
  <2>1. PlacesOK' /\ PairOK' /\ Synced'
    BY <1>1 DEF ListInv, PlacesOK, PairOK, Synced, Behind, Adding, AddsNetwork, Named,
       ListKept, conf, CallStays
  <2>2. GoneOK'
    BY <1>1 DEF ListInv, GoneOK, Adding, AddsNetwork, ListKept, conf, CallStays,
       Outside, Ids
  <2> QED
    BY <1>1, <2>1, <2>2, KeptIds DEF ListInv
<1>2. CASE Trimmed /\ Stored /\ CallStays
  <2>1. PlacesOK' /\ PairOK' /\ Synced'
    BY <1>2 DEF ListInv, PlacesOK, PairOK, Synced, Adding, AddsNetwork, Named, Trimmed,
       Within, Same, CallStays, Stored
  <2>2. call.new \notin Ids(net) => call.new \notin Ids(net')
    BY <1>2, PartOf DEF Trimmed
  <2>3. GoneOK'
    <3>1. alive' /\ (AddsNetwork' <=> AddsNetwork) /\ (Adding' <=> Adding)
      BY <1>2 DEF Trimmed, CallStays, Adding, AddsNetwork
    <3>2. \/ orphan' \/ crashed'
          \/ AddsNetwork /\ call.ret < 0 /\ ~Adding => call.new \notin Ids(net')
      BY <2>2 DEF ListInv, GoneOK, Outside
    <3>3. pc = "end" => ~Adding
      BY DEF Adding
    <3> QED
      BY <1>2, <3>1, <3>2, <3>3 DEF GoneOK, CallStays, Stored
  <2> QED
    BY <1>2, <2>1, <2>3, TrimmedIds DEF ListInv
<1>3. CASE Lost /\ CallStays
  <2>1. DeadEmpty' /\ IdsOK'
    BY <1>3 DEF Lost, ListInv, DeadEmpty, IdsOK, OneEach
  <2>2. PlacesOK' /\ PairOK' /\ Synced'
    BY <1>3 DEF ListInv, PlacesOK, PairOK, Synced, AddsNetwork, Lost, CallStays
  <2>3. GoneOK'
    BY <1>3, NoIdNowhere DEF ListInv, PlacesOK, GoneOK, Lost, CallStays, Ids
  <2> QED
    BY <2>1, <2>2, <2>3 DEF ListInv
<1>4. CASE Restored /\ CallStays
  <2>1. DeadEmpty' /\ IdsOK' /\ Synced'
    BY <1>4 DEF Restored, ListInv, DeadEmpty, IdsOK, Synced
  <2>2. PlacesOK' /\ PairOK'
    BY <1>4 DEF ListInv, PlacesOK, PairOK, Adding, AddsNetwork, Restored, CallStays
  <2>3. GoneOK'
    BY <1>4, NoIdNowhere DEF ListInv, PlacesOK, GoneOK, Restored, CallStays, Ids
  <2> QED
    BY <2>1, <2>2, <2>3 DEF ListInv
<1>5. CASE (ListKept \/ (Trimmed /\ Stored)) /\ CallBegins
  <2>1. PlacesOK' /\ PairOK' /\ ~Behind
    BY <1>5 DEF CallBegins, PlacesOK, PairOK, Adding, Behind, Attempt
  <2>2. DeadEmpty' /\ IdsOK'
    BY <1>5, KeptIds, TrimmedIds DEF ListInv
  <2>3. Synced'
    BY <1>5, <2>1 DEF ListInv, Synced, ListKept, conf, Stored
  <2>4. NoId \notin Ids(net') /\ NoId \notin Ids(saved')
    BY <1>5, NoIdNowhere, PartOf DEF ListKept, conf, Trimmed, Stored
  <2>5. GoneOK'
    BY <1>5, <2>4 DEF GoneOK, CallBegins
  <2> QED
    BY <2>1, <2>2, <2>3, <2>5 DEF ListInv
<1> QED
  BY <1>1, <1>2, <1>3, <1>4, <1>5 DEF Outside, ListMoves

\* ListInv holds from the start and is kept by every step.
LEMMA ListInductive ==
  /\ Init => ListInv
  /\ TypeOK /\ ListInv /\ [Next]_vars => ListInv'
<1>1. Init => ListInv
  <2> SUFFICES ASSUME Init
               PROVE  ListInv
    OBVIOUS
  <2>1. /\ pc = "idle" /\ call = NoCall /\ saved = KnownNets
        /\ \/ ~alive /\ net = {}
           \/ alive /\ net = saved
    BY DEF Init, alive
  <2>2. PlacesOK /\ DeadEmpty /\ PairOK /\ Synced
    BY <2>1, NoCallFields DEF PlacesOK, DeadEmpty, PairOK, Adding, Synced, AddsNetwork
  <2>3. IdsOK
    BY <2>1, KnownNetsAssumption DEF IdsOK, OneEach, Same
  <2>4. GoneOK
    BY <2>1, NoCallFields DEF GoneOK, AddsNetwork
  <2> QED
    BY <2>2, <2>3, <2>4 DEF ListInv
<1>2. TypeOK /\ ListInv /\ [Next]_vars => ListInv'
  <2> SUFFICES ASSUME TypeOK, ListInv, [Next]_vars
               PROVE  ListInv'
    OBVIOUS
  <2>1. CASE UNCHANGED vars
    BY <2>1, OutsideKeeps DEF vars, link, conf, hist, Outside, ListMoves, ListKept,
       alive, CallStays
  <2>2. CASE Next
    BY <2>2, ApiStepList, ApplicationDoes, CallbackDoes, EvtStepDoes, SupplicantDoes,
       OutsideKeeps DEF Next
  <2> QED
    BY <2>1, <2>2
<1> QED
  BY <1>1, <1>2

\* Between calls wpa_supplicant.conf lists the networks wpa_supplicant has, unless
\* the last SAVE_CONFIG failed: each call that removes, adds or replaces one tries
\* to save the list after the last change it makes.
THEOREM SavedCorrect == Spec => []ConfigSaved
<1>1. ListInv => ConfigSaved
  BY DEF ListInv, Synced, Behind, Attempt, ConfigSaved
<1> QED
  BY <1>1, ListInductive, TypeCorrect, PTL DEF Spec

\* A call that adds a network and fails leaves no entry of its own behind, in the
\* supplicant's list, nor in the file if the last SAVE_CONFIG was done, unless it
\* returned from a failed poll or the supplicant went in the middle of a call or
\* with its list unsaved.
THEOREM NothingLeft == Spec => []FailedAttemptLeavesNothing
<1>1. ListInv => FailedAttemptLeavesNothing
  BY DEF ListInv, GoneOK, Adding, FailedAttemptLeavesNothing
<1> QED
  BY <1>1, ListInductive, TypeCorrect, PTL DEF Spec

\* The steps of a call that adds a network remove no other entry, but for the
\* one of the same name and key type when the new one has connected.
THEOREM OthersKept == Spec => AttemptsKeepOtherNetworks
<1> DEFINE Kept == \A n \in net \ net' :
                     \/ \E m \in net' : m.id = n.id
                     \/ n.id = call.new
                     \/ /\ n.ssid = call.ssid /\ n.key = KeyType(call.mgmt)
                        /\ state' = "CONNECTED"
<1>1. ASSUME TypeOK, ListInv, ApiStep, AddsNetwork
      PROVE  Kept
  <2>1. ASSUME \/ net' = net \/ Within(net, net')
               \/ Within(Without(net, call.new), net')
        PROVE  Kept
    BY <2>1 DEF Without, Within, Same
  <2>2. CASE \/ ReadStatus \/ Begin \/ ClearEvtSocket \/ After \/ Scan \/ End
             \/ Poll \/ Reconnect
    <3>1. net' = net
      BY <2>2 DEF ReadStatus, Begin, ClearEvtSocket, After, Scan, End, Poll, Reconnect,
         NoLink, conf
    <3> QED
      BY <2>1, <3>1
  <2>3. CASE CreateNetwork
    BY <2>3 DEF CreateNetwork
  <2>4. CASE Configure
    <3>1. net' = net \/ Within(Without(net, call.new), net')
      BY <1>1, <2>4, ConfigureDoes DEF ListKept, conf, Undone
    <3> QED
      BY <2>1, <3>1
  <2>5. CASE SelectNew
    <3>1. Within(net, net') \/ net' = net \/ Within(Without(net, call.new), net')
      BY <1>1, <2>5, SelectNewDoes DEF ListKept, conf, Undone
    <3> QED
      BY <2>1, <3>1
  <2>6. CASE WaitConnected \/ WaitFailed \/ WaitTimeout \/ WaitError
    <3>1. CASE Adding /\ net' = Without(net, call.old) /\ state' = "CONNECTED"
      BY <3>1, <1>1 DEF Without, ListInv, PairOK, Named
    <3>2. CASE net' = net \/ Within(Without(net, call.new), net')
      BY <2>1, <3>2
    <3> QED
      BY <2>6, <3>1, <3>2, <1>1, WaitDoes DEF ListKept, conf, Undone
  <2>7. CASE EnableAll
    <3>1. Within(net, net') \/ net' = net
      BY <2>7, <1>1, EnableSwitches DEF EnableAll, ListKept, conf, link
    <3> QED
      BY <2>1, <3>1
  <2>8. ~(SelectExisting \/ PushButton \/ RemoveMaxNetid \/ EnableAfterWps)
    BY <1>1 DEF SelectExisting, PushButton, RemoveMaxNetid, EnableAfterWps, At, ListInv,
       PlacesOK, AddsNetwork
  <2> QED
    BY <1>1, <2>2, <2>3, <2>4, <2>5, <2>6, <2>7, <2>8 DEF ApiStep
<1>2. TypeOK /\ ListInv /\ [Next]_vars => [ApiStep /\ AddsNetwork => Kept]_vars
  BY <1>1
<1> QED
  BY <1>2, ListInductive, TypeCorrect, PTL DEF Spec, AttemptsKeepOtherNetworks

(***************************************************************************)
(* No two entries of the same name and key type.                           *)
(***************************************************************************)

\* During an attempt there may be two, the one to replace and the new one; a
\* dead supplicant comes back with what the file lists.
TwinsInv ==
  ~orphan /\ ~crashed =>
    /\ ~Adding => NoTwins(net)
    /\ Adding => /\ NoTwins(Without(net, call.new))
                 /\ \A n \in net : Named(n) => n.id \in {call.new, call.old}
    /\ ~alive => NoTwins(saved)

\* A step outside the attempts, or one that keeps the attempt as it is.
LEMMA PartTwins ==
  ASSUME ListInv, TwinsInv, ~orphan' /\ ~crashed' => ~orphan /\ ~crashed,
         ListKept \/ Trimmed,
         \/ ~Adding /\ ~Adding'
         \/ /\ Adding /\ Adding' /\ call'.new = call.new /\ call'.old = call.old
            /\ call'.ssid = call.ssid /\ call'.mgmt = call.mgmt
  PROVE  TwinsInv'
<1>1. Within(net', net) /\ (~alive' => ~alive /\ saved' = saved)
  BY WithinItself DEF ListKept, Trimmed, conf
<1> SUFFICES ASSUME ~orphan', ~crashed'
             PROVE  /\ ~Adding' => NoTwins(net')
                    /\ Adding' =>
                         /\ NoTwins(Without(net', call'.new))
                         /\ \A n \in net' : n.ssid = call'.ssid /\ n.key = KeyType(call'.mgmt)
                              => n.id \in {call'.new, call'.old}
                    /\ ~alive' => NoTwins(saved')
  BY DEF TwinsInv, Named
<1>2. ~alive' => NoTwins(saved')
  BY <1>1 DEF TwinsInv
<1>3. CASE ~Adding /\ ~Adding'
  BY <1>1, <1>2, <1>3, PartOf DEF TwinsInv
<1>4. CASE /\ Adding /\ Adding' /\ call'.new = call.new /\ call'.old = call.old
           /\ call'.ssid = call.ssid /\ call'.mgmt = call.mgmt
  <2>1. Within(Without(net', call.new), Without(net, call.new))
    BY <1>1, PartOf
  <2>2. NoTwins(Without(net', call'.new))
    BY <1>4, <2>1, PartOf DEF TwinsInv
  <2> QED
    BY <1>1, <1>2, <1>4, <2>2 DEF TwinsInv, Named, Within, Same
<1> QED
  BY <1>3, <1>4

\* An attempt that fails takes the twin it made away.
LEMMA UndoneTwins ==
  ASSUME ListInv, TwinsInv, Adding, Undone
  PROVE  TwinsInv'
<1>1. ~Adding' /\ UNCHANGED <<orphan, crashed>>
  BY FinishedAt DEF Undone, Adding
<1>2. CASE Trimmed /\ Within(net', Without(net, call.new))
  BY <1>1, <1>2, PartOf DEF TwinsInv, Trimmed
<1>3. CASE ~alive /\ ListKept
  BY <1>1, <1>3 DEF ListInv, DeadEmpty, TwinsInv, NoTwins, ListKept, conf
<1> QED
  BY <1>2, <1>3 DEF Undone

\* The new entry has connected: of the two the old one goes.
LEMMA ConnectedTwins ==
  ASSUME ListInv, TwinsInv, Adding, Trimmed, net' = Without(net, call.old),
         pc' = Finished, UNCHANGED <<orphan, crashed>>
  PROVE  TwinsInv'
<1>1. ~Adding' /\ alive'
  BY FinishedAt DEF Adding, Trimmed
<1>2. ASSUME ~orphan, ~crashed
      PROVE  NoTwins(net')
  <2> SUFFICES ASSUME NEW m \in net', NEW n \in net', m.ssid = n.ssid, m.key = n.key,
                      m.id # n.id
               PROVE  FALSE
    BY DEF NoTwins
  <2>1. m \in net /\ n \in net /\ m.id # call.old /\ n.id # call.old
    BY DEF Without
  <2>2. m.id = call.new \/ n.id = call.new
    BY <1>2, <2>1 DEF TwinsInv, NoTwins, Without
  <2>3. Named(m) /\ Named(n)
    BY <2>1, <2>2 DEF ListInv, PairOK, Named
  <2> QED
    BY <1>2, <2>1, <2>3 DEF TwinsInv
<1> QED
  BY <1>1, <1>2 DEF TwinsInv

\* ADD_NETWORK makes at most one pair, and the call knows both.
LEMMA CreateTwins ==
  ASSUME TypeOK, ListInv, TwinsInv, CreateNetwork
  PROVE  TwinsInv'
<1>1. /\ pc = "add" /\ AddsNetwork /\ ~Adding /\ call \in CallType
      /\ UNCHANGED <<orphan, crashed>>
  BY DEF CreateNetwork, At, ListInv, PlacesOK, Adding, TypeOK, NoEvt, hist
<1>2. CASE Fail("CMD_OR_PARAMS_ERROR", Finished) /\ UNCHANGED net
  <2>1. ListKept /\ ~Adding'
    BY <1>2, FinishedAt DEF CreateNetwork, ListKept, conf, link, alive, Fail, Goto,
       Adding
  <2> QED
    BY <1>1, <2>1, PartTwins
<1>3. ASSUME NEW i \in NetIds \ Ids(net), alive,
             net' = net \cup {[id |-> i, ssid |-> call.ssid,
                               key |-> KeyType(call.mgmt), on |-> FALSE]},
             \/ /\ Twins = {} /\ call' = [call EXCEPT !.new = i, !.old = NoId]
             \/ \E n \in Twins : call' = [call EXCEPT !.new = i, !.old = n.id],
             Goto("configure"), ~orphan, ~crashed
      PROVE  TwinsInv'
  <2>1. /\ call'.op = call.op /\ call'.ssid = call.ssid /\ call'.mgmt = call.mgmt
        /\ call'.new = i
        /\ Twins = {} \/ \E t \in Twins : call'.old = t.id
    BY <1>1, <1>3 DEF CallType
  <2>2. alive' /\ Adding'
    BY <1>1, <1>3, <2>1 DEF CreateNetwork, Goto, link, alive, Adding, AddsNetwork
  <2>3. \A n \in net' : n \in net \/ n.id = i
    <3> SUFFICES ASSUME NEW n \in net', n \notin net
                 PROVE  n.id = i
      OBVIOUS
    <3>1. n \in net \cup {[id |-> i, ssid |-> call.ssid,
                           key |-> KeyType(call.mgmt), on |-> FALSE]}
      BY <1>3
    <3>2. n = [id |-> i, ssid |-> call.ssid, key |-> KeyType(call.mgmt), on |-> FALSE]
      BY <3>1
    <3> QED
      BY <3>2
  <2>4. NoTwins(net)
    BY <1>1, <1>3 DEF TwinsInv
  <2>5. NoTwins(Without(net', call'.new))
    BY <2>1, <2>3, <2>4 DEF NoTwins, Without
  <2>6. \A n \in net' : n.ssid = call.ssid /\ n.key = KeyType(call.mgmt)
                          => n.id \in {call'.new, call'.old}
    BY <2>1, <2>3, <2>4 DEF NoTwins, Twins
  <2> QED
    BY <2>1, <2>2, <2>5, <2>6 DEF TwinsInv, Named
<1>4. CASE orphan \/ crashed
  BY <1>1, <1>4 DEF TwinsInv
<1> QED
  BY <1>2, <1>3, <1>4 DEF CreateNetwork

\* The push button adds no entry of a name and key type in the list.
LEMMA PushTwins ==
  ASSUME TypeOK, ListInv, TwinsInv, PushButton
  PROVE  TwinsInv'
<1>1. ~AddsNetwork /\ ~Adding /\ call \in CallType /\ crashed' = crashed
  BY DEF PushButton, At, ListInv, PlacesOK, Adding, TypeOK
<1>2. CASE Abandon /\ Goto("end") /\ UNCHANGED <<conf, link>>
  <2>1. ListKept /\ ~Adding' /\ (~orphan' => ~orphan)
    BY <1>2, Abandoned DEF ListKept, conf, link, alive, Goto, Adding
  <2> QED
    BY <1>1, <2>1, PartTwins
<1>3. ASSUME NEW i \in NetIds \ Ids(net), NEW s \in Ssids, alive,
             \A n \in net : <<n.ssid, n.key>> # <<s, "WPA-PSK">>,
             net' = {[n EXCEPT !.on = FALSE] : n \in net} \cup
                    {[id |-> i, ssid |-> s, key |-> "WPA-PSK", on |-> TRUE]},
             Leave("assoc", i), (~orphan' => ~orphan), ~AddsNetwork'
      PROVE  TwinsInv'
  <2>1. alive' /\ ~Adding'
    BY <1>3 DEF Leave, alive, Adding
  <2>2. \A n \in net' : \/ \E m \in net : Same(n, m)
                        \/ n.id = i /\ n.ssid = s /\ n.key = "WPA-PSK"
    <3>1. net \in SUBSET Network
      BY DEF TypeOK
    <3>2. Within({[n EXCEPT !.on = FALSE] : n \in net}, net)
      BY <3>1, SwitchAll
    <3> SUFFICES ASSUME NEW n \in net', n \notin {[m EXCEPT !.on = FALSE] : m \in net}
                 PROVE  n.id = i /\ n.ssid = s /\ n.key = "WPA-PSK"
      BY <3>2 DEF Within
    <3>3. n = [id |-> i, ssid |-> s, key |-> "WPA-PSK", on |-> TRUE]
      BY <1>3
    <3> QED
      BY <3>3
  <2>3. NoTwins(net) => NoTwins(net')
    <3>1. \A n \in net : ~(n.ssid = s /\ n.key = "WPA-PSK")
      BY <1>3
    <3> QED
      BY <2>2, <3>1 DEF NoTwins, Same
  <2> QED
    BY <1>1, <1>3, <2>1, <2>3 DEF TwinsInv
<1>4. ASSUME Abandon \/ UNCHANGED <<call, orphan, stuck>>
      PROVE  (~orphan' => ~orphan) /\ ~AddsNetwork'
  BY <1>1, <1>4, Abandoned DEF CallType, AddsNetwork
<1> QED
  BY <1>2, <1>3, <1>4 DEF PushButton

\* Every step of the API thread keeps TwinsInv.
LEMMA ApiStepTwins ==
  ASSUME TypeOK, ListInv, TwinsInv, ApiStep
  PROVE  TwinsInv'
<1>1. CASE ReadStatus \/ Begin \/ ClearEvtSocket \/ After \/ Scan \/ End \/ Poll
  <2>1. ListKept /\ UNCHANGED <<orphan, crashed>>
    BY <1>1 DEF ReadStatus, Begin, ClearEvtSocket, After, Scan, End, Poll, NoLink,
       NoEvt, link, conf, hist, ListKept, alive
  <2>2. ~Adding
    BY <1>1 DEF ReadStatus, Begin, ClearEvtSocket, After, Scan, End, Poll, At, Adding
  <2>3. ~Adding'
    <3>1. CASE ClearEvtSocket
      <4>1. call'.op = call.op
        BY <3>1 DEF ClearEvtSocket, TypeOK, CallType
      <4> QED
        BY <3>1, <4>1 DEF ClearEvtSocket, Goto, Adding, AddsNetwork
    <3>2. CASE ~ClearEvtSocket
      BY <1>1, <3>2 DEF ReadStatus, Begin, After, Scan, Fail, End, Poll, Goto, Return,
         Adding
    <3> QED
      BY <3>1, <3>2
  <2> QED
    BY <2>1, <2>2, <2>3, PartTwins
<1>2. CASE SelectExisting \/ Reconnect
  <2>1. ~AddsNetwork /\ call \in CallType /\ crashed' = crashed
    BY <1>2 DEF SelectExisting, Reconnect, At, ListInv, PlacesOK, AddsNetwork, TypeOK
  <2>2. Abandon \/ UNCHANGED <<call, orphan>>
    BY <1>2 DEF SelectExisting, Reconnect
  <2>3. ~Adding /\ ~Adding' /\ (~orphan' => ~orphan)
    BY <2>1, <2>2, Abandoned DEF CallType, Adding, AddsNetwork
  <2>4. ListKept \/ Trimmed
    <3>1. CASE Reconnect
      BY <3>1 DEF Reconnect, ListKept, conf, link, Leave, alive
    <3>2. CASE SelectExisting
      <4>1. CASE call.old \in Ids(net)
        <5>1. alive /\ SelectNetwork(call.old)
          BY <3>2, <4>1 DEF SelectExisting, ListInv, DeadEmpty, Ids
        <5> QED
          BY <5>1, SelectSwitches
      <4>2. CASE call.old \notin Ids(net)
        BY <3>2, <4>2 DEF SelectExisting, ListKept, conf, link, alive
      <4> QED
        BY <4>1, <4>2
    <3> QED
      BY <1>2, <3>1, <3>2
  <2> QED
    BY <2>1, <2>3, <2>4, PartTwins
<1>3. CASE Configure \/ SelectNew
  <2>1. CASE Adding /\ Undone
    BY <2>1, UndoneTwins
  <2>2. CASE /\ Adding /\ pc' \in {"select", "wait"}
             /\ UNCHANGED <<call, orphan, crashed>> /\ (ListKept \/ Trimmed)
    <3>1. Adding'
      BY <2>2 DEF Adding, AddsNetwork
    <3> QED
      BY <2>2, <3>1, PartTwins
  <2> QED
    BY <1>3, <2>1, <2>2, ConfigureDoes, SelectNewDoes
<1>4. CASE WaitConnected \/ WaitFailed \/ WaitTimeout \/ WaitError
  <2>1. pc' = Finished /\ crashed' = crashed
    BY <1>4, WaitDoes
  <2>2. CASE /\ ListKept /\ (~AddsNetwork \/ ~alive \/ orphan')
             /\ orphan' \/ orphan' = orphan
    <3>1. CASE orphan'
      BY <3>1 DEF TwinsInv
    <3>2. CASE ~orphan' /\ ~AddsNetwork
      BY <2>1, <2>2, <3>2, FinishedAt, PartTwins DEF Adding
    <3>3. CASE ~orphan' /\ ~alive
      BY <2>1, <2>2, <3>3, FinishedAt
      DEF ListInv, DeadEmpty, TwinsInv, NoTwins, Adding, ListKept, conf
    <3> QED
      BY <2>2, <3>1, <3>2, <3>3
  <2>3. \/ Adding /\ Trimmed /\ net' = Without(net, call.old) /\ orphan' = orphan
        \/ Adding /\ Undone
        \/ /\ ListKept /\ (~AddsNetwork \/ ~alive \/ orphan')
           /\ orphan' \/ orphan' = orphan
    BY <1>4, WaitDoes
  <2> QED
    BY <2>1, <2>2, <2>3, ConnectedTwins, UndoneTwins
<1>5. CASE EnableAll \/ EnableAfterWps \/ RemoveMaxNetid
  <2>1. ~Adding /\ ~Adding'
    BY <1>5 DEF EnableAll, EnableAfterWps, RemoveMaxNetid, At, Goto, Return, Adding
  <2>2. (ListKept \/ Trimmed) /\ UNCHANGED <<orphan, crashed>>
    BY <1>5, EndsDo
  <2> QED
    BY <2>1, <2>2, PartTwins
<1> QED
  BY <1>1, <1>2, <1>3, <1>4, <1>5, CreateTwins, PushTwins DEF ApiStep

\* Every other step keeps TwinsInv.
LEMMA OutsideTwins ==
  ASSUME ListInv, TwinsInv, Outside
  PROVE  TwinsInv'
<1>1. CASE CallStays /\ (ListKept \/ Trimmed)
  <2>1. Adding' <=> Adding
    BY <1>1 DEF CallStays, Adding, AddsNetwork
  <2> QED
    BY <1>1, <2>1, PartTwins DEF Outside, CallStays
<1>2. CASE CallBegins /\ (ListKept \/ Trimmed)
  <2>1. ~Adding /\ ~Adding'
    BY <1>2 DEF CallBegins, Adding
  <2> QED
    BY <1>2, <2>1, PartTwins DEF Outside
<1>3. CASE Lost /\ CallStays
  <2> SUFFICES ASSUME ~orphan', ~crashed'
               PROVE  NoTwins(net') /\ ~Adding' /\ NoTwins(saved')
    BY DEF TwinsInv
  <2>1. /\ pc = "idle" /\ alive /\ ~unsaved /\ ~orphan /\ ~crashed
        /\ ~Adding /\ ~Adding'
    BY <1>3 DEF Lost, Outside, CallStays, Adding
  <2>2. NoTwins(net) /\ Entries(net) = Entries(saved)
    BY <2>1 DEF TwinsInv, ListInv, Synced, Behind, Attempt
  <2>3. NoTwins(saved)
    BY <2>2, EntriesTell, PartOf
  <2> QED
    BY <1>3, <2>1, <2>3 DEF Lost, NoTwins
<1>4. CASE Restored /\ CallStays
  <2>1. ~Adding' /\ alive' /\ ~alive /\ net' = saved
    BY <1>4 DEF Restored, CallStays, Adding
  <2> QED
    BY <2>1 DEF TwinsInv, Outside
<1> QED
  BY <1>1, <1>2, <1>3, <1>4 DEF Outside, ListMoves

\* If no two of the networks configured at the start have the same name and key
\* type, no sequence of calls, reports and removals makes two that do; the only
\* exceptions are a failed poll and the loss of the supplicant in mid call or with
\* its list unsaved.
THEOREM OneOfEachName ==
  ASSUME NoTwins(KnownNets)
  PROVE  Spec => []NoDuplicateNetwork
<1>1. Init => TwinsInv
  <2> SUFFICES ASSUME Init
               PROVE  TwinsInv
    OBVIOUS
  <2>1. pc = "idle" /\ saved = KnownNets /\ (net = {} \/ net = saved)
    BY DEF Init
  <2> QED
    BY <2>1 DEF TwinsInv, Adding, NoTwins
<1>2. TypeOK /\ ListInv /\ TwinsInv /\ [Next]_vars => TwinsInv'
  <2> SUFFICES ASSUME TypeOK, ListInv, TwinsInv, [Next]_vars
               PROVE  TwinsInv'
    OBVIOUS
  <2>1. CASE UNCHANGED vars
    BY <2>1, OutsideTwins DEF vars, link, conf, hist, Outside, ListMoves, ListKept,
       alive, CallStays
  <2>2. CASE Next
    BY <2>2, ApiStepTwins, ApplicationDoes, CallbackDoes, EvtStepDoes, SupplicantDoes,
       OutsideTwins DEF Next
  <2> QED
    BY <2>1, <2>2
<1>3. TwinsInv => NoDuplicateNetwork
  BY DEF TwinsInv, Adding, NoTwins, NoDuplicateNetwork
<1> QED
  BY <1>1, <1>2, <1>3, ListInductive, TypeCorrect, PTL DEF Spec

=============================================================================
