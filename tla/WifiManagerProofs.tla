------------------------- MODULE WifiManagerProofs -------------------------
(***************************************************************************)
(* Theorems about WifiManager, for every set of networks, identifiers and  *)
(* calls and every bound on the pending reports.                           *)
(*                                                                         *)
(* TypeOK is inductive by itself.  BusyIsSomeonesWork is not: a state      *)
(* CONNECTING is accounted for by the place of the API thread, a state     *)
(* OBTAINING_IP by the DHCP client of some thread, and BusyInv says so.    *)
(* UpIsReal is not either: UpInv follows the report of a loss from the     *)
(* link to the state.                                                      *)
(***************************************************************************)
EXTENDS WifiManager, TLAPS

WpaStates == {"dead", "idle", "scan", "assoc", "up"}
AnyId == NetIds \cup {NoId}

\* The parts of TypeOK that the steps disturb together.
MgrOK ==
  /\ state \in wmgState /\ event \in wmgEvent
  /\ enable \in BOOLEAN /\ handle \in BOOLEAN
  /\ netIdConnecting \in AnyId
ApiOK == pc \in Labels /\ call \in CallType
CbOK == cb \in [Threads -> {"off", "call", "start", "dhcp", "leased"}]
EvtOK == listening \in BOOLEAN /\ evtq \in Seq(Reports)
LinkOK == wpa \in WpaStates /\ cur \in AnyId /\ ctrl \in Seq(Reports)
ConfOK == net \subseteq Network /\ saved \subseteq Network /\ unsaved \in BOOLEAN
HistOK ==
  /\ orphan \in BOOLEAN /\ stuck \in BOOLEAN
  /\ crashed \in BOOLEAN /\ dropped \in BOOLEAN

\* The parts make the whole.
LEMMA Parts ==
  TypeOK <=> MgrOK /\ ApiOK /\ CbOK /\ EvtOK /\ LinkOK /\ ConfOK /\ HistOK
BY DEF TypeOK, MgrOK, ApiOK, CbOK, EvtOK, LinkOK, ConfOK, HistOK, WpaStates, AnyId

LEMMA PartsNext ==
  MgrOK' /\ ApiOK' /\ CbOK' /\ EvtOK' /\ LinkOK' /\ ConfOK' /\ HistOK' => TypeOK'
BY DEF TypeOK, MgrOK, ApiOK, CbOK, EvtOK, LinkOK, ConfOK, HistOK, WpaStates, AnyId

LEMMA EmptyQueue == <<>> \in Seq(Reports)
OBVIOUS

\* The head and the tail of what is left to try.
LEMMA HeadTail ==
  ASSUME NEW s \in Seq(KeyMgmts), s # <<>>
  PROVE  Head(s) \in KeyMgmts /\ Tail(s) \in Seq(KeyMgmts)
OBVIOUS

\* A report joins the queue of the event thread.
LEMMA ReportType ==
  ASSUME LinkOK, NEW r \in Reports
  PROVE  Report(r) \in Seq(Reports)
BY DEF LinkOK, Report

\* What the supplicant does to the link keeps its type.
LEMMA LeaveType ==
  ASSUME LinkOK, NEW s \in WpaStates, NEW c \in AnyId, Leave(s, c)
  PROVE  LinkOK'
BY ReportType DEF LinkOK, Leave, Reports

LEMMA DropType ==
  ASSUME LinkOK, NEW gone, Drop(gone)
  PROVE  LinkOK'
<1>1. "scan" \in WpaStates /\ NoId \in AnyId
  BY DEF WpaStates, AnyId
<1>2. CASE Leave("scan", NoId)
  BY <1>1, <1>2, LeaveType
<1>3. CASE UNCHANGED link
  BY <1>3 DEF link, LinkOK
<1> QED
  BY <1>2, <1>3 DEF Drop

\* SAVE_CONFIG, done or failed, changes no type.
LEMMA SaveType ==
  ASSUME ConfOK, net' \subseteq Network, SaveConfig
  PROVE  ConfOK'
BY DEF ConfOK, SaveConfig, Saved

\* Removing an entry, with or without DISCONNECT, keeps link and networks
\* well typed.
LEMMA RemoveType ==
  ASSUME LinkOK, ConfOK, NEW i, RemoveAndSave(i)
  PROVE  LinkOK' /\ ConfOK'
<1>1. CASE alive
  BY <1>1, DropType, SaveType DEF RemoveAndSave, ConfOK, Without
<1>2. CASE ~alive
  BY <1>2 DEF RemoveAndSave, conf, link, ConfOK, LinkOK
<1> QED
  BY <1>1, <1>2

LEMMA CancelType ==
  ASSUME LinkOK, ConfOK, NEW i, CancelSavedConf(i)
  PROVE  LinkOK' /\ ConfOK'
<1>1. "idle" \in WpaStates /\ NoId \in AnyId
  BY DEF WpaStates, AnyId
<1>2. CASE alive
  BY <1>1, <1>2, LeaveType, SaveType DEF CancelSavedConf, ConfOK, Without
<1>3. CASE ~alive
  BY <1>3 DEF CancelSavedConf, conf, link, ConfOK, LinkOK
<1> QED
  BY <1>2, <1>3

\* Turning networks on and off leaves them networks.
LEMMA SwitchType ==
  ASSUME NEW nets \in SUBSET Network, NEW b \in BOOLEAN
  PROVE  {[n EXCEPT !.on = b] : n \in nets} \subseteq Network
BY DEF Network

LEMMA SelectType ==
  ASSUME LinkOK, ConfOK, NEW i \in AnyId, SelectNetwork(i)
  PROVE  LinkOK' /\ net' \subseteq Network
<1>1. net' \subseteq Network
  BY DEF SelectNetwork, ConfOK, Network
<1>2. LinkOK'
  <2>1. CASE wpa = "up" /\ cur = i
    BY <2>1 DEF SelectNetwork, link, LinkOK
  <2>2. CASE ~(wpa = "up" /\ cur = i)
    BY <2>2, LeaveType DEF SelectNetwork, WpaStates
  <2> QED
    BY <2>1, <2>2
<1> QED
  BY <1>1, <1>2

\* A call begins and ends with values of its type.
LEMMA NoCallType == NoCall \in CallType
<1>1. (CHOOSE s \in Ssids : TRUE) \in Ssids
  BY ConstantsAssumption
<1>2. <<>> \in Seq(KeyMgmts)
  OBVIOUS
<1> QED
  BY <1>1, <1>2 DEF NoCall, CallType, AllOps, KeyMgmts, PasswordKinds

\* So do the updates that a call makes to its locals.
LEMMA CallEdits ==
  ASSUME call \in CallType
  PROVE  /\ [call EXCEPT !.ret = -1] \in CallType
         /\ [call EXCEPT !.ret = 0] \in CallType
         /\ [call EXCEPT !.stale = 0] \in CallType
         /\ \A i, j \in AnyId : [call EXCEPT !.new = i, !.old = j] \in CallType
         /\ \A n \in Nat : [call EXCEPT !.new = NoId, !.stale = n] \in CallType
         /\ \A m \in KeyMgmts, s \in Seq(KeyMgmts) :
              /\ [call EXCEPT !.mgmt = m, !.rest = s] \in CallType
              /\ [call EXCEPT !.mgmt = m, !.rest = s, !.first = FALSE] \in CallType
BY DEF CallType, AnyId

\* The entries and the first commands of the calls.
LEMMA ApplicationType ==
  ASSUME TypeOK, Application
  PROVE  TypeOK'
<1> USE Parts, PartsNext
<1>1. CASE TurnOn
  <2>1. MgrOK' /\ ApiOK'
    BY <1>1 DEF TurnOn, Goto, Set, MgrOK, ApiOK, wmgState, wmgEvent, Labels
  <2>2. EvtOK'
    BY <1>1, EmptyQueue DEF TurnOn, EvtOK
  <2>3. CbOK' /\ LinkOK' /\ ConfOK' /\ HistOK'
    BY <1>1 DEF TurnOn, CbOK, LinkOK, ConfOK, HistOK, link, conf, hist
  <2> QED
    BY <2>1, <2>2, <2>3
<1>2. CASE TurnOff
  <2>1. MgrOK' /\ ApiOK' /\ CbOK'
    BY <1>2 DEF TurnOff, Set, Threads, MgrOK, ApiOK, CbOK, wmgState, wmgEvent
  <2>2. EvtOK' /\ LinkOK'
    BY <1>2, EmptyQueue DEF TurnOff, EvtOK, LinkOK, WpaStates, AnyId
  <2>3. ConfOK' /\ HistOK'
    BY <1>2 DEF TurnOff, ConfOK, HistOK, conf, hist
  <2> QED
    BY <2>1, <2>2, <2>3
<1>3. CASE ConnectApAuto
  <2>1. MgrOK' /\ CbOK'
    BY <1>3 DEF ConnectApAuto, Set, Notify, NoMgr, Threads, MgrOK, CbOK,
       wmgState, wmgEvent
  <2>2. ApiOK'
    BY <1>3, NoCallType DEF ConnectApAuto, Goto, ApiOK, CallType, AllOps, Labels,
       Attempt
  <2>3. EvtOK' /\ LinkOK' /\ ConfOK' /\ HistOK'
    BY <1>3 DEF ConnectApAuto, NoEvt, NoLink, EvtOK, LinkOK, ConfOK, HistOK,
       link, conf, hist
  <2> QED
    BY <2>1, <2>2, <2>3
<1>4. CASE WpsPbc
  <2>1. MgrOK' /\ CbOK'
    BY <1>4 DEF WpsPbc, RefuseBusy, Set, Notify, NoMgr, Threads, MgrOK, CbOK,
       wmgState, wmgEvent
  <2>2. ApiOK'
    BY <1>4, NoCallType DEF WpsPbc, RefuseBusy, Goto, ApiOK, CallType, AllOps,
       Labels, Attempt
  <2>3. EvtOK' /\ LinkOK' /\ ConfOK' /\ HistOK'
    BY <1>4 DEF WpsPbc, NoEvt, NoLink, EvtOK, LinkOK, ConfOK, HistOK, link, conf,
       hist
  <2> QED
    BY <2>1, <2>2, <2>3
<1>5. CASE DisconnectAp
  <2>1. "idle" \in WpaStates /\ NoId \in AnyId
    BY DEF WpaStates, AnyId
  <2>2. LinkOK'
    BY <1>5, <2>1, LeaveType DEF DisconnectAp
  <2> QED
    BY <1>5, <2>2, NoCallType DEF DisconnectAp, Entering, At, Goto, NoMgr, NoEvt,
       MgrOK, ApiOK, CbOK, EvtOK, ConfOK, HistOK, conf, hist, CallType, AllOps,
       Labels
<1>6. CASE RemoveNetworks
  <2>1. LinkOK'
    BY <1>6, DropType DEF RemoveNetworks
  <2>2. ConfOK'
    BY <1>6, SaveType DEF RemoveNetworks, ConfOK
  <2> QED
    BY <1>6, <2>1, <2>2 DEF RemoveNetworks, NoMgr, NoEvt, MgrOK, ApiOK, CbOK,
       EvtOK, HistOK, hist
<1>7. ASSUME NEW i \in NetIds, ConnectApWithNetid(i)
      PROVE  TypeOK'
  <2>1. "idle" \in WpaStates /\ NoId \in AnyId
    BY DEF WpaStates, AnyId
  <2>2. LinkOK'
    <3>1. CASE Leave("idle", NoId)
      BY <2>1, <3>1, LeaveType
    <3>2. CASE UNCHANGED link
      BY <3>2 DEF link, LinkOK
    <3> QED
      BY <1>7, <3>1, <3>2 DEF ConnectApWithNetid
  <2>3. MgrOK' /\ CbOK' /\ EvtOK' /\ ConfOK' /\ HistOK'
    BY <1>7 DEF ConnectApWithNetid, RefuseBusy, Set, Notify, NoMgr, NoEvt,
       Threads, MgrOK, CbOK, EvtOK, ConfOK, HistOK, conf, hist, wmgState, wmgEvent
  <2>4. ApiOK'
    BY <1>7, NoCallType DEF ConnectApWithNetid, RefuseBusy, Goto, ApiOK,
       CallType, AllOps, Labels, Attempt
  <2> QED
    BY <2>2, <2>3, <2>4
<1>8. ASSUME NEW ssid \in Ssids, NEW pass \in Passwords, ConnectAp(ssid, pass)
      PROVE  TypeOK'
  <2>1. MgrOK' /\ CbOK'
    BY <1>8 DEF ConnectAp, RefuseBusy, Set, Notify, NoMgr, Threads, MgrOK, CbOK,
       wmgState, wmgEvent
  <2>2. ApiOK'
    <3>1. pass \in PasswordKinds /\ "connect_ap" \in AllOps
      BY ConstantsAssumption DEF AllOps
    <3>2. (IF pass = "" THEN "NONE" ELSE "WPA_PSK") \in KeyMgmts
      BY DEF KeyMgmts
    <3>3. call' \in CallType
      <4>1. [NoCall EXCEPT !.op = "connect_ap", !.ssid = ssid,
               !.pass = pass, !.first = TRUE,
               !.mgmt = IF pass = "" THEN "NONE" ELSE "WPA_PSK"] \in CallType
        BY <3>1, <3>2, NoCallType DEF CallType
      <4>2. [NoCall EXCEPT !.op = "connect_ap", !.ret = -1] \in CallType
        BY <3>1, <3>2, NoCallType DEF CallType
      <4> QED
        BY <1>8, <4>1, <4>2 DEF ConnectAp, RefuseBusy, ApiOK
    <3> QED
      BY <1>8, <3>3 DEF ConnectAp, RefuseBusy, Goto, ApiOK, Labels, Attempt
  <2>3. EvtOK' /\ LinkOK' /\ ConfOK' /\ HistOK'
    BY <1>8 DEF ConnectAp, NoEvt, NoLink, EvtOK, LinkOK, ConfOK, HistOK, link, conf,
       hist
  <2> QED
    BY <2>1, <2>2, <2>3
<1>9. ASSUME NEW ssid \in Ssids, NEW pass \in Passwords, NEW mgmt \in KeyMgmts,
             ConnectApKeyMgmt(ssid, mgmt, pass)
      PROVE  TypeOK'
  <2>1. MgrOK' /\ CbOK'
    BY <1>9 DEF ConnectApKeyMgmt, RefuseBusy, Set, Notify, NoMgr, Threads, MgrOK, CbOK,
       wmgState, wmgEvent
  <2>2. ApiOK'
    <3>1. pass \in PasswordKinds /\ "connect_ap_key_mgmt" \in AllOps
      BY ConstantsAssumption DEF AllOps
    <3>3. call' \in CallType
      <4>1. [NoCall EXCEPT !.op = "connect_ap_key_mgmt", !.ssid = ssid,
               !.pass = pass, !.mgmt = mgmt] \in CallType
        BY <3>1, NoCallType DEF CallType
      <4>2. [NoCall EXCEPT !.op = "connect_ap_key_mgmt", !.ret = -1] \in CallType
        BY <3>1, NoCallType DEF CallType
      <4> QED
        BY <1>9, <4>1, <4>2 DEF ConnectApKeyMgmt, RefuseBusy, ApiOK
    <3> QED
      BY <1>9, <3>3 DEF ConnectApKeyMgmt, RefuseBusy, Goto, ApiOK, Labels, Attempt
  <2>3. EvtOK' /\ LinkOK' /\ ConfOK' /\ HistOK'
    BY <1>9 DEF ConnectApKeyMgmt, NoEvt, NoLink, EvtOK, LinkOK, ConfOK, HistOK, link, conf,
       hist
  <2> QED
    BY <2>1, <2>2, <2>3
<1>10. ASSUME NEW ssid \in Ssids, NEW pass \in Passwords, NEW mgmt \in KeyMgmts,
              AddNetwork(ssid, mgmt, pass)
       PROVE  TypeOK'
  <2>1. MgrOK' /\ CbOK'
    BY <1>10 DEF AddNetwork, RefuseBusy, Set, Notify, NoMgr, Threads, MgrOK, CbOK,
       wmgState, wmgEvent
  <2>2. ApiOK'
    <3>1. pass \in PasswordKinds /\ "add_network" \in AllOps
      BY ConstantsAssumption DEF AllOps
    <3>3. call' \in CallType
      <4>1. [NoCall EXCEPT !.op = "add_network", !.ssid = ssid,
               !.pass = pass, !.mgmt = mgmt] \in CallType
        BY <3>1, NoCallType DEF CallType
      <4>2. [NoCall EXCEPT !.op = "add_network", !.ret = -1] \in CallType
        BY <3>1, NoCallType DEF CallType
      <4> QED
        BY <1>10, <4>1, <4>2 DEF AddNetwork, RefuseBusy, ApiOK
    <3> QED
      BY <1>10, <3>3 DEF AddNetwork, RefuseBusy, Goto, ApiOK, Labels, Attempt
  <2>3. EvtOK' /\ LinkOK' /\ ConfOK' /\ HistOK'
    BY <1>10 DEF AddNetwork, NoEvt, NoLink, EvtOK, LinkOK, ConfOK, HistOK, link, conf,
       hist
  <2> QED
    BY <2>1, <2>2, <2>3
<1> QED
  BY <1>1, <1>2, <1>3, <1>4, <1>5, <1>6, <1>7, <1>8, <1>9, <1>10, ConstantsAssumption
  DEF Application

\* The steps of a call.  What they do to the networks and the link goes
\* through the lemmas above.
LEMMA ApiStepType ==
  ASSUME TypeOK, ApiStep
  PROVE  TypeOK'
<1> USE Parts, PartsNext, ConstantsAssumption
<1>0. /\ {"idle", "scan", "assoc"} \subseteq WpaStates
      /\ NoId \in AnyId /\ call.new \in AnyId /\ call.old \in AnyId
      /\ \A n \in net : n.id \in AnyId
      /\ evtq # <<>> => Head(evtq) \in Reports /\ Tail(evtq) \in Seq(Reports)
  BY DEF WpaStates, AnyId, ApiOK, CallType, ConfOK, Network, EvtOK
<1>1. CASE ReadStatus
  <2>1. MgrOK' /\ ApiOK'
    BY <1>1 DEF ReadStatus, Goto, MgrOK, ApiOK, wmgState, Labels
  <2>2. CbOK'
    BY <1>1 DEF ReadStatus, Notify, Threads, CbOK
  <2>3. EvtOK' /\ LinkOK' /\ ConfOK'
    BY <1>1 DEF ReadStatus, NoLink, EvtOK, LinkOK, ConfOK, link, conf
  <2>4. HistOK'
    BY <1>1 DEF ReadStatus, HistOK
  <2> QED
    BY <2>1, <2>2, <2>3, <2>4
<1>2. CASE Begin
  <2>1. ApiOK'
    <3>1. Len(evtq) \in Nat
      BY DEF EvtOK
    <3> QED
      BY <1>2, <3>1, CallEdits DEF Begin, Goto, ApiOK, Labels, Attempt
  <2>2. MgrOK' /\ CbOK' /\ EvtOK' /\ LinkOK' /\ ConfOK' /\ HistOK'
    BY <1>2 DEF Begin, Set, Notify, NoMgr, NoEvt, NoLink, Threads, MgrOK, CbOK,
       EvtOK, LinkOK, ConfOK, HistOK, link, conf, hist, wmgState, wmgEvent
  <2> QED
    BY <2>1, <2>2
<1>3. CASE ClearEvtSocket
  <2>1. ApiOK' /\ EvtOK'
    BY <1>3, EmptyQueue DEF ClearEvtSocket, Goto, ApiOK, EvtOK, CallType, Labels,
       Attempt
  <2>2. MgrOK' /\ CbOK' /\ LinkOK' /\ ConfOK' /\ HistOK'
    BY <1>3 DEF ClearEvtSocket, Notify, Threads, MgrOK, CbOK, LinkOK, ConfOK,
       HistOK, mgr, link, conf, hist
  <2> QED
    BY <2>1, <2>2
<1>4. CASE CreateNetwork
  <2>1. CASE Fail("CMD_OR_PARAMS_ERROR", Finished) /\ UNCHANGED net
    <3>1. MgrOK' /\ ApiOK'
      BY <1>4, <2>1, CallEdits DEF CreateNetwork, Fail, Finished, Goto, Set, NoMgr,
         MgrOK, ApiOK, wmgState, wmgEvent, Labels, Attempt
    <3>2. CbOK' /\ EvtOK' /\ LinkOK' /\ ConfOK' /\ HistOK'
      BY <1>4, <2>1 DEF CreateNetwork, NoEvt, CbOK, EvtOK, LinkOK, ConfOK, HistOK,
         link, hist
    <3> QED
      BY <3>1, <3>2
  <2>2. ASSUME NEW i \in NetIds,
               net' = net \cup {[id |-> i, ssid |-> call.ssid,
                                 key |-> KeyType(call.mgmt), on |-> FALSE]},
               \E j \in AnyId : call' = [call EXCEPT !.new = i, !.old = j],
               Goto("configure"), UNCHANGED <<state, event>>
        PROVE  TypeOK'
    <3>1. [id |-> i, ssid |-> call.ssid, key |-> KeyType(call.mgmt), on |-> FALSE]
            \in Network
      BY DEF ApiOK, CallType, Network, KeyType
    <3>2. ApiOK'
      <4>1. PICK j \in AnyId : call' = [call EXCEPT !.new = i, !.old = j]
        BY <2>2
      <4>2. i \in AnyId
        BY DEF AnyId
      <4>3. call' \in CallType
        BY <4>1, <4>2, CallEdits DEF ApiOK
      <4> QED
        BY <2>2, <4>3 DEF Goto, ApiOK, Labels, Attempt
    <3>4. ConfOK'
      BY <1>4, <2>2, <3>1 DEF CreateNetwork, ConfOK
    <3>3. MgrOK' /\ CbOK' /\ EvtOK' /\ LinkOK' /\ HistOK'
      BY <1>4, <2>2 DEF CreateNetwork, NoMgr, NoEvt, MgrOK, CbOK, EvtOK, LinkOK,
         HistOK, link, hist
    <3> QED
      BY <3>2, <3>3, <3>4
  <2>3. \A n \in Twins : n.id \in AnyId
    BY <1>0 DEF Twins
  <2> QED
    BY <1>0, <1>4, <2>1, <2>2, <2>3 DEF CreateNetwork
<1>5. CASE Configure
  <2>1. ApiOK'
    BY <1>5 DEF Configure, Fail, Finished, Goto, ApiOK, CallType, Labels, Attempt
  <2>2. LinkOK' /\ ConfOK'
    <3>1. CASE RemoveAndSave(call.new)
      BY <3>1, RemoveType
    <3>2. CASE CancelSavedConf(call.new)
      BY <3>2, CancelType
    <3>3. CASE net' \subseteq net /\ UNCHANGED <<saved, unsaved, link>>
      BY <3>3 DEF LinkOK, ConfOK, link
    <3> QED
      BY <1>5, <3>1, <3>2, <3>3 DEF Configure, Without, conf
  <2>3. MgrOK' /\ CbOK' /\ EvtOK' /\ HistOK'
    BY <1>5 DEF Configure, Fail, Set, NoMgr, NoEvt, MgrOK, CbOK, EvtOK, HistOK,
       hist, wmgState, wmgEvent
  <2> QED
    BY <2>1, <2>2, <2>3
<1>6. CASE SelectNew
  <2>1. ApiOK'
    BY <1>6 DEF SelectNew, Fail, Finished, Goto, ApiOK, CallType, Labels, Attempt
  <2>2. LinkOK' /\ ConfOK'
    <3>1. CASE /\ SelectNetwork(call.new)
               /\ IF call.op = "add_network" THEN Saved ELSE UNCHANGED <<saved, unsaved>>
      BY <1>0, <3>1, SelectType DEF ConfOK, Saved
    <3>2. CASE RemoveAndSave(call.new)
      BY <3>2, RemoveType
    <3>3. CASE /\ net' = {[n EXCEPT !.on = FALSE] : n \in Without(net, call.new)}
               /\ SaveConfig
               /\ Leave("scan", NoId)
      <4>1. Without(net, call.new) \in SUBSET Network
        BY DEF Without, ConfOK
      <4> QED
        BY <1>0, <3>3, <4>1, LeaveType, SwitchType, SaveType DEF ConfOK
    <3> QED
      BY <1>6, <3>1, <3>2, <3>3 DEF SelectNew
  <2>3. MgrOK' /\ CbOK' /\ EvtOK' /\ HistOK'
    BY <1>0, <1>6 DEF SelectNew, Fail, Set, NoEvt, MgrOK, CbOK, EvtOK, HistOK,
       hist, wmgState, wmgEvent
  <2> QED
    BY <2>1, <2>2, <2>3
<1>7. CASE SelectExisting
  <2>1. LinkOK' /\ ConfOK'
    BY <1>0, <1>7, SelectType DEF SelectExisting, LinkOK, ConfOK, link
  <2>2. MgrOK' /\ ApiOK' /\ CbOK' /\ EvtOK' /\ HistOK'
    BY <1>0, <1>7, CallEdits DEF SelectExisting, Abandon, Goto, MgrOK, ApiOK, CbOK,
       EvtOK, HistOK, Labels, Attempt
  <2> QED
    BY <2>1, <2>2
<1>8. CASE Reconnect
  <2>1. LinkOK'
    BY <1>0, <1>8, LeaveType DEF Reconnect, LinkOK, link
  <2>2. MgrOK' /\ ApiOK' /\ CbOK' /\ EvtOK' /\ ConfOK' /\ HistOK'
    BY <1>8, CallEdits DEF Reconnect, Abandon, Goto, MgrOK, ApiOK, CbOK, EvtOK,
       ConfOK, HistOK, Labels, Attempt, mgr, conf
  <2> QED
    BY <2>1, <2>2
<1>9. CASE PushButton
  <2>1. LinkOK'
    BY <1>0, <1>9, LeaveType DEF PushButton, LinkOK, link, AnyId
  <2>2. ConfOK'
    <3>1. \A i \in NetIds, s \in Ssids :
            [id |-> i, ssid |-> s, key |-> "WPA-PSK", on |-> TRUE] \in Network
      BY DEF Network
    <3>2. {[n EXCEPT !.on = FALSE] : n \in net} \subseteq Network
      BY SwitchType DEF ConfOK
    <3> QED
      BY <1>9, <3>1, <3>2 DEF PushButton, ConfOK, Saved, conf
  <2>3. MgrOK' /\ ApiOK' /\ CbOK' /\ EvtOK' /\ HistOK'
    BY <1>9, CallEdits DEF PushButton, Abandon, Goto, MgrOK, ApiOK, CbOK, EvtOK,
       HistOK, Labels, Attempt, mgr
  <2> QED
    BY <2>1, <2>2, <2>3
<1>10. CASE WaitConnected
  <2>1. LinkOK' /\ ConfOK'
    BY <1>10, DropType, SaveType DEF WaitConnected, NoLink, LinkOK, ConfOK, Without, link,
       conf
  <2>2. MgrOK' /\ ApiOK' /\ CbOK' /\ EvtOK' /\ HistOK'
    BY <1>0, <1>10 DEF WaitConnected, Finished, Goto, MgrOK, ApiOK, CbOK, EvtOK,
       HistOK, CallType, Labels, Attempt, hist, wmgState
  <2> QED
    BY <2>1, <2>2
<1>11. ASSUME NEW e \in wmgEvent, WaitGivesUp(e), EvtOK'
       PROVE  TypeOK'
  <2>1. LinkOK' /\ ConfOK'
    BY <1>11, CancelType DEF WaitGivesUp, NoLink, LinkOK, ConfOK, link, conf
  <2>2. MgrOK' /\ ApiOK' /\ CbOK' /\ HistOK'
    BY <1>11 DEF WaitGivesUp, Fail, Set, Finished, Goto, MgrOK, ApiOK, CbOK,
       HistOK, CallType, Labels, Attempt, hist, wmgState
  <2> QED
    BY <1>11, <2>1, <2>2
<1>12. CASE WaitFailed
  <2>1. EventOf(Head(evtq)) \in wmgEvent
    BY DEF EventOf, MgrOK, wmgEvent
  <2>2. EvtOK'
    BY <1>0, <1>12 DEF WaitFailed, WaitGivesUp, EvtOK
  <2> QED
    BY <1>11, <1>12, <2>1, <2>2 DEF WaitFailed
<1>13. CASE WaitTimeout
  <2>1. EvtOK'
    BY <1>13 DEF WaitTimeout, WaitGivesUp, EvtOK
  <2>2. "CONNECTED_TIMEOUT" \in wmgEvent
    BY DEF wmgEvent
  <2> QED
    BY <1>11, <1>13, <2>1, <2>2 DEF WaitTimeout
<1>14. CASE WaitError
  BY <1>14 DEF WaitError, Abandon, Finished, Goto, MgrOK, ApiOK, CbOK, EvtOK,
     LinkOK, ConfOK, HistOK, CallType, Labels, Attempt, mgr, link, conf
<1>15. CASE After
  <2>2. call.rest # <<>> => /\ Head(call.rest) \in KeyMgmts
                            /\ Tail(call.rest) \in Seq(KeyMgmts)
    BY HeadTail DEF ApiOK, CallType
  <2>3. ApiOK'
    BY <1>15, <2>2, CallEdits DEF After, NextAttempt, Goto, ApiOK, Labels, Attempt
  <2>4. MgrOK' /\ CbOK' /\ EvtOK' /\ LinkOK' /\ ConfOK' /\ HistOK'
    BY <1>15 DEF After, NoMgr, NoEvt, NoLink, MgrOK, CbOK, EvtOK, LinkOK, ConfOK,
       HistOK, link, conf, hist
  <2> QED
    BY <2>3, <2>4
<1>16. CASE Scan
  <2>1. \A o \in Offers : o \in Seq(KeyMgmts) /\ o # <<>>
    <3>1. /\ <<"NONE">> \in Seq(KeyMgmts) /\ <<"NONE">> # <<>>
          /\ <<"WPA_PSK">> \in Seq(KeyMgmts) /\ <<"WPA_PSK">> # <<>>
          /\ <<"WEP">> \in Seq(KeyMgmts) /\ <<"WEP">> # <<>>
      BY DEF KeyMgmts
    <3>2. <<"WPA_PSK", "WEP">> \in Seq(KeyMgmts)
      BY DEF KeyMgmts
    <3>3. <<"WPA_PSK", "WEP">> # <<>>
      OBVIOUS
    <3> QED
      BY <3>1, <3>2, <3>3 DEF Offers
  <2>2. \A o \in Offers : Head(o) \in KeyMgmts /\ Tail(o) \in Seq(KeyMgmts)
    <3> TAKE o \in Offers
    <3>1. o \in Seq(KeyMgmts) /\ o # <<>>
      BY <2>1
    <3> HIDE DEF Offers
    <3> QED
      BY <3>1, HeadTail
  <2>5. ApiOK'
    <3>1. CASE Fail("NETWORK_NOT_EXIST", "enable")
      BY <3>1, CallEdits DEF Fail, Goto, ApiOK, Labels
    <3>2. ASSUME NEW o \in Offers, Goto("begin"),
                 call' = [call EXCEPT !.mgmt = Head(o), !.rest = Tail(o),
                                      !.first = FALSE]
          PROVE  ApiOK'
      <4>1. call' \in CallType
        BY <2>2, <3>2, CallEdits DEF ApiOK
      <4> QED
        BY <3>2, <4>1 DEF Goto, ApiOK, Labels, Attempt
    <3> QED
      BY <1>16, <3>1, <3>2 DEF Scan
  <2>3. MgrOK'
    BY <1>16 DEF Scan, Fail, Set, NoMgr, MgrOK, wmgState, wmgEvent
  <2>4. CbOK' /\ EvtOK' /\ LinkOK' /\ ConfOK' /\ HistOK'
    BY <1>16 DEF Scan, NoEvt, NoLink, CbOK, EvtOK, LinkOK, ConfOK, HistOK, link,
       conf, hist
  <2> QED
    BY <2>3, <2>4, <2>5
<1>17. ASSUME EnableNetworks
       PROVE  ConfOK'
  BY <1>17, SwitchType, SaveType DEF EnableNetworks, ConfOK, conf
<1>18. CASE EnableAll
  BY <1>17, <1>18 DEF EnableAll, Goto, MgrOK, ApiOK, CbOK, EvtOK, LinkOK, HistOK,
     Labels, Attempt, mgr, link, hist
<1>19. CASE End
  <2>1. ApiOK'
    BY <1>19, NoCallType DEF End, Return, Goto, ApiOK, Labels, Attempt
  <2>2. MgrOK' /\ CbOK' /\ EvtOK' /\ LinkOK' /\ ConfOK' /\ HistOK'
    BY <1>19 DEF End, Notify, Threads, MgrOK, CbOK, EvtOK, LinkOK, ConfOK, HistOK,
       mgr, link, conf, hist
  <2> QED
    BY <2>1, <2>2
<1>20. CASE RemoveMaxNetid
  <2>1. LinkOK' /\ ConfOK'
    BY <1>20, DropType, SaveType DEF RemoveMaxNetid, NoLink, LinkOK, ConfOK, link, conf
  <2>2. MgrOK' /\ ApiOK' /\ CbOK' /\ EvtOK' /\ HistOK'
    BY <1>20 DEF RemoveMaxNetid, Goto, MgrOK, ApiOK, CbOK, EvtOK, HistOK, Labels,
       Attempt, mgr, hist
  <2> QED
    BY <2>1, <2>2
<1>21. CASE EnableAfterWps
  BY <1>17, <1>21, NoCallType DEF EnableAfterWps, Return, MgrOK, ApiOK, CbOK, EvtOK,
     LinkOK, HistOK, Labels, mgr, link, hist
<1>22. CASE Poll
  <2>1. ApiOK'
    BY <1>22, NoCallType DEF Poll, Return, Goto, ApiOK, Labels, Attempt
  <2>2. MgrOK' /\ CbOK' /\ EvtOK' /\ LinkOK' /\ ConfOK' /\ HistOK'
    BY <1>22 DEF Poll, MgrOK, CbOK, EvtOK, LinkOK, ConfOK, HistOK, mgr, link, conf,
       hist
  <2> QED
    BY <2>1, <2>2
<1> QED
  BY <1>1, <1>2, <1>3, <1>4, <1>5, <1>6, <1>7, <1>8, <1>9, <1>10, <1>12, <1>13,
     <1>14, <1>15, <1>16, <1>18, <1>19, <1>20, <1>21, <1>22 DEF ApiStep

\* The callback in either thread.
LEMMA CallbackType ==
  ASSUME TypeOK, NEW t \in Threads, CallbackStep(t)
  PROVE  TypeOK'
<1> USE Parts, PartsNext, ConstantsAssumption
<1>1. /\ UNCHANGED <<enable, handle, netIdConnecting, pc, call>>
      /\ UNCHANGED <<listening, evtq, hist>>
  BY DEF CallbackStep, Callback, StartDhcp, Lease, DhcpDone, DhcpTimeout, NoApi, NoEvt
<1>2. ApiOK' /\ EvtOK' /\ HistOK'
  BY <1>1 DEF ApiOK, EvtOK, HistOK, hist
<1>3. MgrOK'
  BY <1>1 DEF CallbackStep, Callback, StartDhcp, Lease, DhcpDone, DhcpTimeout, Set,
     MgrOK, wmgState, wmgEvent
<1>4. CbOK'
  BY DEF CallbackStep, Callback, StartDhcp, Lease, DhcpDone, DhcpTimeout, Move, CbOK
<1>5. LinkOK' /\ ConfOK'
  <2>1. CASE CancelSavedConf(netIdConnecting)
    BY <2>1, CancelType
  <2>2. CASE NoLink
    BY <2>2 DEF NoLink, LinkOK, ConfOK, link, conf
  <2> QED
    BY <2>1, <2>2 DEF CallbackStep, Callback, StartDhcp, Lease, DhcpDone, DhcpTimeout
<1> QED
  BY <1>2, <1>3, <1>4, <1>5

\* The event thread.
LEMMA EvtStepType ==
  ASSUME TypeOK, EvtStep
  PROVE  TypeOK'
<1> USE Parts, PartsNext, ConstantsAssumption
<1>1. ctrl # <<>> => Tail(ctrl) \in Seq(Reports)
  BY DEF LinkOK
<1>2. \A r \in Reports : Append(evtq, r) \in Seq(Reports)
  BY DEF EvtOK
<1>3. "off" # "call" /\ "evt" \in Threads
  BY DEF Threads
<1>4. CASE EvtConnected
  <2>1. MgrOK' /\ ApiOK' /\ CbOK'
    BY <1>3, <1>4 DEF EvtConnected, Set, Notify, NoApi, MgrOK, ApiOK, CbOK, wmgState,
       wmgEvent
  <2>2. EvtOK' /\ LinkOK' /\ ConfOK' /\ HistOK'
    BY <1>1, <1>2, <1>4 DEF EvtConnected, Handles, Tell, EvtOK, LinkOK, ConfOK,
       HistOK, conf, Reports
  <2> QED
    BY <2>1, <2>2
<1>5. CASE EvtDisconnected
  <2>1. MgrOK' /\ ApiOK' /\ CbOK'
    BY <1>3, <1>5 DEF EvtDisconnected, Set, Notify, NoApi, MgrOK, ApiOK,
       CbOK, wmgState, wmgEvent
  <2>2. EvtOK' /\ LinkOK' /\ ConfOK'
    BY <1>1, <1>2, <1>5 DEF EvtDisconnected, Handles, Tell, EvtOK, LinkOK, ConfOK,
       conf, Reports
  <2>3. (cb["api"] \in {"start", "dhcp", "leased"}) \in BOOLEAN
    OBVIOUS
  <2>4. dropped' \in BOOLEAN
    <3>1. \/ dropped' = (cb["api"] \in {"start", "dhcp", "leased"})
          \/ dropped' = TRUE
      BY <1>5 DEF EvtDisconnected
    <3> QED
      BY <2>3, <3>1
  <2>5. HistOK'
    BY <1>5, <2>4 DEF EvtDisconnected, HistOK
  <2> QED
    BY <2>1, <2>2, <2>5
<1>6. CASE EvtTerminating
  <2>1. MgrOK' /\ ApiOK' /\ CbOK'
    BY <1>3, <1>6 DEF EvtTerminating, Set, Notify, MgrOK, ApiOK, CbOK, wmgState,
       wmgEvent
  <2>2. EvtOK' /\ LinkOK' /\ ConfOK' /\ HistOK'
    BY <1>2, <1>6, EmptyQueue DEF EvtTerminating, Tell, EvtOK, LinkOK, ConfOK,
       HistOK, conf, hist, Reports
  <2> QED
    BY <2>1, <2>2
<1>7. ASSUME NEW r \in Failures, EvtFailure(r)
      PROVE  TypeOK'
  <2>1. r \in Reports
    BY DEF Reports
  <2>2. MgrOK' /\ ApiOK' /\ CbOK' /\ ConfOK' /\ HistOK'
    BY <1>7 DEF EvtFailure, NoApi, MgrOK, ApiOK, CbOK, ConfOK, HistOK, conf, hist
  <2>3. EvtOK'
    BY <1>2, <1>7, <2>1 DEF EvtFailure, Tell, EvtOK
  <2>4. Tail(ctrl) \in Seq(Reports) /\ <<"DISCONNECTED">> \in Seq(Reports)
    BY <1>1, <1>7 DEF EvtFailure, Handles, Reports
  <2>6. Tail(ctrl) \o <<"DISCONNECTED">> \in Seq(Reports)
    BY <2>4
  <2>7. Tail(ctrl) \o <<>> \in Seq(Reports)
    BY <2>4, EmptyQueue
  <2>5. LinkOK'
    BY <1>7, <2>4, <2>6, <2>7 DEF EvtFailure, LinkOK, WpaStates, AnyId
  <2> QED
    BY <2>2, <2>3, <2>5
<1> QED
  BY <1>4, <1>5, <1>6, <1>7 DEF EvtStep

\* The supplicant by itself.
LEMMA SupplicantType ==
  ASSUME TypeOK, Supplicant
  PROVE  TypeOK'
<1> USE Parts, PartsNext, ConstantsAssumption
<1>1. MgrOK' /\ ApiOK' /\ CbOK' /\ EvtOK' /\ HistOK'
  BY DEF Supplicant, SupScan, SupConnect, SupDrop, SupTerminate, SupRestart, SupFail,
     NoManager, MgrOK, ApiOK, CbOK, EvtOK, HistOK, mgr, hist
<1>2. ConfOK'
  BY DEF Supplicant, SupScan, SupConnect, SupDrop, SupTerminate, SupRestart, SupFail,
     ConfOK, conf
<1>3. /\ {"scan", "assoc"} \subseteq WpaStates /\ NoId \in AnyId
      /\ \A n \in net : n.id \in AnyId
  BY DEF WpaStates, AnyId, ConfOK, Network
<1>4. LinkOK'
  <2>1. CASE SupScan
    BY <1>3, <2>1, LeaveType DEF SupScan
  <2>2. CASE SupDrop
    BY <1>3, <2>2, LeaveType DEF SupDrop
  <2>3. CASE SupConnect
    BY <2>3, ReportType DEF SupConnect, LinkOK, WpaStates, Reports
  <2>4. CASE SupTerminate
    BY <2>4, ReportType DEF SupTerminate, LinkOK, WpaStates, AnyId, Reports
  <2>5. CASE SupRestart
    BY <2>5 DEF SupRestart, LinkOK, WpaStates
  <2>6. ASSUME NEW r \in Failures, SupFail(r)
        PROVE  LinkOK'
    BY <1>3, <2>6, ReportType DEF SupFail, LinkOK, Reports
  <2> QED
    BY <2>1, <2>2, <2>3, <2>4, <2>5, <2>6 DEF Supplicant
<1> QED
  BY <1>1, <1>2, <1>4

\* Every variable of the manager and of the supplicant keeps its type, whatever
\* the calls, their order and the reports.
THEOREM TypeCorrect == Spec => []TypeOK
<1>1. Init => TypeOK
  <2>1. SUFFICES ASSUME Init
                 PROVE  TypeOK
    OBVIOUS
  <2>2. MgrOK /\ ApiOK /\ CbOK
    BY <2>1, NoCallType DEF Init, MgrOK, ApiOK, CbOK, wmgState, wmgEvent, AnyId, Labels
  <2>3. EvtOK /\ HistOK
    BY <2>1, EmptyQueue DEF Init, EvtOK, HistOK
  <2>4. ConfOK
    BY <2>1, ConstantsAssumption DEF Init, ConfOK
  <2>5. LinkOK
    BY <2>1, EmptyQueue, ConstantsAssumption DEF Init, LinkOK, WpaStates, AnyId, Ids,
       Network
  <2> QED
    BY <2>2, <2>3, <2>4, <2>5, Parts
<1>2. TypeOK /\ [Next]_vars => TypeOK'
  <2>1. SUFFICES ASSUME TypeOK, [Next]_vars
                 PROVE  TypeOK'
    OBVIOUS
  <2>2. CASE UNCHANGED vars
    BY <2>1, <2>2, Parts, PartsNext DEF vars, mgr, link, conf, hist, MgrOK, ApiOK,
       CbOK, EvtOK, LinkOK, ConfOK, HistOK
  <2>3. CASE Next
    BY <2>1, <2>3, ApplicationType, ApiStepType, EvtStepType, SupplicantType,
       CallbackType DEF Next
  <2> QED
    BY <2>1, <2>2, <2>3
<1> QED
  BY <1>1, <1>2, PTL DEF Spec

(***************************************************************************)
(* Whose work a busy state is.                                             *)
(***************************************************************************)

\* A state CONNECTING comes with an attempt or with aw_wifi_on under way, or is
\* one that was left behind; a state OBTAINING_IP comes with a DHCP client.
BusyInv ==
  /\ state = "CONNECTING" => stuck \/ ~handle \/ pc \in Attempt \cup {"status"}
  /\ state = "OBTAINING_IP" => \E t \in Threads : cb[t] \in {"dhcp", "leased"}

LEMMA BusyImplies == BusyInv => BusyIsSomeonesWork
BY DEF BusyInv, BusyIsSomeonesWork, Quiet, Attempt, Threads

\* Writing a callback request for a thread that is in none stops no DHCP client.
LEMMA NotifyKeeps ==
  ASSUME CbOK, NEW t \in Threads, cb[t] = "off", Notify(t) \/ UNCHANGED cb,
         \E u \in Threads : cb[u] \in {"dhcp", "leased"}
  PROVE  \E u \in Threads : cb'[u] \in {"dhcp", "leased"}
BY DEF CbOK, Notify

LEMMA ApplicationBusy ==
  ASSUME TypeOK, BusyInv, Application
  PROVE  BusyInv'
<1>1. CASE TurnOn
  BY <1>1 DEF TurnOn, Goto, Set, BusyInv
<1>2. CASE TurnOff
  BY <1>2 DEF TurnOff, Set, BusyInv
<1>3. CASE ConnectApAuto
  BY <1>3 DEF ConnectApAuto, Set, busy, BusyInv
<1>4. CASE WpsPbc
  BY <1>4 DEF WpsPbc, RefuseBusy, Set, busy, BusyInv
<1>5. CASE DisconnectAp
  BY <1>5 DEF DisconnectAp, busy, BusyInv
<1>6. CASE RemoveNetworks
  BY <1>6 DEF RemoveNetworks, busy, BusyInv
<1>7. ASSUME NEW i \in NetIds, ConnectApWithNetid(i)
      PROVE  BusyInv'
  BY <1>7 DEF ConnectApWithNetid, RefuseBusy, Set, busy, BusyInv
<1>8. ASSUME NEW ssid \in Ssids, NEW pass \in Passwords, ConnectAp(ssid, pass)
      PROVE  BusyInv'
  BY <1>8 DEF ConnectAp, RefuseBusy, Set, busy, BusyInv
<1>9. ASSUME NEW ssid \in Ssids, NEW pass \in Passwords, NEW mgmt \in KeyMgmts,
             ConnectApKeyMgmt(ssid, mgmt, pass)
      PROVE  BusyInv'
  BY <1>9 DEF ConnectApKeyMgmt, RefuseBusy, Set, busy, BusyInv
<1>10. ASSUME NEW ssid \in Ssids, NEW pass \in Passwords, NEW mgmt \in KeyMgmts,
              AddNetwork(ssid, mgmt, pass)
       PROVE  BusyInv'
  BY <1>10 DEF AddNetwork, RefuseBusy, Set, busy, BusyInv
<1> QED
  BY <1>1, <1>2, <1>3, <1>4, <1>5, <1>6, <1>7, <1>8, <1>9, <1>10, ConstantsAssumption
  DEF Application

LEMMA ApiStepBusy ==
  ASSUME TypeOK, BusyInv, ApiStep
  PROVE  BusyInv'
<1>0. CbOK /\ "api" \in Threads
  BY Parts DEF Threads
<1>1. CASE ReadStatus
  <2>1. state' = "CONNECTING" => stuck' \/ ~handle'
    BY <1>1 DEF ReadStatus
  <2>2. state' = "OBTAINING_IP" => state = "OBTAINING_IP" /\ UNCHANGED cb
    BY <1>1 DEF ReadStatus
  <2> QED
    BY <2>1, <2>2 DEF BusyInv
<1>2. CASE Begin
  BY <1>2 DEF Begin, Set, Goto, BusyInv, Attempt
<1>3. CASE ClearEvtSocket
  <2>1. state' = state /\ pc' \in Attempt
    BY <1>3 DEF ClearEvtSocket, Goto, mgr, Attempt
  <2>2. cb["api"] = "off" /\ (Notify("api") \/ UNCHANGED cb)
    BY <1>3 DEF ClearEvtSocket, At
  <2> QED
    BY <1>0, <2>1, <2>2, NotifyKeeps DEF BusyInv
<1>4. CASE CreateNetwork
  BY <1>4 DEF CreateNetwork, Fail, Set, Goto, NoMgr, NoEvt, hist, BusyInv, Attempt
<1>5. CASE Configure
  BY <1>5 DEF Configure, Fail, Set, Goto, NoMgr, NoEvt, hist, BusyInv, Attempt
<1>6. CASE SelectNew
  BY <1>6 DEF SelectNew, Fail, Set, Goto, NoEvt, hist, BusyInv, Attempt
<1>7. CASE SelectExisting
  BY <1>7 DEF SelectExisting, Abandon, Goto, BusyInv, Attempt
<1>8. CASE Reconnect
  BY <1>8 DEF Reconnect, Abandon, Goto, mgr, BusyInv, Attempt
<1>9. CASE PushButton
  BY <1>9 DEF PushButton, Abandon, Goto, mgr, BusyInv, Attempt
<1>10. CASE WaitConnected
  BY <1>10 DEF WaitConnected, BusyInv
<1>11. CASE WaitFailed \/ WaitTimeout
  BY <1>11 DEF WaitFailed, WaitTimeout, WaitGivesUp, Fail, Set, BusyInv
<1>12. CASE WaitError
  BY <1>12 DEF WaitError, Abandon, mgr, BusyInv
<1>13. CASE After
  BY <1>13 DEF After, At, NoMgr, NoEvt, hist, Goto, BusyInv, Attempt
<1>14. CASE Scan
  BY <1>14 DEF Scan, Fail, Set, At, NoMgr, NoEvt, hist, Goto, BusyInv, Attempt
<1>15. CASE EnableAll \/ EnableAfterWps \/ RemoveMaxNetid \/ Poll
  <2>1. UNCHANGED <<state, handle, cb, stuck>> /\ pc \notin Attempt \cup {"status"}
    BY <1>15 DEF EnableAll, EnableAfterWps, RemoveMaxNetid, Poll, At, mgr, hist, Attempt
  <2> QED
    BY <2>1 DEF BusyInv
<1>16. CASE End
  <2>1. UNCHANGED <<state, handle, stuck>> /\ pc \notin Attempt \cup {"status"}
    BY <1>16 DEF End, At, mgr, hist, Attempt
  <2>2. cb["api"] = "off" /\ Notify("api")
    BY <1>16 DEF End, At
  <2> QED
    BY <1>0, <2>1, <2>2, NotifyKeeps DEF BusyInv
<1> QED
  BY <1>1, <1>2, <1>3, <1>4, <1>5, <1>6, <1>7, <1>8, <1>9, <1>10, <1>11, <1>12,
     <1>13, <1>14, <1>15, <1>16 DEF ApiStep

LEMMA CallbackBusy ==
  ASSUME TypeOK, BusyInv, NEW t \in Threads, CallbackStep(t)
  PROVE  BusyInv'
<1>0. CbOK
  BY Parts
<1>1. UNCHANGED <<handle, pc, stuck>>
  BY DEF CallbackStep, Callback, StartDhcp, Lease, DhcpDone, DhcpTimeout, NoApi, NoEvt,
     hist
<1>2. CASE Callback(t)
  BY <1>0, <1>1, <1>2 DEF Callback, In, Move, CbOK, BusyInv
<1>3. CASE StartDhcp(t)
  BY <1>0, <1>1, <1>3 DEF StartDhcp, Set, Move, CbOK, BusyInv
<1>4. CASE Lease(t)
  BY <1>0, <1>1, <1>4 DEF Lease, In, Move, CbOK, BusyInv
<1>5. CASE DhcpDone(t) \/ DhcpTimeout(t)
  BY <1>1, <1>5 DEF DhcpDone, DhcpTimeout, Set, BusyInv
<1> QED
  BY <1>2, <1>3, <1>4, <1>5 DEF CallbackStep

LEMMA EvtStepBusy ==
  ASSUME TypeOK, BusyInv, EvtStep
  PROVE  BusyInv'
<1>1. UNCHANGED <<handle, pc, stuck>>
  BY DEF EvtStep, EvtConnected, EvtDisconnected, EvtTerminating, EvtFailure, NoApi, hist
<1>2. \/ state' \in {"CONNECTED", "DISCONNECTED"}
      \/ UNCHANGED <<state, cb>>
  BY DEF EvtStep, EvtConnected, EvtDisconnected, EvtTerminating, EvtFailure, Set
<1> QED
  BY <1>1, <1>2 DEF BusyInv

\* The busy states, which refuse every call that would change the network, are
\* always some thread's work, whatever the interleaving: only the returns from
\* CONNECTING that undo nothing, and aw_wifi_on during a handshake, leave one.
THEOREM BusyCorrect == Spec => []BusyIsSomeonesWork
<1>1. Init => BusyInv
  BY DEF Init, BusyInv
<1>2. TypeOK /\ BusyInv /\ [Next]_vars => BusyInv'
  <2>1. SUFFICES ASSUME TypeOK, BusyInv, [Next]_vars
                 PROVE  BusyInv'
    OBVIOUS
  <2>2. CASE UNCHANGED vars
    BY <2>1, <2>2 DEF vars, mgr, hist, BusyInv
  <2>3. CASE Supplicant
    BY <2>1, <2>3 DEF Supplicant, SupScan, SupConnect, SupDrop, SupTerminate,
       SupRestart, SupFail, NoManager, mgr, hist, BusyInv
  <2> QED
    BY <2>1, <2>2, <2>3, ApplicationBusy, ApiStepBusy, EvtStepBusy, CallbackBusy
       DEF Next
<1> QED
  BY <1>1, <1>2, TypeCorrect, BusyImplies, PTL DEF Spec

(***************************************************************************)
(* Why a state that says connected is true.                                *)
(***************************************************************************)

Losses == {"DISCONNECTED", "TERMINATING"}

\* A report of a loss is among the reports s.
LossIn(s) == \E i \in 1..Len(s) : s[i] \in Losses

\* Every CONNECTED among them is followed by one.
Followed(s) ==
  \A i \in 1..Len(s) :
    s[i] = "CONNECTED" => \E j \in 1..Len(s) : i < j /\ s[j] \in Losses

\* The link is up, or its loss is known or still to be read.
Real == wpa = "up" \/ dropped \/ LossIn(ctrl)

\* An attempt is under way that has a CONNECTED of its own to read.
Told ==
  /\ enable /\ pc \in Attempt \ {"begin"} /\ call.stale = 0
  /\ \E i \in 1..Len(evtq) : evtq[i] = "CONNECTED"

Late == {"start", "dhcp", "leased"}

\* The parts of the invariant: who listens; a link that is down has been told of;
\* the API thread ends its DHCP client before it begins an attempt; a CONNECTED
\* that waits for an attempt, a state that says connected and a DHCP client that
\* is about to say so each have their reason.
ListenOK == (enable <=> listening) /\ (~listening => ctrl = <<>>)
LinkTold == wpa # "up" => Followed(ctrl)
ApiLate == cb["api"] \in Late => state # "CONNECTING"
ToldReal == Told => state = "CONNECTING" /\ cb["evt"] = "off" /\ Real
UpReal == enable /\ Up => Real
LeasedReal == \A t \in Threads : enable /\ cb[t] = "leased" => Real

UpInv == ListenOK /\ LinkTold /\ ApiLate /\ ToldReal /\ UpReal /\ LeasedReal

\* What a report at the end, or the head taken off, means for such a queue.
LEMMA AppendReport ==
  ASSUME NEW s \in Seq(Reports), NEW r \in Reports
  PROVE  /\ LossIn(s) => LossIn(Append(s, r))
         /\ r \in Losses => LossIn(Append(s, r)) /\ Followed(Append(s, r))
         /\ Followed(s) /\ r # "CONNECTED" => Followed(Append(s, r))
<1>1. /\ Len(Append(s, r)) = Len(s) + 1 /\ Len(s) \in Nat
      /\ Append(s, r)[Len(s) + 1] = r
      /\ \A i \in 1..Len(s) : Append(s, r)[i] = s[i]
  OBVIOUS
<1> DEFINE q == Append(s, r)
<1> HIDE DEF q
<1>2. /\ Len(q) = Len(s) + 1 /\ Len(s) \in Nat
      /\ q[Len(s) + 1] = r
      /\ \A i \in 1..Len(s) : q[i] = s[i]
  BY <1>1 DEF q
<1>3. LossIn(s) => LossIn(q)
  BY <1>2 DEF LossIn
<1>4. r \in Losses => LossIn(q)
  BY <1>2 DEF LossIn
<1>5. r \in Losses => Followed(q)
  BY <1>2 DEF Followed, Losses
<1>6. Followed(s) /\ r # "CONNECTED" => Followed(q)
  <2> SUFFICES ASSUME Followed(s), r # "CONNECTED", NEW i \in 1..Len(q), q[i] = "CONNECTED"
               PROVE  \E j \in 1..Len(q) : i < j /\ q[j] \in Losses
    BY DEF Followed
  <2>1. i \in 1..Len(s) /\ s[i] = "CONNECTED"
    BY <1>2
  <2>2. PICK j \in 1..Len(s) : i < j /\ s[j] \in Losses
    BY <2>1 DEF Followed
  <2> QED
    BY <1>2, <2>2
<1> QED
  BY <1>3, <1>4, <1>5, <1>6 DEF q

LEMMA TailReport ==
  ASSUME NEW s \in Seq(Reports), s # <<>>
  PROVE  /\ Followed(s) => Followed(Tail(s))
         /\ Followed(s) /\ Head(s) = "CONNECTED" => LossIn(Tail(s))
         /\ LossIn(s) /\ Head(s) \notin Losses => LossIn(Tail(s))
<1> DEFINE q == Tail(s)
<1>1. /\ Len(s) \in Nat \ {0} /\ Len(q) = Len(s) - 1
      /\ Head(s) = s[1]
      /\ \A i \in 1..Len(q) : q[i] = s[i + 1]
  OBVIOUS
<1> HIDE DEF q
<1>2. \A i \in 1..Len(s) : i # 1 => i - 1 \in 1..Len(q) /\ q[i - 1] = s[i]
  BY <1>1
<1>3. Followed(s) => Followed(q)
  <2> SUFFICES ASSUME Followed(s), NEW i \in 1..Len(q), q[i] = "CONNECTED"
               PROVE  \E j \in 1..Len(q) : i < j /\ q[j] \in Losses
    BY DEF Followed
  <2>1. i + 1 \in 1..Len(s) /\ s[i + 1] = "CONNECTED"
    BY <1>1
  <2>2. PICK j \in 1..Len(s) : i + 1 < j /\ s[j] \in Losses
    BY <2>1 DEF Followed
  <2> QED
    BY <1>1, <1>2, <2>2
<1>4. Followed(s) /\ Head(s) = "CONNECTED" => LossIn(q)
  <2> SUFFICES ASSUME Followed(s), s[1] = "CONNECTED"
               PROVE  LossIn(q)
    BY <1>1
  <2>1. PICK j \in 1..Len(s) : 1 < j /\ s[j] \in Losses
    BY <1>1 DEF Followed
  <2> QED
    BY <1>2, <2>1 DEF LossIn
<1>5. LossIn(s) /\ Head(s) \notin Losses => LossIn(q)
  BY <1>1, <1>2 DEF LossIn
<1> QED
  BY <1>3, <1>4, <1>5 DEF q

\* A step that changes only the link, as the commands do, keeps what is said of it.
LinkKept ==
  /\ LinkTold' /\ (~listening => ctrl' = <<>>)
  /\ enable /\ (wpa = "up" \/ LossIn(ctrl)) => wpa' = "up" \/ LossIn(ctrl')

\* A link that stays, that goes, and that the commands of the manager change.
LEMMA UnchangedKept ==
  ASSUME ListenOK, LinkTold, UNCHANGED link
  PROVE  LinkKept
BY DEF ListenOK, LinkTold, LinkKept, link

LEMMA LeaveKept ==
  ASSUME LinkOK, ListenOK, LinkTold, NEW s, s # "up", NEW c, Leave(s, c)
  PROVE  LinkKept
<1>1. ctrl \in Seq(Reports) /\ "DISCONNECTED" \in Reports /\ "DISCONNECTED" \in Losses
  BY DEF LinkOK, Reports, Losses
<1>2. CASE wpa = "up" /\ listening
  BY <1>1, <1>2, AppendReport DEF Leave, Report, LinkKept, LinkTold, ListenOK
<1>3. CASE wpa = "up" /\ ~listening
  <2>1. ctrl' = ctrl /\ ctrl = <<>> /\ ~enable
    BY <1>3 DEF Leave, Report, ListenOK
  <2>2. Followed(ctrl)
    BY <2>1 DEF Followed
  <2> QED
    BY <1>3, <2>1, <2>2 DEF LinkKept, LinkTold
<1>4. CASE wpa # "up"
  BY <1>4 DEF Leave, LinkKept, LinkTold, ListenOK
<1> QED
  BY <1>2, <1>3, <1>4

LEMMA CommandsKeep ==
  ASSUME LinkOK, ListenOK, LinkTold
  PROVE  /\ \A gone : Drop(gone) => LinkKept
         /\ \A i : RemoveAndSave(i) \/ CancelSavedConf(i) \/ SelectNetwork(i) => LinkKept
<1>1. ASSUME NEW gone, Drop(gone)
      PROVE  LinkKept
  BY <1>1, LeaveKept, UnchangedKept DEF Drop
<1>2. ASSUME UNCHANGED <<conf, link>>
      PROVE  LinkKept
  BY <1>2, UnchangedKept
<1>3. ASSUME NEW i, RemoveAndSave(i)
      PROVE  LinkKept
  BY <1>1, <1>2, <1>3 DEF RemoveAndSave
<1>4. ASSUME NEW i, CancelSavedConf(i)
      PROVE  LinkKept
  BY <1>2, <1>4, LeaveKept DEF CancelSavedConf
<1>5. ASSUME NEW i, SelectNetwork(i)
      PROVE  LinkKept
  BY <1>5, LeaveKept, UnchangedKept DEF SelectNetwork
<1> QED
  BY <1>1, <1>3, <1>4, <1>5

\* A step of the API thread that says connected of nothing and begins no attempt.
LEMMA ModestStep ==
  ASSUME UpInv, LinkKept, CbOK, UNCHANGED <<enable, listening, dropped>>,
         state' = state \/ state' = "DISCONNECTED",
         cb' = cb \/ (cb["api"] = "off" /\ Notify("api")),
         pc' \in Attempt \ {"begin"} =>
           /\ pc \in Attempt \ {"begin"} /\ call'.stale = call.stale
           /\ state' = state /\ cb' = cb /\ evtq' = evtq
  PROVE  UpInv'
<1>1. enable /\ Real => Real'
  BY DEF Real, LinkKept
<1>2. \A t \in Threads : cb'[t] \in Late => cb[t] = cb'[t]
  BY DEF CbOK, Notify, Late, Threads
<1>3. ListenOK' /\ LinkTold'
  BY DEF UpInv, ListenOK, LinkKept
<1>4. ApiLate'
  BY <1>2 DEF UpInv, ApiLate, Threads
<1>5. ToldReal'
  BY <1>1 DEF UpInv, ToldReal, Told
<1>6. UpReal'
  BY <1>1 DEF UpInv, UpReal, Up
<1>7. LeasedReal'
  BY <1>1, <1>2 DEF UpInv, LeasedReal, Late
<1> QED
  BY <1>3, <1>4, <1>5, <1>6, <1>7 DEF UpInv

\* The entries of the calls.
LEMMA ApplicationUp ==
  ASSUME TypeOK, UpInv, Application
  PROVE  UpInv'
<1>0. CbOK /\ LinkOK /\ "api" \in Threads
  BY Parts DEF Threads
<1>1. CASE TurnOn
  <2>1. /\ UNCHANGED <<call, cb, link>> /\ cb["api"] = "off"
        /\ state' = "CONNECTING" /\ pc' \notin Attempt
        /\ \/ UNCHANGED <<enable, listening, dropped>>
           \/ /\ enable' = TRUE /\ listening' = TRUE
              /\ dropped' = (dropped \/ (cb["evt"] = "leased" /\ wpa # "up"))
    BY <1>1 DEF TurnOn, At, Set, Goto, Attempt, hist
  <2>2. ListenOK' /\ LinkTold'
    BY <2>1 DEF UpInv, ListenOK, LinkTold, link
  <2>3. ApiLate' /\ ToldReal' /\ UpReal'
    BY <2>1 DEF ApiLate, Late, ToldReal, Told, UpReal, Up
  <2>4. LeasedReal'
    <3>1. CASE UNCHANGED <<enable, listening, dropped>>
      BY <2>1, <3>1 DEF UpInv, LeasedReal, Real, link
    <3>2. CASE dropped' = (dropped \/ (cb["evt"] = "leased" /\ wpa # "up"))
      <4>1. cb["evt"] = "leased" => Real'
        BY <2>1, <3>2 DEF Real, link
      <4> QED
        BY <2>1, <4>1 DEF LeasedReal, Threads
    <3> QED
      BY <2>1, <3>1, <3>2
  <2> QED
    BY <2>2, <2>3, <2>4 DEF UpInv
<1>2. CASE TurnOff
  <2>1. /\ ~enable' /\ ~listening' /\ ctrl' = <<>> /\ state' # "CONNECTING"
    BY <1>2 DEF TurnOff, Set
  <2> QED
    BY <2>1 DEF UpInv, ListenOK, LinkTold, Followed, ApiLate, ToldReal, Told, UpReal,
       LeasedReal
<1>3. CASE ConnectApAuto
  <2>1. CASE wpa = "up"
    <3>1. /\ UNCHANGED <<enable, listening, evtq, link, hist, pc, call>>
          /\ pc = "idle" /\ state' = "CONNECTED" /\ Notify("api") /\ cb["api"] = "off"
      BY <1>3, <2>1 DEF ConnectApAuto, Entering, At, Set, NoMgr, NoEvt, NoLink
    <3>2. Real'
      BY <2>1, <3>1 DEF Real, link
    <3> QED
      BY <1>0, <3>1, <3>2 DEF UpInv, ListenOK, LinkTold, ApiLate, ToldReal, Told, UpReal,
         LeasedReal, Attempt, link
  <2>2. CASE wpa # "up"
    BY <1>0, <1>3, <2>2, ModestStep, UnchangedKept
    DEF ConnectApAuto, UpInv, Goto, NoMgr, NoEvt, NoLink, hist, Attempt
  <2> QED
    BY <2>1, <2>2
<1>4. CASE WpsPbc
  BY <1>0, <1>4, ModestStep, UnchangedKept DEF WpsPbc, Entering, At, RefuseBusy, UpInv,
     Set, Goto, NoMgr, NoEvt, NoLink, hist, Attempt
<1>5. CASE DisconnectAp
  BY <1>0, <1>5, ModestStep, LeaveKept DEF DisconnectAp, UpInv, Goto, NoMgr, NoEvt, hist,
     Attempt
<1>6. CASE RemoveNetworks
  <2>1. LinkKept
    BY <1>0, <1>6, CommandsKeep DEF RemoveNetworks, UpInv
  <2> QED
    BY <1>0, <1>6, <2>1, ModestStep DEF RemoveNetworks, Entering, At, NoMgr, NoEvt, hist,
       Attempt
<1>7. ASSUME NEW i \in NetIds, ConnectApWithNetid(i)
      PROVE  UpInv'
  <2>1. LinkKept
    BY <1>0, <1>7, LeaveKept, UnchangedKept DEF ConnectApWithNetid, UpInv
  <2> QED
    BY <1>0, <1>7, <2>1, ModestStep DEF ConnectApWithNetid, Entering, At, RefuseBusy, Set,
       Goto, NoMgr, NoEvt, hist, Attempt
<1>8. ASSUME NEW ssid \in Ssids, NEW pass \in Passwords, ConnectAp(ssid, pass)
      PROVE  UpInv'
  BY <1>0, <1>8, ModestStep, UnchangedKept DEF ConnectAp, Entering, At, RefuseBusy, UpInv,
     Set, Goto, NoMgr, NoEvt, NoLink, hist, Attempt
<1>9. ASSUME NEW ssid \in Ssids, NEW pass \in Passwords, NEW mgmt \in KeyMgmts,
             ConnectApKeyMgmt(ssid, mgmt, pass)
      PROVE  UpInv'
  BY <1>0, <1>9, ModestStep, UnchangedKept DEF ConnectApKeyMgmt, Entering, At, RefuseBusy,
     UpInv, Set, Goto, NoMgr, NoEvt, NoLink, hist, Attempt
<1>10. ASSUME NEW ssid \in Ssids, NEW pass \in Passwords, NEW mgmt \in KeyMgmts,
              AddNetwork(ssid, mgmt, pass)
       PROVE  UpInv'
  BY <1>0, <1>10, ModestStep, UnchangedKept DEF AddNetwork, Entering, At, RefuseBusy, UpInv,
     Set, Goto, NoMgr, NoEvt, NoLink, hist, Attempt
<1> QED
  BY <1>1, <1>2, <1>3, <1>4, <1>5, <1>6, <1>7, <1>8, <1>9, <1>10, ConstantsAssumption
  DEF Application

\* The steps of a call: only CONNECTED of wait_event and aw_wifi_on claim a link.
LEMMA ApiStepUp ==
  ASSUME TypeOK, UpInv, ApiStep
  PROVE  UpInv'
<1>0. CbOK /\ LinkOK /\ ListenOK /\ LinkTold /\ call \in CallType /\ EvtOK
  BY Parts DEF UpInv, ApiOK
<1>1. CASE ReadStatus
  <2>1. /\ UNCHANGED <<enable, listening, evtq, call, wpa, cur, ctrl, dropped>>
        /\ cb["api"] = "off" /\ pc' \notin Attempt
        /\ cb' = cb \/ Notify("api")
        /\ state' \in {state, "CONNECTING", "DISCONNECTED"} \/ wpa = "up"
    BY <1>1 DEF ReadStatus, StatusCompleted, At, Goto, NoLink, link, Attempt
  <2>2. Real => Real'
    BY <2>1 DEF Real
  <2>3. \A t \in Threads : cb'[t] \in Late => cb[t] = cb'[t] /\ t # "api"
    BY <1>0, <2>1 DEF CbOK, Notify, Late, Threads
  <2>4. wpa = "up" => Real'
    BY <2>1 DEF Real
  <2>5. LeasedReal'
    BY <2>1, <2>2, <2>3 DEF UpInv, LeasedReal, Late
  <2>6. ApiLate' /\ ToldReal'
    BY <2>1, <2>3 DEF ApiLate, ToldReal, Told, Threads
  <2>7. UpReal'
    BY <2>1, <2>2, <2>4 DEF UpInv, UpReal, Up
  <2> QED
    BY <2>1, <2>5, <2>6, <2>7 DEF UpInv, ListenOK, LinkTold
<1>2. CASE Begin
  <2>1. /\ UNCHANGED <<enable, listening, evtq, wpa, cur, ctrl, dropped>>
        /\ cb["api"] = "off" /\ Notify("api") /\ state' = "CONNECTING"
        /\ call'.stale = Len(evtq)
    BY <1>0, <1>2 DEF Begin, At, Set, NoMgr, NoLink, link, CallType
  <2>2. ~Told'
    BY <1>0, <2>1 DEF Told, EvtOK
  <2>3. Real => Real'
    BY <2>1 DEF Real
  <2>4. \A t \in Threads : cb'[t] \in Late => cb[t] = cb'[t] /\ t # "api"
    BY <1>0, <2>1 DEF CbOK, Notify, Late, Threads
  <2> QED
    BY <1>0, <2>1, <2>2, <2>3, <2>4 DEF UpInv, ListenOK, LinkTold, ApiLate, ToldReal,
       UpReal, Up, LeasedReal, Late, Threads
<1>3. CASE ClearEvtSocket
  <2>1. /\ UNCHANGED <<state, enable, listening, wpa, cur, ctrl, dropped>>
        /\ cb["api"] = "off" /\ (cb' = cb \/ Notify("api")) /\ evtq' = <<>>
    BY <1>3 DEF ClearEvtSocket, At, mgr, link, hist
  <2>2. ~Told'
    BY <2>1 DEF Told
  <2>3. Real => Real'
    BY <2>1 DEF Real
  <2>4. \A t \in Threads : cb'[t] \in Late => cb[t] = cb'[t] /\ t # "api"
    BY <1>0, <2>1 DEF CbOK, Notify, Late, Threads
  <2> QED
    BY <1>0, <2>1, <2>2, <2>3, <2>4 DEF UpInv, ListenOK, LinkTold, ApiLate, ToldReal,
       UpReal, Up, LeasedReal, Late, Threads
<1>4. CASE CreateNetwork
  BY <1>0, <1>4, ModestStep, UnchangedKept DEF CreateNetwork, At, Fail, Set, Finished, Goto,
     NoMgr, NoEvt, hist, Attempt, CallType
<1>5. CASE Configure
  <2>1. LinkKept
    BY <1>0, <1>5, CommandsKeep, UnchangedKept DEF Configure
  <2> QED
    BY <1>0, <1>5, <2>1, ModestStep DEF Configure, At, Fail, Set, Finished, Goto,
       NoMgr, NoEvt, hist, Attempt, CallType
<1>6. CASE SelectNew
  <2>1. LinkKept
    BY <1>0, <1>6, CommandsKeep, LeaveKept DEF SelectNew
  <2> QED
    BY <1>0, <1>6, <2>1, ModestStep DEF SelectNew, At, Fail, Set, Finished, Goto,
       NoMgr, NoEvt, hist, Attempt, CallType
<1>7. CASE SelectExisting
  <2>1. LinkKept
    BY <1>0, <1>7, CommandsKeep, UnchangedKept DEF SelectExisting
  <2> QED
    BY <1>0, <1>7, <2>1, ModestStep DEF SelectExisting, At, Abandon, Goto, Attempt, CallType
<1>8. CASE Reconnect
  <2>1. LinkKept
    BY <1>0, <1>8, LeaveKept, UnchangedKept DEF Reconnect
  <2> QED
    BY <1>0, <1>8, <2>1, ModestStep DEF Reconnect, At, Abandon, Goto, mgr, Attempt, CallType
<1>9. CASE PushButton
  <2>1. LinkKept
    BY <1>0, <1>9, LeaveKept, UnchangedKept DEF PushButton
  <2> QED
    BY <1>0, <1>9, <2>1, ModestStep DEF PushButton, At, Abandon, Goto, mgr, Attempt, CallType
<1>10. CASE WaitConnected
  <2>1. LinkKept
    BY <1>0, <1>10, CommandsKeep, UnchangedKept DEF WaitConnected, NoLink
  <2>2. /\ UNCHANGED <<enable, listening, cb>> /\ state' = "CONNECTED"
        /\ dropped' = (dropped \/ call.stale # 0) /\ pc = "wait"
        /\ evtq # <<>> /\ Head(evtq) = "CONNECTED" /\ pc' \notin Attempt
    BY <1>10 DEF WaitConnected, At, IsConnected, Finished, Goto, Attempt
  <2>3. enable => Real \/ call.stale # 0
    <3>1. evtq # <<>> => 1 \in 1..Len(evtq) /\ Head(evtq) = evtq[1]
      BY <1>0 DEF EvtOK
    <3> QED
      BY <2>2, <3>1 DEF UpInv, ToldReal, Told, Attempt
  <2>4. enable => Real'
    BY <2>1, <2>2, <2>3 DEF Real, LinkKept
  <2>5. ListenOK' /\ LinkTold' /\ ApiLate'
    BY <1>0, <2>1, <2>2 DEF ListenOK, LinkKept, ApiLate
  <2>6. ToldReal' /\ UpReal' /\ LeasedReal'
    BY <2>2, <2>4 DEF ToldReal, Told, UpReal, LeasedReal
  <2> QED
    BY <2>5, <2>6 DEF UpInv
<1>11. CASE WaitFailed \/ WaitTimeout
  <2>1. PICK e : WaitGivesUp(e)
    BY <1>11 DEF WaitFailed, WaitTimeout
  <2>2. LinkKept
    BY <1>0, <2>1, CommandsKeep, UnchangedKept DEF WaitGivesUp, NoLink
  <2> QED
    BY <1>0, <2>1, <2>2, ModestStep DEF WaitGivesUp, Fail, Set, Finished, Goto, hist,
       Attempt
<1>12. CASE WaitError
  BY <1>0, <1>12, ModestStep, UnchangedKept DEF WaitError, Abandon, Finished, Goto, mgr,
     Attempt
<1>13. CASE After
  BY <1>0, <1>13, ModestStep, UnchangedKept DEF After, Goto, NoMgr, NoEvt, NoLink, hist,
     Attempt
<1>14. CASE Scan
  BY <1>0, <1>14, ModestStep, UnchangedKept DEF Scan, Fail, Set, Goto, NoMgr, NoEvt, NoLink,
     hist, Attempt
<1>15. CASE EnableAll
  BY <1>0, <1>15, ModestStep, UnchangedKept DEF EnableAll, Goto, mgr, hist, Attempt
<1>16. CASE End
  BY <1>0, <1>16, ModestStep, UnchangedKept DEF End, At, Goto, Return, mgr, hist, Attempt
<1>17. CASE RemoveMaxNetid
  <2>1. LinkKept
    BY <1>0, <1>17, CommandsKeep, UnchangedKept DEF RemoveMaxNetid, NoLink
  <2> QED
    BY <1>0, <1>17, <2>1, ModestStep DEF RemoveMaxNetid, Goto, mgr, hist, Attempt
<1>18. CASE EnableAfterWps
  BY <1>0, <1>18, ModestStep, UnchangedKept DEF EnableAfterWps, Return, mgr, hist, Attempt
<1>19. CASE Poll
  BY <1>0, <1>19, ModestStep, UnchangedKept DEF Poll, Goto, Return, mgr, hist, Attempt
<1> QED
  BY <1>1, <1>2, <1>3, <1>4, <1>5, <1>6, <1>7, <1>8, <1>9, <1>10, <1>11, <1>12,
     <1>13, <1>14, <1>15, <1>16, <1>17, <1>18, <1>19 DEF ApiStep

\* The callback: what the DHCP client writes at its end.
LEMMA CallbackUp ==
  ASSUME TypeOK, UpInv, NEW t \in Threads, CallbackStep(t)
  PROVE  UpInv'
<1>0. CbOK /\ LinkOK /\ ListenOK /\ LinkTold
  BY Parts DEF UpInv
<1>1. UNCHANGED <<enable, listening, evtq, pc, call, dropped>>
  BY DEF CallbackStep, Callback, StartDhcp, Lease, DhcpDone, DhcpTimeout, NoApi, NoEvt,
     hist
<1>2. LinkKept
  BY <1>0, CommandsKeep, UnchangedKept DEF CallbackStep, Callback, StartDhcp, Lease,
     DhcpDone, DhcpTimeout, NoLink
<1>3. enable /\ Real => Real'
  BY <1>1, <1>2 DEF Real, LinkKept
<1>4. ListenOK' /\ LinkTold'
  BY <1>0, <1>1, <1>2 DEF ListenOK, LinkKept
<1>5. CASE Callback(t)
  <2>1. /\ state' = state /\ \A u \in Threads : cb'[u] = cb[u] \/ u = t
        /\ cb[t] = "call"
        /\ cb'[t] = "off" \/ (cb'[t] = "start" /\ state = "CONNECTED")
    BY <1>0, <1>5 DEF Callback, In, Move, CbOK
  <2>2. ApiLate'
    BY <2>1 DEF UpInv, ApiLate, Late, Threads
  <2>3. ToldReal'
    BY <1>1, <1>3, <2>1 DEF UpInv, ToldReal, Told, Threads
  <2>4. UpReal' /\ LeasedReal'
    BY <1>1, <1>3, <2>1 DEF UpInv, UpReal, Up, LeasedReal
  <2> QED
    BY <1>4, <2>2, <2>3, <2>4 DEF UpInv
<1>6. ASSUME cb[t] \in Late, state' # "CONNECTING" \/ state' = state,
             \A u \in Threads : cb'[u] = cb[u] \/ u = t, cb'[t] \in Late \cup {"off"},
             cb'[t] = "leased" => Real, enable /\ Up' => Real
      PROVE  UpInv'
  <2>1. ~Told
    BY <1>6 DEF UpInv, ToldReal, ApiLate, Late, Threads
  <2>2. ToldReal'
    BY <1>1, <2>1 DEF ToldReal, Told
  <2>3. ApiLate'
    BY <1>6 DEF UpInv, ApiLate, Late, Threads
  <2>4. UpReal' /\ LeasedReal'
    BY <1>1, <1>3, <1>6 DEF UpInv, UpReal, LeasedReal
  <2> QED
    BY <1>4, <2>2, <2>3, <2>4 DEF UpInv
<1>7. CASE StartDhcp(t)
  BY <1>0, <1>6, <1>7 DEF StartDhcp, In, Move, Set, CbOK, Late, Up
<1>8. CASE Lease(t)
  BY <1>0, <1>6, <1>8 DEF Lease, In, Move, CbOK, Late, UpInv, UpReal, Up, Real
<1>9. CASE DhcpDone(t)
  BY <1>0, <1>6, <1>9 DEF DhcpDone, In, Move, CbOK, Late, UpInv, LeasedReal
<1>10. CASE DhcpTimeout(t)
  BY <1>0, <1>6, <1>10 DEF DhcpTimeout, In, Move, Set, CbOK, Late, UpInv, UpReal, Up
<1> QED
  BY <1>5, <1>7, <1>8, <1>9, <1>10 DEF CallbackStep

\* The event thread takes a loss off the queue only to write it down.
LEMMA EvtStepUp ==
  ASSUME TypeOK, UpInv, EvtStep
  PROVE  UpInv'
<1>0. /\ CbOK /\ EvtOK /\ ctrl \in Seq(Reports) /\ "evt" \in Threads
      /\ UNCHANGED <<pc, call>>
  BY Parts DEF LinkOK, Threads, EvtStep, EvtConnected, EvtDisconnected, EvtFailure,
     EvtTerminating, NoApi
<1>1. ASSUME NEW r, Handles(r)
      PROVE  listening /\ cb["evt"] = "off" /\ ctrl # <<>> /\ Head(ctrl) = r
  BY <1>1 DEF Handles, In
<1>2. ASSUME ctrl # <<>>
      PROVE  /\ Followed(ctrl) => Followed(Tail(ctrl))
             /\ Followed(ctrl) /\ Head(ctrl) = "CONNECTED" => LossIn(Tail(ctrl))
             /\ LossIn(ctrl) /\ Head(ctrl) \notin Losses => LossIn(Tail(ctrl))
             /\ Tail(ctrl) \in Seq(Reports)
  BY <1>0, <1>2, TailReport
<1>3. ASSUME NEW r \in Reports, r # "CONNECTED", Tell(r) \/ UNCHANGED evtq,
             \E i \in 1..Len(evtq') : evtq'[i] = "CONNECTED"
      PROVE  \E i \in 1..Len(evtq) : evtq[i] = "CONNECTED"
  BY <1>0, <1>3 DEF EvtOK, Tell
<1>4. CASE EvtConnected
  <2>1. /\ UNCHANGED <<enable, listening, wpa>> /\ ctrl' = Tail(ctrl)
        /\ \/ state = "CONNECTING" /\ UNCHANGED <<state, cb>>
           \/ /\ state # "CONNECTING" /\ state' = "CONNECTED" /\ UNCHANGED evtq
              /\ cb' = [cb EXCEPT !["evt"] = "call"]
    BY <1>4 DEF EvtConnected, NoApi, Set, Notify
  <2>2. listening /\ cb["evt"] = "off" /\ ctrl # <<>> /\ Head(ctrl) = "CONNECTED"
    BY <1>1, <1>4 DEF EvtConnected
  <2>3. Real'
    BY <1>2, <2>1, <2>2 DEF UpInv, LinkTold, Real
  <2>4. ListenOK' /\ LinkTold'
    BY <1>2, <2>1, <2>2 DEF UpInv, ListenOK, LinkTold
  <2>5. ApiLate'
    BY <1>0, <2>1 DEF UpInv, ApiLate, CbOK
  <2>6. ToldReal'
    BY <1>0, <2>1, <2>2, <2>3 DEF UpInv, ToldReal, Told
  <2> QED
    BY <2>3, <2>4, <2>5, <2>6 DEF UpInv, UpReal, LeasedReal
<1>5. CASE EvtDisconnected
  <2>1. /\ UNCHANGED <<enable, listening, wpa>> /\ ctrl' = Tail(ctrl)
        /\ \/ /\ Up /\ state' = "DISCONNECTED" /\ Tell("DISCONNECTED")
              /\ cb' = [cb EXCEPT !["evt"] = "call"]
              /\ dropped' = (cb["api"] \in Late)
           \/ ~Up /\ dropped' = TRUE /\ UNCHANGED <<state, evtq, cb>>
    BY <1>5 DEF EvtDisconnected, NoApi, Set, Notify, Up, Late
  <2>2. listening /\ cb["evt"] = "off" /\ ctrl # <<>>
    BY <1>1, <1>5 DEF EvtDisconnected
  <2>4. ListenOK' /\ LinkTold'
    BY <1>2, <2>1, <2>2 DEF UpInv, ListenOK, LinkTold
  <2>5. CASE ~Up
    <3>1. Real'
      BY <2>1, <2>5 DEF Real
    <3> QED
      BY <1>0, <2>1, <2>4, <2>5, <3>1 DEF UpInv, ApiLate, ToldReal, Told, UpReal, LeasedReal
  <2>6. CASE Up
    <3>1. ~Told
      BY <2>6 DEF UpInv, ToldReal, Up
    <3>2. ~Told'
      BY <1>0, <1>3, <2>1, <2>6, <3>1 DEF Told, Reports
    <3>3. ApiLate' /\ ToldReal' /\ UpReal'
      BY <2>1, <2>6, <3>2 DEF ApiLate, ToldReal, UpReal, Up
    <3>4. cb["api"] = "leased" => Real'
      <4>1. cb["api"] = "leased" => (cb["api"] \in Late) = TRUE
        BY DEF Late
      <4>2. dropped' = (cb["api"] \in Late)
        BY <2>1, <2>6
      <4> QED
        BY <4>1, <4>2 DEF Real
    <3>5. LeasedReal'
      BY <1>0, <2>1, <2>6, <3>4 DEF LeasedReal, CbOK, Threads
    <3> QED
      BY <2>4, <3>3, <3>5 DEF UpInv
  <2> QED
    BY <2>5, <2>6
<1>6. CASE EvtTerminating
  <2>1. ~enable' /\ ~listening' /\ ctrl' = <<>> /\ state' # "CONNECTING"
    BY <1>6 DEF EvtTerminating, Set
  <2> QED
    BY <2>1 DEF UpInv, ListenOK, LinkTold, Followed, ApiLate, ToldReal, Told, UpReal,
       LeasedReal
<1>7. ASSUME NEW r \in Failures, EvtFailure(r)
      PROVE  UpInv'
  <2>1. /\ UNCHANGED <<enable, listening, state, cb, dropped>>
        /\ Tell(r) \/ UNCHANGED evtq
        /\ r \in Reports /\ r # "CONNECTED" /\ r \notin Losses
    BY <1>7 DEF EvtFailure, NoApi, hist, Failures, Reports, Losses
  <2>2. listening /\ ctrl # <<>> /\ Head(ctrl) = r
    BY <1>1, <1>7 DEF EvtFailure
  <2>3. \/ UNCHANGED wpa /\ ctrl' = Tail(ctrl)
        \/ wpa # "up" /\ wpa' = "idle" /\ ctrl' = Tail(ctrl)
        \/ wpa = "up" /\ wpa' = "idle" /\ ctrl' = Append(Tail(ctrl), "DISCONNECTED")
    <3>1. /\ Tail(ctrl) \o <<>> = Tail(ctrl)
          /\ Tail(ctrl) \o <<"DISCONNECTED">> = Append(Tail(ctrl), "DISCONNECTED")
      BY <1>2, <2>2
    <3> QED
      BY <1>7, <3>1 DEF EvtFailure
  <2>4. "DISCONNECTED" \in Losses /\ "DISCONNECTED" \in Reports
    BY DEF Losses, Reports
  <2>5. LinkTold' /\ (Real => Real')
    BY <1>2, <2>1, <2>2, <2>3, <2>4, AppendReport DEF UpInv, LinkTold, Real
  <2>6. ListenOK'
    BY <2>1, <2>2 DEF UpInv, ListenOK
  <2>7. ToldReal'
    BY <1>0, <1>3, <2>1, <2>5 DEF UpInv, ToldReal, Told
  <2> QED
    BY <2>1, <2>5, <2>6, <2>7 DEF UpInv, ApiLate, UpReal, Up, LeasedReal
<1> QED
  BY <1>4, <1>5, <1>6, <1>7 DEF EvtStep

\* The supplicant reports what happens to the link while anyone listens.
LEMMA SupplicantUp ==
  ASSUME TypeOK, UpInv, Supplicant
  PROVE  UpInv'
<1>0. LinkOK /\ ListenOK /\ LinkTold /\ ctrl \in Seq(Reports)
  BY Parts DEF LinkOK, UpInv
<1>1. UNCHANGED <<state, enable, listening, evtq, pc, call, cb, dropped>>
  BY DEF Supplicant, SupScan, SupConnect, SupDrop, SupTerminate, SupRestart, SupFail,
     NoManager, mgr, hist
<1>2. LinkKept
  <2>1. CASE SupScan \/ SupDrop
    BY <1>0, <2>1, LeaveKept DEF SupScan, SupDrop
  <2>2. CASE SupConnect
    <3>1. CASE listening
      BY <1>0, <2>2, <3>1 DEF SupConnect, LinkKept, LinkTold
    <3>2. CASE ~listening
      BY <1>0, <2>2, <3>2 DEF SupConnect, Report, ListenOK, LinkKept, LinkTold
    <3> QED
      BY <3>1, <3>2
  <2>3. ASSUME NEW r \in Reports, r # "CONNECTED", ctrl' = Report(r), wpa' # "up",
               wpa = "up" => r \in Losses
        PROVE  LinkKept
    <3>1. CASE listening
      BY <1>0, <2>3, <3>1, AppendReport DEF Report, LinkKept, LinkTold, ListenOK
    <3>2. CASE ~listening
      <4>1. ctrl' = <<>>
        BY <1>0, <2>3, <3>2 DEF Report, ListenOK
      <4> QED
        BY <1>0, <3>2, <4>1 DEF LinkKept, LinkTold, Followed, ListenOK
    <3> QED
      BY <3>1, <3>2
  <2>4. CASE SupTerminate
    BY <2>3, <2>4 DEF SupTerminate, Reports, Losses
  <2>5. CASE SupRestart
    BY <1>0, <2>5 DEF SupRestart, alive, LinkKept, LinkTold, ListenOK
  <2>6. ASSUME NEW r \in Failures, SupFail(r)
        PROVE  LinkKept
    BY <2>3, <2>6 DEF SupFail, Failures, Reports
  <2> QED
    BY <2>1, <2>2, <2>4, <2>5, <2>6 DEF Supplicant
<1>3. enable /\ Real => Real'
  BY <1>1, <1>2 DEF Real, LinkKept
<1> QED
  BY <1>0, <1>1, <1>2, <1>3 DEF UpInv, ListenOK, LinkKept, ApiLate, ToldReal, Told, UpReal,
     Up, LeasedReal

\* A state that says connected is believed with reason in every reachable state,
\* for any bound on the reports: the link is up, its loss is still to be read, or
\* it is one of the losses that UpIsReal names.
THEOREM UpCorrect == Spec => []UpIsReal
<1>1. Init => UpInv
  <2>1. SUFFICES ASSUME Init
                 PROVE  UpInv
    OBVIOUS
  <2>2. ListenOK /\ LinkTold
    BY <2>1 DEF Init, ListenOK, LinkTold, Followed
  <2>3. ApiLate /\ ToldReal /\ UpReal /\ LeasedReal
    BY <2>1 DEF Init, ApiLate, Late, ToldReal, Told, UpReal, LeasedReal, Threads
  <2> QED
    BY <2>2, <2>3 DEF UpInv
<1>2. TypeOK /\ UpInv /\ [Next]_vars => UpInv'
  <2>1. SUFFICES ASSUME TypeOK, UpInv, [Next]_vars
                 PROVE  UpInv'
    OBVIOUS
  <2>2. CASE UNCHANGED vars
    BY <2>1, <2>2 DEF vars, mgr, link, hist, UpInv, ListenOK, LinkTold, ApiLate, ToldReal,
       Told, UpReal, Up, LeasedReal, Real
  <2> QED
    BY <2>1, <2>2, ApplicationUp, ApiStepUp, EvtStepUp, CallbackUp, SupplicantUp DEF Next
<1>3. UpInv => UpIsReal
  BY DEF UpInv, UpReal, UpIsReal, Real, LossIn
<1> QED
  BY <1>1, <1>2, <1>3, TypeCorrect, PTL DEF Spec

=============================================================================
