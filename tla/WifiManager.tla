---------------------------- MODULE WifiManager ----------------------------
(***************************************************************************)
(* The Wi-Fi manager of the board (test/project/wifimanager.c): the API an *)
(* application calls from its one thread, the event thread and the DHCP    *)
(* client of libwifimg, and wpa_supplicant with its list of networks.      *)
(*                                                                         *)
(* The manager keeps one record, w->StaEvt, that both threads write with   *)
(* no lock.  The API thread sends commands to wpa_supplicant and then      *)
(* blocks in wait_event on a socket; the event thread turns the            *)
(* supplicant's reports into bytes on that socket, or into writes of       *)
(* w->StaEvt when no attempt seems to be under way.  Either thread runs    *)
(* the application's callback, which starts the DHCP client in place.      *)
(***************************************************************************)
EXTENDS Integers, Sequences, FiniteSets

CONSTANTS
  Ssids,       \* the names of the access points
  Contains,    \* Contains[t]: the names found inside the text of name t
  NetIds,      \* wpa_supplicant's network identifiers
  NoId,        \* no identifier
  Ops,         \* the API functions the application calls
  Passwords,   \* the kinds of password it gives them
  Mgmts,       \* the key managements it asks for
  KnownNets,   \* the networks configured when the program starts
  MaxLink,     \* bound: supplicant reports not yet consumed
  SaveFailsAt  \* bound: the places of the API thread where a SAVE_CONFIG fails

Threads == {"api", "evt"}

KeyMgmts == {"NONE", "WPA_PSK", "WEP", "OTHER"}

\* The key_mgmt text wpa_supplicant stores: WEP networks have "NONE" too.
KeyType(mgmt) == IF mgmt = "WPA_PSK" THEN "WPA-PSK" ELSE "NONE"

Network == [id: NetIds, ssid: Ssids, key: {"NONE", "WPA-PSK"}, on: BOOLEAN]

AllOps == {"connect_ap", "connect_ap_key_mgmt", "add_network",
           "connect_ap_auto", "connect_ap_with_netid", "wps_pbc",
           "disconnect_ap", "remove_network", "clear_network",
           "remove_all_networks"}

\* An empty password, one of a legal form, and one that check_wpa_passwd or
\* the WEP length test refuses.
PasswordKinds == {"", "formed", "malformed"}

ASSUME ConstantsAssumption ==
  /\ Ssids # {}
  /\ Contains \in [Ssids -> SUBSET Ssids]
  /\ NoId \notin NetIds
  /\ NetIds \subseteq Int
  /\ Ops \subseteq AllOps
  /\ Passwords \subseteq PasswordKinds
  /\ Mgmts \subseteq KeyMgmts
  /\ KnownNets \subseteq Network
  /\ MaxLink \in Nat

\* An identifier names one network.
ASSUME KnownNetsAssumption == \A m, n \in KnownNets : m.id = n.id => m = n

wmgState == {"NETWORK_CONNECTED", "CONNECTING", "OBTAINING_IP",
             "DISCONNECTED", "CONNECTED", "STATE_UNKNOWN"}

wmgEvent == {"UNKNOWN", "STARTUP_AUTO_CONNECT", "AUTO_CONNECTED",
             "ACTIVE_CONNECT", "ACTIVE_OBTAINED_IP", "AUTO_DISCONNECTED",
             "ACTIVE_DISCONNECT", "KEYMT_NO_SUPPORT",
             "CMD_OR_PARAMS_ERROR", "DEV_BUSING", "CONNECTED_TIMEOUT",
             "OBTAINED_IP_TIMEOUT", "WPA_TERMINATING", "AP_ASSOC_REJECT",
             "NETWORK_NOT_EXIST", "PASSWORD_INCORRECT"}

\* What wpa_supplicant reports, and what the event thread passes on.
Failures == {"PASSWORD_INCORRECT", "NETWORK_NOT_FOUND", "ASSOC_REJECT"}
Reports == Failures \cup {"CONNECTED", "DISCONNECTED", "TERMINATING"}

VARIABLES
  state, event,      \* w->StaEvt
  enable,            \* w->enable
  handle,            \* the application holds the interface of aw_wifi_on
  netIdConnecting,   \* a->netIdConnecting
  pc,                \* where the API thread is
  call,              \* the arguments and locals of the call it runs
  cb,                \* where each thread is in the application's callback
  listening,         \* the event thread runs
  evtq,              \* the socket from the event thread to evtRead
  ctrl,              \* reports the event thread has not read
  wpa, cur,          \* the supplicant's state and the network it is on
  net, saved,        \* its networks, and those in wpa_supplicant.conf
  unsaved,           \* history: the last SAVE_CONFIG failed
  orphan,            \* history: a call left an entry without its clean-up
  stuck,             \* history: the state was left CONNECTING
  crashed,           \* history: the supplicant went in a call, or unsaved
  dropped            \* history: the state does not heed the last loss

mgr == <<state, event, enable, handle, netIdConnecting>>
link == <<wpa, cur, ctrl>>
conf == <<net, saved, unsaved>>
hist == <<orphan, stuck, crashed, dropped>>
vars == <<mgr, pc, call, cb, listening, evtq, link, conf, hist>>

NoCall == [op |-> "none", ssid |-> CHOOSE s \in Ssids : TRUE,
           mgmt |-> "NONE", pass |-> "", new |-> NoId, old |-> NoId,
           rest |-> <<>>, first |-> FALSE, stale |-> 0, ret |-> 0]

Ids(nets) == {n.id : n \in nets}
Without(nets, i) == {n \in nets : n.id # i}
alive == wpa # "dead"
busy == state \in {"CONNECTING", "OBTAINING_IP"}    \* check_device_is_busing

(***************************************************************************)
(* wpa_supplicant as the commands of the manager see it: "idle" after a    *)
(* DISCONNECT command, "scan" while it looks for a network that is on,     *)
(* "assoc" while it joins cur, "up" when it has joined, "dead" when gone.  *)
(***************************************************************************)

Report(r) == IF listening THEN Append(ctrl, r) ELSE ctrl

\* The link goes away, or the supplicant turns to network c.
Leave(w, c) ==
  /\ wpa' = w
  /\ cur' = c
  /\ ctrl' = IF wpa = "up" THEN Report("DISCONNECTED") ELSE ctrl

\* REMOVE_NETWORK of the networks in gone: the link on one of them ends, and
\* the supplicant looks for another.
Drop(gone) ==
  IF cur \in gone THEN Leave("scan", NoId) ELSE UNCHANGED link

\* SAVE_CONFIG writes the networks to the file.
Saved == saved' = net' /\ unsaved' = FALSE

\* Or it fails, which leaves the file as it is.  Few callers look.
SaveConfig == Saved \/ (pc \in SaveFailsAt /\ saved' = saved /\ unsaved' = TRUE)

RemoveAndSave(i) ==
  IF alive
    THEN /\ net' = Without(net, i)
         /\ SaveConfig
         /\ Drop({i})
    ELSE UNCHANGED <<conf, link>>

CancelUnsaved(i) ==      \* mutant: no SAVE_CONFIG
  IF alive
    THEN net' = Without(net, i) /\ UNCHANGED <<saved, unsaved>> /\ Leave("idle", NoId)
    ELSE UNCHANGED <<conf, link>>

CancelKeeps(i) ==        \* mutant: disabled, never removed
  IF alive
    THEN net' = net /\ Saved /\ Leave("idle", NoId)
    ELSE UNCHANGED <<conf, link>>

\* cancel_saved_conf_handle: DISABLE, DISCONNECT, REMOVE, SAVE_CONFIG.
CancelSavedConf(i) ==
  IF alive
    THEN /\ net' = Without(net, i)
         /\ SaveConfig
         /\ Leave("idle", NoId)
    ELSE UNCHANGED <<conf, link>>

\* SELECT_NETWORK disables every other network and turns to this one.
SelectNetwork(i) ==
  /\ net' = {[n EXCEPT !.on = (n.id = i)] : n \in net}
  /\ IF wpa = "up" /\ cur = i THEN UNCHANGED link ELSE Leave("assoc", i)

(***************************************************************************)
(* Control of the API thread.  It runs one call at a time, and waits while *)
(* it is itself inside the application's callback.                         *)
(***************************************************************************)

At(l) == pc = l /\ cb["api"] = "off"
Goto(l) == pc' = l
Return == pc' = "idle" /\ call' = NoCall
Set(s, e) == state' = s /\ event' = e
Notify(t) == cb' = [cb EXCEPT ![t] = "call"]       \* state_event_change

NoMgr == UNCHANGED <<enable, handle, netIdConnecting>>
NoLink == UNCHANGED <<link, conf>>
NoEvt == UNCHANGED <<listening, evtq, hist>>

\* The calls that add a network of their own and take it back on failure.
AddsNetwork == call.op \in {"connect_ap", "connect_ap_key_mgmt", "add_network"}

\* Where a call goes when its attempt is over.
Finished == CASE call.op = "connect_ap" -> "after"
              [] call.op = "connect_ap_key_mgmt" -> "enable"
              [] OTHER -> "end"

FailBusy(e, l) ==        \* mutant: the state is not reset
  /\ state' = state /\ event' = e
  /\ call' = [call EXCEPT !.ret = -1]
  /\ Goto(l)

\* An attempt fails with event e: DISCONNECTED, ret = -1, goto end.
Fail(e, l) ==
  /\ Set("DISCONNECTED", e)
  /\ call' = [call EXCEPT !.ret = -1]
  /\ Goto(l)

\* Or it fails and leaves everything as it stands, the state CONNECTING too.
Abandon ==
  /\ call' = [call EXCEPT !.ret = -1]
  /\ orphan' = (orphan \/ AddsNetwork)
  /\ stuck' = TRUE

(***************************************************************************)
(* aw_wifi_on and aw_wifi_off.                                             *)
(***************************************************************************)

\* aw_wifi_on up to clearEvtSocket; NULL if wpa_supplicant does not answer.
TurnOn ==
  /\ At("idle") /\ ~enable
  /\ Set("CONNECTING", "STARTUP_AUTO_CONNECT")
  /\ \/ /\ alive
        /\ enable' = TRUE
        /\ listening' = TRUE
        /\ evtq' = <<>>
        /\ Goto("status")
        /\ dropped' = (dropped \/ (cb["evt"] = "leased" /\ wpa # "up"))
        /\ UNCHANGED handle
     \/ /\ handle' = FALSE
        /\ UNCHANGED <<enable, listening, evtq, pc, dropped>>
  /\ UNCHANGED <<netIdConnecting, call, cb, link, conf, orphan, stuck, crashed>>

AssocIsCompleted == wpa \in {"assoc", "up"}    \* mutant: associated will do

\* WPA_COMPLETED in the status.
StatusCompleted == wpa = "up"

\* The rest of aw_wifi_on: what the status of wpa_supplicant says.
ReadStatus ==
  /\ At("status")
  /\ Goto("idle")
  /\ \/ /\ handle' = FALSE                            \* the status is NULL
        /\ UNCHANGED <<state, cb, stuck>>
     \/ /\ handle' = TRUE /\ alive
        /\ \/ /\ wpa = "assoc"                        \* WPA_4WAY_HANDSHAKE
              /\ state' = "CONNECTING"
              /\ stuck' = TRUE
              /\ Notify("api")
           \/ /\ StatusCompleted
              /\ state' = "CONNECTED"
              /\ Notify("api") \/ UNCHANGED cb        \* no address yet, or one
              /\ UNCHANGED stuck
           \/ /\ wpa \in {"idle", "scan", "assoc"}
              /\ state' = "DISCONNECTED"
              /\ UNCHANGED <<cb, stuck>>
  /\ UNCHANGED <<event, enable, netIdConnecting, call, listening, evtq>>
  /\ UNCHANGED <<orphan, crashed, dropped>>
  /\ NoLink

\* aw_wifi_off: the event thread is cancelled wherever it is, the interface
\* goes down, clearManagerdata.
TurnOff ==
  /\ At("idle") /\ handle /\ enable
  /\ Set("STATE_UNKNOWN", "UNKNOWN")
  /\ enable' = FALSE /\ handle' = FALSE
  /\ listening' = FALSE
  /\ cb' = [cb EXCEPT !["evt"] = "off"]
  /\ evtq' = <<>> /\ ctrl' = <<>>
  /\ wpa' = IF alive THEN "scan" ELSE wpa
  /\ cur' = NoId
  /\ UNCHANGED <<netIdConnecting, pc, call, conf, hist>>

(***************************************************************************)
(* The entry of each call, up to the first command.                        *)
(***************************************************************************)

Entering(op) == At("idle") /\ handle /\ enable /\ op \in Ops

\* Busy: the call gives up, and marks the station disconnected.
RefuseBusy ==
  /\ busy
  /\ Set("DISCONNECTED", "DEV_BUSING")
  /\ Notify("api")
  /\ UNCHANGED <<pc, call>>

ConnectAp(ssid, pass) ==
  /\ Entering("connect_ap")
  /\ \/ RefuseBusy
     \/ /\ ~busy
        /\ call' = [NoCall EXCEPT !.op = "connect_ap", !.ssid = ssid,
                      !.pass = pass, !.first = TRUE,
                      !.mgmt = IF pass = "" THEN "NONE" ELSE "WPA_PSK"]
        /\ Goto("begin")
        /\ UNCHANGED <<state, event, cb>>
     \/ /\ Set("DISCONNECTED", "CMD_OR_PARAMS_ERROR")   \* a bad ssid
        /\ call' = [NoCall EXCEPT !.op = "connect_ap", !.ret = -1]
        /\ Goto("enable")
        /\ UNCHANGED cb
  /\ NoMgr /\ NoEvt /\ NoLink

ConnectApKeyMgmt(ssid, mgmt, pass) ==
  /\ Entering("connect_ap_key_mgmt")
  /\ \/ RefuseBusy
     \/ /\ ~busy /\ mgmt # "OTHER"                      \* found by the scan
        /\ call' = [NoCall EXCEPT !.op = "connect_ap_key_mgmt", !.ssid = ssid,
                      !.pass = pass, !.mgmt = mgmt]
        /\ Goto("begin")
        /\ UNCHANGED <<state, event, cb>>
     \/ /\ \/ ~busy /\ mgmt # "OTHER" /\ Set("DISCONNECTED", "NETWORK_NOT_EXIST")
           \/ ~busy /\ mgmt = "OTHER" /\ Set("DISCONNECTED", "KEYMT_NO_SUPPORT")
           \/ Set("DISCONNECTED", "CMD_OR_PARAMS_ERROR")
        /\ call' = [NoCall EXCEPT !.op = "connect_ap_key_mgmt", !.ret = -1]
        /\ Goto("enable")
        /\ UNCHANGED cb
  /\ NoMgr /\ NoEvt /\ NoLink

AddNetwork(ssid, mgmt, pass) ==
  /\ Entering("add_network")
  /\ \/ RefuseBusy
     \/ /\ ~busy
        /\ call' = [NoCall EXCEPT !.op = "add_network", !.ssid = ssid,
                      !.pass = pass, !.mgmt = mgmt]
        /\ Goto("begin")
        /\ UNCHANGED <<state, event, cb>>
     \/ /\ Set("DISCONNECTED", "CMD_OR_PARAMS_ERROR")
        /\ call' = [NoCall EXCEPT !.op = "add_network", !.ret = -1]
        /\ Goto("end")
        /\ UNCHANGED cb
  /\ NoMgr /\ NoEvt /\ NoLink

\* connect_ap_with_netid: a connected station first disconnects.
ConnectApWithNetid(i) ==
  /\ Entering("connect_ap_with_netid")
  /\ \/ RefuseBusy /\ UNCHANGED <<link, conf>>
     \/ /\ ~busy
        /\ call' = [NoCall EXCEPT !.op = "connect_ap_with_netid", !.old = i]
        /\ \/ wpa \notin {"up", "dead"} /\ Goto("begin") /\ UNCHANGED link
           \/ wpa = "up" /\ state = "DISCONNECTED" /\ Goto("begin") /\ UNCHANGED link
           \/ wpa = "up" /\ state # "DISCONNECTED" /\ Goto("poll") /\ Leave("idle", NoId)
        /\ UNCHANGED <<state, event, cb, conf>>
     \/ /\ ~busy                                        \* the status is NULL
        /\ call' = [NoCall EXCEPT !.op = "connect_ap_with_netid", !.ret = -1]
        /\ Goto("end")
        /\ UNCHANGED <<state, event, cb, link, conf>>
  /\ NoMgr /\ NoEvt

ConnectApAuto ==
  /\ Entering("connect_ap_auto") /\ ~busy
  /\ \/ /\ wpa = "up"
        /\ Set("CONNECTED", "ACTIVE_CONNECT")
        /\ Notify("api")
        /\ UNCHANGED <<pc, call>>
     \/ /\ wpa \notin {"up", "dead"}
        /\ call' = [NoCall EXCEPT !.op = "connect_ap_auto"]
        /\ Goto(IF net = {} THEN "end" ELSE "begin")
        /\ UNCHANGED <<state, event, cb>>
  /\ NoMgr /\ NoEvt /\ NoLink

WpsPbc ==
  /\ Entering("wps_pbc")
  /\ \/ RefuseBusy
     \/ /\ ~busy
        /\ call' = [NoCall EXCEPT !.op = "wps_pbc"]
        /\ Goto("begin")
        /\ UNCHANGED <<state, event, cb>>
  /\ NoMgr /\ NoEvt /\ NoLink

\* disconnect_ap up to the DISCONNECT command.
DisconnectAp ==
  /\ Entering("disconnect_ap") /\ ~busy /\ state # "DISCONNECTED" /\ alive
  /\ call' = [NoCall EXCEPT !.op = "disconnect_ap"]
  /\ Leave("idle", NoId)
  /\ Goto("poll")
  /\ UNCHANGED <<state, event, cb, conf>>
  /\ NoMgr /\ NoEvt

\* remove_network, clear_network (the first entry whose text contains the
\* name) and remove_all_networks: REMOVE_NETWORK, then SAVE_CONFIG; the first
\* two return -1 when that fails, with the network gone.
RemoveNetworks ==
  /\ alive /\ ~busy
  /\ \E gone \in SUBSET net :
        /\ \/ /\ Entering("remove_network")
              /\ \E n \in net : gone = {n}
           \/ /\ Entering("clear_network")
              /\ \E s \in Ssids : \E n \in net : s \in Contains[n.ssid] /\ gone = {n}
           \/ /\ Entering("remove_all_networks")
              /\ gone = net
        /\ net' = net \ gone
        /\ SaveConfig
        /\ Drop(Ids(gone))
  /\ UNCHANGED <<state, event, pc, call, cb>>
  /\ NoMgr /\ NoEvt

(***************************************************************************)
(* One attempt: wifi_connect_ap_inner, the body of aw_wifi_add_network, and *)
(* the shorter ones of connect_ap_with_netid, connect_ap_auto and wps_pbc. *)
(***************************************************************************)

Begin ==
  /\ At("begin")
  /\ Set("CONNECTING", "ACTIVE_CONNECT")
  /\ Notify("api")
  /\ Goto(IF call.op = "connect_ap_auto" THEN "reconnect" ELSE "clear")
  /\ call' = [call EXCEPT !.new = NoId, !.stale = Len(evtq)]
  /\ stuck' = FALSE
  /\ UNCHANGED <<listening, evtq, orphan, crashed, dropped>>
  /\ NoMgr /\ NoLink

\* clearEvtSocket; add_network notifies once more.
ClearEvtSocket ==
  /\ At("clear")
  /\ evtq' = <<>>
  /\ call' = [call EXCEPT !.stale = 0]
  /\ IF call.op = "add_network" THEN Notify("api") ELSE UNCHANGED cb
  /\ Goto(CASE AddsNetwork -> "add"
            [] call.op = "connect_ap_with_netid" -> "select"
            [] OTHER -> "pbc")
  /\ UNCHANGED <<mgr, listening, link, conf, hist>>

TwinsPsk ==              \* mutant: open networks are never found
  {n \in net : n.ssid = call.ssid /\ n.key = "WPA-PSK" /\ call.mgmt = "WPA_PSK"}

\* wpa_conf_is_ap_exist: the entries of the same name and key type.
Twins == {n \in net : n.ssid = call.ssid /\ n.key = KeyType(call.mgmt)}

\* wpa_conf_is_ap_exist and ADD_NETWORK.  The entry carries the name and key
\* type the SET_NETWORK commands of the next step give it.
CreateNetwork ==
  /\ At("add")
  /\ \/ \E i \in NetIds \ Ids(net) :
          /\ alive
          /\ net' = net \cup {[id |-> i, ssid |-> call.ssid,
                               key |-> KeyType(call.mgmt), on |-> FALSE]}
          /\ \/ /\ Twins = {}
                /\ call' = [call EXCEPT !.new = i, !.old = NoId]
             \/ \E n \in Twins : call' = [call EXCEPT !.new = i, !.old = n.id]
          /\ Goto("configure")
          /\ UNCHANGED <<state, event>>
     \/ Fail("CMD_OR_PARAMS_ERROR", Finished) /\ UNCHANGED net
  /\ UNCHANGED <<cb, saved, unsaved, link>>
  /\ NoMgr /\ NoEvt

\* What the password and the key management come to, before the supplicant
\* is asked for anything.
Unsupported == call.mgmt = "OTHER"
PasswordRefused == \/ call.mgmt = "WPA_PSK" /\ call.pass # "formed"
                   \/ call.mgmt = "WEP" /\ call.pass # "formed"

\* The SET_NETWORK commands.  wifi_connect_ap_inner removes the entry of a
\* malformed PSK without saving.
Configure ==
  /\ At("configure")
  /\ \/ /\ alive /\ ~Unsupported /\ ~PasswordRefused
        /\ Goto("select")
        /\ UNCHANGED <<state, event, call, conf, link>>
     \/ /\ ~Unsupported                                 \* a command fails
        /\ RemoveAndSave(call.new)
        /\ Fail("CMD_OR_PARAMS_ERROR", Finished)
     \/ /\ PasswordRefused
        /\ IF call.mgmt = "WPA_PSK" /\ call.op # "add_network"
             THEN /\ net' = Without(net, call.new)
                  /\ UNCHANGED <<saved, unsaved, link>>
             ELSE CancelSavedConf(call.new)
        /\ Fail("CMD_OR_PARAMS_ERROR", Finished)
     \/ /\ Unsupported
        /\ CancelSavedConf(call.new)
        /\ Fail("KEYMT_NO_SUPPORT", Finished)
  /\ UNCHANGED cb
  /\ NoMgr /\ NoEvt

\* SELECT_NETWORK of the entry just made; add_network saves it at once.
SelectNew ==
  /\ At("select") /\ AddsNetwork
  /\ \/ /\ alive
        /\ SelectNetwork(call.new)
        /\ IF call.op = "add_network" THEN Saved ELSE UNCHANGED <<saved, unsaved>>
        /\ netIdConnecting' = call.new
        /\ Goto("wait")
        /\ UNCHANGED <<state, event, call>>
     \/ /\ RemoveAndSave(call.new)
        /\ Fail("CMD_OR_PARAMS_ERROR", Finished)
        /\ UNCHANGED netIdConnecting
     \/ /\ call.op = "add_network" /\ alive             \* SAVE_CONFIG fails
        /\ net' = {[n EXCEPT !.on = FALSE] : n \in Without(net, call.new)}
        /\ SaveConfig                                   \* tried once more
        /\ Leave("scan", NoId)
        /\ Fail("CMD_OR_PARAMS_ERROR", Finished)
        /\ UNCHANGED netIdConnecting
  /\ UNCHANGED <<enable, handle, cb>>
  /\ NoEvt

\* connect_ap_with_netid: SELECT_NETWORK and RECONNECT.  A refused selection
\* leaves the state CONNECTING.
SelectExisting ==
  /\ At("select") /\ call.op = "connect_ap_with_netid"
  /\ \/ /\ call.old \in Ids(net)
        /\ SelectNetwork(call.old)
        /\ netIdConnecting' = call.old
        /\ Goto("wait")
        /\ UNCHANGED <<call, orphan, stuck>>
     \/ /\ call.old \notin Ids(net)
        /\ Abandon
        /\ Goto("end")
        /\ UNCHANGED <<netIdConnecting, net, link>>
  /\ UNCHANGED <<state, event, enable, handle, cb, saved, unsaved, listening, evtq>>
  /\ UNCHANGED <<crashed, dropped>>

Reconnect ==
  /\ At("reconnect")
  /\ \/ /\ alive
        /\ Goto("wait")
        /\ IF wpa = "idle" THEN Leave("scan", NoId) ELSE UNCHANGED link
        /\ UNCHANGED <<call, orphan, stuck>>
     \/ /\ Abandon
        /\ Goto("end")
        /\ UNCHANGED link
  /\ UNCHANGED <<mgr, cb, conf, listening, evtq, crashed, dropped>>

\* WPS_PBC and SAVE_CONFIG: the supplicant adds a network for the push button.
\* If either fails the call gives up, the second with the network added.
PushButton ==
  /\ At("pbc")
  /\ \/ \E i \in NetIds \ Ids(net), s \in Ssids :
          /\ alive
          /\ \A n \in net : <<n.ssid, n.key>> # <<s, "WPA-PSK">>
          /\ net' = {[n EXCEPT !.on = FALSE] : n \in net} \cup
                    {[id |-> i, ssid |-> s, key |-> "WPA-PSK", on |-> TRUE]}
          /\ Leave("assoc", i)
          /\ \/ Saved /\ Goto("wait") /\ UNCHANGED <<call, orphan, stuck>>
             \/ /\ "pbc" \in SaveFailsAt
                /\ saved' = saved /\ unsaved' = TRUE
                /\ Abandon /\ Goto("end")
     \/ /\ Abandon
        /\ Goto("end")
        /\ UNCHANGED <<conf, link>>
  /\ UNCHANGED <<mgr, cb, listening, evtq, crashed, dropped>>

(***************************************************************************)
(* wait_event.                                                             *)
(***************************************************************************)

EventRaw(b) == b         \* mutant: the byte stored as it is

\* w->StaEvt.event after a byte other than CONNECTED.
EventOf(b) == CASE b = "PASSWORD_INCORRECT" -> "PASSWORD_INCORRECT"
                [] b = "NETWORK_NOT_FOUND" -> "NETWORK_NOT_EXIST"
                [] b = "ASSOC_REJECT" -> "AP_ASSOC_REJECT"
                [] b = "TERMINATING" -> "WPA_TERMINATING"
                [] OTHER -> event

NotAFailure(b) == b \notin Failures    \* mutant: fails on known failures only

\* case WPAE_CONNECTED.
IsConnected(b) == b = "CONNECTED"

\* The old entry of the same network goes, the configuration is saved.
WaitConnected ==
  /\ At("wait") /\ evtq # <<>> /\ IsConnected(Head(evtq))
  /\ evtq' = Tail(evtq)
  /\ state' = "CONNECTED"
  /\ IF AddsNetwork /\ alive
       THEN /\ net' = Without(net, call.old)
            /\ SaveConfig
            /\ Drop({call.old} \ {NoId})
       ELSE NoLink
  /\ call' = [call EXCEPT !.ret = 0]
  /\ Goto(Finished)
  /\ dropped' = (dropped \/ call.stale # 0)
  /\ UNCHANGED <<event, enable, handle, netIdConnecting, cb, listening>>
  /\ UNCHANGED <<orphan, stuck, crashed>>

GivesUpOld(e) ==         \* mutant: the other identifier
  /\ Fail(e, Finished)
  /\ IF AddsNetwork THEN CancelSavedConf(call.old) ELSE NoLink
  /\ UNCHANGED <<enable, handle, netIdConnecting, cb, listening, hist>>

WaitGivesUp(e) ==
  /\ Fail(e, Finished)
  /\ IF AddsNetwork THEN CancelSavedConf(call.new) ELSE NoLink
  /\ UNCHANGED <<enable, handle, netIdConnecting, cb, listening, hist>>

WaitFailed ==
  /\ At("wait") /\ evtq # <<>> /\ ~IsConnected(Head(evtq))
  /\ evtq' = Tail(evtq)
  /\ WaitGivesUp(EventOf(Head(evtq)))

WaitTimeout ==
  /\ At("wait") /\ evtq = <<>>
  /\ WaitGivesUp("CONNECTED_TIMEOUT")
  /\ UNCHANGED evtq

\* poll fails in evtRead: nothing is undone and the state stays as it is.
WaitError ==
  /\ At("wait")
  /\ Abandon
  /\ Goto(Finished)
  /\ UNCHANGED <<mgr, cb, listening, evtq, link, conf, crashed, dropped>>

(***************************************************************************)
(* The ends of the calls.                                                  *)
(***************************************************************************)

SameAttempt ==           \* mutant: the attempt is not taken off the list
  call' = [call EXCEPT !.mgmt = Head(call.rest)]

NextAttempt ==
  call' = [call EXCEPT !.mgmt = Head(call.rest), !.rest = Tail(call.rest)]

\* connect_ap after an attempt: done, or scan, or the next key management.
After ==
  /\ At("after")
  /\ IF call.first
       THEN /\ Goto(IF \/ call.ret >= 0
                       \/ event \in {"PASSWORD_INCORRECT", "WPA_TERMINATING"}
                    THEN "enable" ELSE "scan")
            /\ UNCHANGED call
       ELSE IF call.rest = <<>>
              THEN Goto("enable") /\ UNCHANGED call
              ELSE NextAttempt /\ Goto("begin")
  /\ UNCHANGED <<state, event, cb>>
  /\ NoMgr /\ NoEvt /\ NoLink

\* get_key_mgmt: what the scan found decides which attempts follow.
Offers == IF call.pass = "" THEN {<<"NONE">>}
          ELSE {<<"WPA_PSK">>, <<"WEP">>, <<"WPA_PSK", "WEP">>}

Scan ==
  /\ At("scan")
  /\ \/ Fail("NETWORK_NOT_EXIST", "enable")
     \/ \E offer \in Offers :
          /\ call' = [call EXCEPT !.mgmt = Head(offer), !.rest = Tail(offer),
                                  !.first = FALSE]
          /\ Goto("begin")
          /\ UNCHANGED <<state, event>>
  /\ UNCHANGED cb
  /\ NoMgr /\ NoEvt /\ NoLink

\* wpa_conf_enable_all_networks: ENABLE_NETWORK of each, SAVE_CONFIG.
EnableNetworks ==
  IF alive
    THEN net' = {[n EXCEPT !.on = TRUE] : n \in net} /\ SaveConfig
    ELSE UNCHANGED conf

EnableAll ==
  /\ At("enable")
  /\ EnableNetworks
  /\ Goto("end")
  /\ UNCHANGED <<mgr, call, cb, listening, evtq, link, hist>>

\* end: the last state_event_change of the call.
End ==
  /\ At("end")
  /\ Notify("api")
  /\ IF call.op = "wps_pbc" THEN Goto("remove") /\ UNCHANGED call ELSE Return
  /\ UNCHANGED <<mgr, listening, evtq, link, conf, hist>>

\* wps_pbc: with no address by now the network with the largest identifier
\* goes, as the one the supplicant must have added.
Largest(nets) == {n \in nets : \A m \in nets : m.id <= n.id}

RemoveMaxNetid ==
  /\ At("remove")
  /\ IF state # "NETWORK_CONNECTED" /\ alive
       THEN /\ net' = net \ Largest(net)
            /\ SaveConfig
            /\ Drop(Ids(Largest(net)))
       ELSE NoLink
  /\ Goto("reenable")
  /\ UNCHANGED <<mgr, call, cb, listening, evtq, hist>>

EnableAfterWps ==
  /\ At("reenable")
  /\ EnableNetworks
  /\ Return
  /\ UNCHANGED <<mgr, cb, listening, evtq, link, hist>>

\* disconnect_ap polls the state and returns 0 either way.
Poll ==
  /\ At("poll")
  /\ IF call.op = "connect_ap_with_netid"
       THEN Goto("begin") /\ UNCHANGED call
       ELSE Return
  /\ UNCHANGED <<mgr, cb, listening, evtq, link, conf, hist>>

(***************************************************************************)
(* The application's callback in either thread: the switch on the state,   *)
(* and for CONNECTED the DHCP client, which runs in the thread of the call. *)
(***************************************************************************)

In(t, step) == cb[t] = step
Move(t, step) == cb' = [cb EXCEPT ![t] = step]
NoApi == UNCHANGED <<enable, handle, netIdConnecting, pc, call>>

Callback(t) ==
  /\ In(t, "call")
  /\ Move(t, IF state = "CONNECTED" THEN "start" ELSE "off")
  /\ UNCHANGED <<state, event>>
  /\ NoApi /\ NoEvt /\ NoLink

StartDhcp(t) ==
  /\ In(t, "start")
  /\ Set("OBTAINING_IP", "ACTIVE_OBTAINED_IP")
  /\ Move(t, "dhcp")
  /\ NoApi /\ NoEvt /\ NoLink

\* udhcpc gets an address; the poll that sees it comes up to a second later.
Lease(t) ==
  /\ In(t, "dhcp") /\ wpa = "up"
  /\ Move(t, "leased")
  /\ UNCHANGED <<state, event>>
  /\ NoApi /\ NoEvt /\ NoLink

DhcpDone(t) ==
  /\ In(t, "leased")
  /\ state' = "NETWORK_CONNECTED"
  /\ Move(t, "off")
  /\ UNCHANGED event
  /\ NoApi /\ NoEvt /\ NoLink

\* No address in 30 s: the network last selected by identifier is given up.
DhcpTimeout(t) ==
  /\ In(t, "dhcp")
  /\ IF state = "CONNECTED"
       THEN UNCHANGED <<state, event>> /\ NoLink
       ELSE /\ Set("DISCONNECTED", "OBTAINED_IP_TIMEOUT")
            /\ CancelSavedConf(netIdConnecting)
  /\ Move(t, "off")
  /\ NoApi /\ NoEvt

(***************************************************************************)
(* The event thread.                                                       *)
(***************************************************************************)

Handles(r) ==
  /\ listening /\ In("evt", "off")
  /\ ctrl # <<>> /\ Head(ctrl) = r

Tell(r) == evtq' = Append(evtq, r)

EvtConnected ==
  /\ Handles("CONNECTED")
  /\ ctrl' = Tail(ctrl)
  /\ dropped' = FALSE
  /\ IF state = "CONNECTING"
       THEN Tell("CONNECTED") /\ UNCHANGED <<state, event, cb>>
       ELSE /\ Set("CONNECTED", "AUTO_CONNECTED")
            /\ Notify("evt")
            /\ UNCHANGED evtq
  /\ NoApi /\ UNCHANGED <<listening, wpa, cur, conf, orphan, stuck, crashed>>

EvtDisconnected ==
  /\ Handles("DISCONNECTED")
  /\ ctrl' = Tail(ctrl)
  /\ IF state \in {"CONNECTED", "NETWORK_CONNECTED"}
       THEN /\ Tell("DISCONNECTED")
            /\ Set("DISCONNECTED", "AUTO_DISCONNECTED")
            /\ Notify("evt")
            /\ dropped' = (cb["api"] \in {"start", "dhcp", "leased"})
       ELSE /\ dropped' = TRUE
            /\ UNCHANGED <<evtq, state, event, cb>>
  /\ NoApi /\ UNCHANGED <<listening, wpa, cur, conf, orphan, stuck, crashed>>

\* Failures count; only the one that reaches its threshold is told, and the
\* fifth rejection makes the event thread disconnect.
EvtFailure(r) ==
  /\ Handles(r)
  /\ \/ /\ UNCHANGED evtq
        /\ ctrl' = Tail(ctrl)
        /\ UNCHANGED <<wpa, cur>>
     \/ /\ r = "NETWORK_NOT_FOUND" => state = "CONNECTING"
        /\ Tell(r)
        /\ IF r = "ASSOC_REJECT" /\ alive
             THEN /\ wpa' = "idle" /\ cur' = NoId
                  /\ ctrl' = Tail(ctrl) \o (IF wpa = "up" THEN <<"DISCONNECTED">> ELSE <<>>)
             ELSE ctrl' = Tail(ctrl) /\ UNCHANGED <<wpa, cur>>
  /\ NoApi /\ UNCHANGED <<state, event, cb, listening, conf, hist>>

EvtTerminating ==
  /\ Handles("TERMINATING")
  /\ ctrl' = <<>>
  /\ Tell("TERMINATING")
  /\ Set("DISCONNECTED", "WPA_TERMINATING")
  /\ enable' = FALSE
  /\ listening' = FALSE
  /\ Notify("evt")
  /\ UNCHANGED <<handle, netIdConnecting, pc, call, wpa, cur, conf, hist>>

(***************************************************************************)
(* wpa_supplicant by itself.                                               *)
(***************************************************************************)

Pending == Len(ctrl) + Len(evtq)
NoManager == UNCHANGED <<mgr, pc, call, cb, listening, evtq, hist>>

SupScan ==
  /\ wpa = "scan"
  /\ \E n \in net : n.on /\ Leave("assoc", n.id)
  /\ NoManager /\ UNCHANGED conf

SupConnect ==
  /\ wpa = "assoc" /\ Pending < MaxLink
  /\ wpa' = "up"
  /\ ctrl' = Report("CONNECTED")
  /\ NoManager /\ UNCHANGED <<cur, conf>>

SupFail(r) ==
  /\ wpa = "assoc" /\ Pending < MaxLink
  /\ \/ wpa' = "scan" /\ cur' = NoId
     \/ UNCHANGED <<wpa, cur>>
  /\ ctrl' = Report(r)
  /\ NoManager /\ UNCHANGED conf

SupDrop ==
  /\ wpa = "up" /\ Pending < MaxLink
  /\ Leave("scan", NoId)
  /\ NoManager /\ UNCHANGED conf

SupTerminate ==
  /\ alive /\ Pending < MaxLink
  /\ wpa' = "dead" /\ cur' = NoId
  /\ net' = {}
  /\ ctrl' = Report("TERMINATING")
  /\ crashed' = (crashed \/ pc # "idle" \/ unsaved)
  /\ UNCHANGED <<mgr, pc, call, cb, listening, evtq, saved, unsaved>>
  /\ UNCHANGED <<orphan, stuck, dropped>>

\* Another process starts it again, from wpa_supplicant.conf.  The manager
\* would not notice before the next aw_wifi_on.
SupRestart ==
  /\ ~alive /\ ~enable /\ At("idle")
  /\ wpa' = "scan"
  /\ net' = saved /\ unsaved' = FALSE
  /\ NoManager /\ UNCHANGED <<cur, ctrl, saved>>

(***************************************************************************)
(* The specification.                                                      *)
(***************************************************************************)

Init ==
  /\ state = "DISCONNECTED" /\ event = "UNKNOWN"
  /\ enable = FALSE /\ handle = FALSE
  /\ netIdConnecting = NoId
  /\ pc = "idle" /\ call = NoCall
  /\ cb = [t \in Threads |-> "off"]
  /\ listening = FALSE
  /\ evtq = <<>> /\ ctrl = <<>>
  /\ saved = KnownNets /\ unsaved = FALSE
  /\ \/ wpa = "dead" /\ net = {} /\ cur = NoId
     \/ wpa = "scan" /\ net = saved /\ cur = NoId
     \/ wpa \in {"assoc", "up"} /\ net = saved /\ cur \in Ids(net)
  /\ orphan = FALSE /\ stuck = FALSE /\ crashed = FALSE /\ dropped = FALSE

Application ==
  \/ TurnOn \/ TurnOff \/ ConnectApAuto \/ WpsPbc \/ DisconnectAp
  \/ RemoveNetworks
  \/ \E i \in NetIds : ConnectApWithNetid(i)
  \/ \E ssid \in Ssids, pass \in Passwords :
       \/ ConnectAp(ssid, pass)
       \/ \E mgmt \in Mgmts : \/ ConnectApKeyMgmt(ssid, mgmt, pass)
                              \/ AddNetwork(ssid, mgmt, pass)

ApiStep ==
  \/ ReadStatus \/ Begin \/ ClearEvtSocket \/ CreateNetwork \/ Configure
  \/ SelectNew \/ SelectExisting \/ Reconnect \/ PushButton
  \/ WaitConnected \/ WaitFailed \/ WaitTimeout \/ WaitError
  \/ After \/ Scan \/ EnableAll \/ End \/ RemoveMaxNetid \/ EnableAfterWps
  \/ Poll

CallbackStep(t) ==
  Callback(t) \/ StartDhcp(t) \/ Lease(t) \/ DhcpDone(t) \/ DhcpTimeout(t)

EvtStep ==
  \/ EvtConnected \/ EvtDisconnected \/ EvtTerminating
  \/ \E r \in Failures : EvtFailure(r)

Supplicant ==
  \/ SupScan \/ SupConnect \/ SupDrop \/ SupTerminate \/ SupRestart
  \/ \E r \in Failures : SupFail(r)

Next ==
  \/ Application \/ ApiStep \/ EvtStep \/ Supplicant
  \/ \E t \in Threads : CallbackStep(t)

\* Both threads run; evtRead and the DHCP client give up after 70 s and 30 s.
Fairness ==
  /\ WF_vars(ApiStep) /\ WF_vars(EvtStep)
  /\ \A t \in Threads : WF_vars(CallbackStep(t))

Spec == Init /\ [][Next]_vars /\ Fairness

(***************************************************************************)
(* Properties.                                                             *)
(***************************************************************************)

Attempt == {"begin", "clear", "add", "configure", "select", "reconnect",
            "pbc", "wait"}
Labels == Attempt \cup {"idle", "status", "poll", "after", "scan", "enable",
                        "end", "remove", "reenable"}
CallType ==
  [op: AllOps \cup {"none"}, ssid: Ssids, mgmt: KeyMgmts, pass: PasswordKinds,
   new: NetIds \cup {NoId}, old: NetIds \cup {NoId}, rest: Seq(KeyMgmts),
   first: BOOLEAN, stale: Nat, ret: {0, -1}]

\* Every variable keeps to the values of its C type and of its place.
TypeOK ==
  /\ state \in wmgState /\ event \in wmgEvent
  /\ enable \in BOOLEAN /\ handle \in BOOLEAN
  /\ netIdConnecting \in NetIds \cup {NoId}
  /\ pc \in Labels
  /\ call \in CallType
  /\ cb \in [Threads -> {"off", "call", "start", "dhcp", "leased"}]
  /\ listening \in BOOLEAN
  /\ evtq \in Seq(Reports) /\ ctrl \in Seq(Reports)
  /\ wpa \in {"dead", "idle", "scan", "assoc", "up"}
  /\ cur \in NetIds \cup {NoId}
  /\ net \subseteq Network /\ saved \subseteq Network /\ unsaved \in BOOLEAN
  /\ orphan \in BOOLEAN /\ stuck \in BOOLEAN
  /\ crashed \in BOOLEAN /\ dropped \in BOOLEAN

Up == state \in {"CONNECTED", "NETWORK_CONNECTED"}
Quiet == pc = "idle" /\ \A t \in Threads : cb[t] = "off"

\* The state is CONNECTING or OBTAINING_IP, which refuses every other call,
\* only while a thread works on an attempt or on an address.  The only ways out
\* of the rule are the calls that return from CONNECTING with nothing undone
\* and an aw_wifi_on that finds a handshake under way (stuck).
BusyIsSomeonesWork ==
  Quiet /\ handle => state # "OBTAINING_IP" /\ (state = "CONNECTING" => stuck)

\* A station that the manager reports connected, with no report left to read, is
\* connected, unless its loss went unheeded (dropped): the DISCONNECTED report
\* came while the state was neither CONNECTED nor NETWORK_CONNECTED, which
\* ignores it, or while the API thread ran the DHCP client, which writes the
\* state after it; or the attempt read a report made before it; or a DHCP client
\* from before aw_wifi_on was still to write the state.
UpIsReal ==
  enable /\ ctrl = <<>> /\ Up => wpa = "up" \/ dropped

\* The calls never leave two entries of the same name and key type: the old one
\* goes when the new one connects, the new one when it does not.
NoDuplicateNetwork ==
  pc = "idle" /\ ~orphan /\ ~crashed =>
    \A m, n \in net : m.ssid = n.ssid /\ m.key = n.key => m.id = n.id

Entries(nets) == {<<n.id, n.ssid, n.key>> : n \in nets}

\* Between calls wpa_supplicant.conf lists the networks the supplicant has,
\* unless the SAVE_CONFIG that came last failed: no call changes the list and
\* returns without one.
ConfigSaved ==
  pc = "idle" /\ alive /\ ~unsaved => Entries(net) = Entries(saved)

\* A call that adds a network and fails leaves no entry of its own behind, in the
\* list whatever comes, in the file if the last SAVE_CONFIG was done.
FailedAttemptLeavesNothing ==
  pc = "end" /\ AddsNetwork /\ call.ret < 0 /\ ~orphan /\ ~crashed =>
    call.new \notin Ids(net) /\ (call.new \in Ids(saved) => unsaved)

\* The steps of such a call remove no network but its own, and the one it
\* replaces only once the new one is connected.
AttemptsKeepOtherNetworks ==
  [][ApiStep /\ AddsNetwork =>
       \A n \in net \ net' :
         \/ \E m \in net' : m.id = n.id
         \/ n.id = call.new
         \/ /\ n.ssid = call.ssid /\ n.key = KeyType(call.mgmt)
            /\ state' = "CONNECTED"]_vars

\* An attempt is decided by a report made after it began.
ReadsItsOwnReport == pc = "wait" => call.stale = 0

\* Every call returns: no attempt waits forever and the attempts run out.
CallReturns == pc # "idle" ~> pc = "idle"

\* A link that goes while the state is up brings the state down, unless the
\* report is one that the state does not heed (dropped).
LossIsNoticed ==
  Up /\ enable /\ wpa # "up" ~> ~Up \/ ~enable \/ wpa = "up" \/ dropped

=============================================================================
