---------------------------- MODULE MeshCommands ----------------------------
(***************************************************************************)
(* The command table of the mesh demo (mesh/cmd.c): what each handler asks *)
(* of the mesh stack, as a function of the arguments a of its line, and a  *)
(* session of one operator who runs commands one after the other.  A       *)
(* number stands for itself as strtol reads it in the handler's base; of a *)
(* uuid, a key or a vendor payload the number of its digits is kept.  The  *)
(* commands bear the names of their handlers, cmd_ left out.               *)
(***************************************************************************)
EXTENDS Integers, Sequences

CONSTANTS
  Primary,    \* aw_mesh_primary_addr_get: the unicast address of this node
  Assignments,  \* bound: what the words of a usage line may stand for
  MaxLines    \* bound: how many commands are run

Words == {"dst", "ele_idx", "model_id", "app_idx", "net_idx", "value"}

ASSUME MeshCommandsAssumption ==
  /\ Primary \in 1..32767
  /\ Assignments \subseteq [Words -> Nat]
  /\ MaxLines \in Nat

VARIABLES
  words,    \* what the operator means by each word, in the whole session
  argv,     \* args of process_cmdline, on the stack and never cleared
  tid,      \* the static counter of cmd_goo_client
  last,     \* the last line run and what it asked for
  before,   \* the one before it
  lines     \* how many have run (for the bound)

vars == <<words, argv, tid, last, before, lines>>

U8(x)  == x % 256
U16(x) == x % 65536

\* One table made of several; each command has its row in one of them.
Table(parts) ==
  [c \in UNION {DOMAIN parts[n] : n \in DOMAIN parts} |->
     parts[CHOOSE n \in DOMAIN parts : c \in DOMAIN parts[n]][c]]
\* One row for all the names.
With(row, names) == [c \in names |-> row]

Nothing == [op |-> "none"]

\* A request of the configuration client: AW_MESH_BUILD_CFG_META_DATA(dst, 255, 0).
Cfg(a, op, data) == [op |-> op, dst |-> U16(a[1]), ttl |-> 255, netkey |-> 0, data |-> data]
\* The same, sent under the network key that it is about.
Under(net, request) == [request EXCEPT !.netkey = net]

\* get_ele_addr; dst and idx have 16 bits by then.
ElementAddr(dst, idx) == U16((IF U16(dst) = 0 THEN Primary ELSE U16(dst)) + idx)

(***************************************************************************)
(* Before provisioning: enable, vendor data, invitation and scan.          *)
(***************************************************************************)

\* A longer uuid is cut.
Enable(a) ==
  IF a[3] < 32 THEN Nothing ELSE [op |-> "enable", role |-> a[1], feature |-> a[2]]

\* The length of the digits is kept in eight bits; the length of the message is not.
\* Only digits are typed here: a text that str2hex refuses is not sent.
VendorData(a) ==
  [op |-> "mesh_msg", dst |-> U16(a[2]), ele |-> a[3], netkey |-> a[4], appkey |-> a[5],
   ttl |-> U8(a[6]), decoded |-> U8(a[1]) \div 2, dlen |-> a[1] \div 2]

ProvisionRequests(a) == [
  invite           |-> IF a[1] # 32 THEN Nothing
                       ELSE [op |-> "prov_invite", attention |-> a[2]],
  prov_node_cancel |-> [op |-> "prov_cancel", reason |-> a[1]],
  unprov_scan      |-> [op |-> "scan", on |-> a[1] # 0, duration |-> (a[2] \div 16) * 10],
  set_scan_para    |-> Nothing,
  set_adv_para     |-> Nothing,
  send_beacon      |-> [op |-> "send_beacon", number |-> U16(a[1]), interval |-> U16(a[2])],
  set_scan_enable  |-> Nothing]

(***************************************************************************)
(* The configuration client: keys and bindings.                            *)
(***************************************************************************)

AppKeyRequests(a) ==
  LET keys(key) == [netkey_index |-> U16(a[2]), appkey_index |-> U16(a[3]), appkey |-> key]
  IN  [app_key_update |-> Cfg(a, "APPKEY_UPDATE", keys("local_new_app_key")),
       appkey_add     |-> Cfg(a, "APPKEY_ADD", keys("local_app_key"))]

\* The element index has eight bits here and sixteen in every other command.
BindRequest(a) ==
  Cfg(a, "MODEL_APP_BIND", [element_addr |-> ElementAddr(a[1], U8(a[2])),
                            model_id |-> a[3], appkey_index |-> U16(a[4])])

\* What goo_client sends, with the transaction number t.
OnOffSet(a, t) ==
  [op |-> "onoff_set", ele |-> U16(a[1]), dst |-> U16(a[2]), appkey |-> U16(a[3]),
   on |-> U16(a[4]) # 0, tid |-> t]

OnOffRequests(a, t) == [
  goo        |-> [op |-> "model_goo_send", dst |-> U16(a[1]), appkey |-> U16(a[2]),
                  on |-> U16(a[3])],
  goo_client |-> OnOffSet(a, t)]

KeyRequests(a) ==
  LET net == U16(a[2])
      key(op, data) == Under(net, Cfg(a, op, data))
  IN  [netkey_update |-> key("NETKEY_UPDATE", [netkey_index |-> net, netkey |-> "new"]),
       netkey_add    |-> key("NETKEY_ADD", [netkey_index |-> net, netkey |-> "first"]),
       netkey_get    |-> key("NETKEY_GET", <<>>),
       netkey_del    |-> key("NETKEY_DELETE", [netkey_index |-> net]),
       appkey_get    |-> key("APPKEY_GET", [netkey_index |-> net])]

AppKeyDelete(a) ==
  Under(U16(a[2]), Cfg(a, "APPKEY_DELETE", [netkey_index |-> U16(a[2]),
                                            appkey_index |-> U16(a[3])]))

Element(a) == ElementAddr(a[1], U16(a[2]))

UnbindInBindOrder(a) ==  \* mutant: the arguments are read in the order of bind
  Cfg(a, "MODEL_APP_UNBIND",
      [element_addr |-> Element(a), model_id |-> a[3], appkey_index |-> U16(a[4])])

UnbindRequest(a) ==
  Cfg(a, "MODEL_APP_UNBIND",
      [element_addr |-> Element(a), appkey_index |-> U16(a[3]), model_id |-> a[4]])

AppGetRequests(a) ==
  LET model == [element_addr |-> Element(a), model_id |-> a[3]]
  IN  [model_app_get      |-> Cfg(a, "MODEL_APP_GET", model),
       vend_model_app_get |-> Cfg(a, "VEND_MODEL_APP_GET", model)]

(***************************************************************************)
(* The configuration client: subscription and publication.                 *)
(***************************************************************************)

\* The operations of a subscription list by their codes on the air.
SubAdd     == \h801B
SubPlain   == {SubAdd, \h801C, \h801E}    \* add, delete, overwrite
SubVirtual == {\h8020, \h8021, \h8022}    \* the same of a virtual address
SubDeleteAll == \h801D

\* The operation decides whether a label goes with the address; its type is
\* whatever the line says.
SubSetRequest(a) ==
  LET op == U16(a[6])
      under(uuid) ==
        [element_addr |-> Element(a), model_id |-> a[5],
         address |-> [type |-> U16(a[4]), value |-> U16(a[3]), virtual_uuid |-> uuid]]
  IN  CASE op \in SubPlain     -> Cfg(a, op, under("NULL"))
        [] op \in SubVirtual   -> Cfg(a, op, under("label"))
        [] op = SubDeleteAll   -> Cfg(a, op, [element_addr |-> Element(a), model_id |-> a[5]])
        [] OTHER               -> Nothing

SubGetRequest(a) ==
  IF U16(a[4]) = 1
  THEN Cfg(a, "VEND_MODEL_SUB_GET", [element_addr |-> Element(a), model_id |-> a[3]])
  ELSE Cfg(a, "MODEL_SUB_GET", [element_addr |-> Element(a), model_id |-> U16(a[3])])

PubSetRequest(a) ==
  LET virtual == U16(a[4]) = 1
      address == IF virtual
                 THEN [type |-> "VIRTUAL", value |-> 0, virtual_uuid |-> "label"]
                 ELSE [type |-> "UNICAST", value |-> U16(a[3]), virtual_uuid |-> "NULL"]
      state == [element_addr |-> Element(a), address |-> address, model_id |-> a[5],
                appkey_index |-> U16(a[6]), period |-> U8(a[7]), ttl |-> U8(a[8]),
                count |-> U8(a[9]), step |-> U8(a[10])]
  IN  [Cfg(a, IF virtual THEN "PUB_VIRT_SET" ELSE "PUB_SET", state) EXCEPT !.ttl = 63]

PubGetRequest(a) ==
  Cfg(a, "PUB_GET", [element_addr |-> Element(a), model_id |-> a[3]])

(***************************************************************************)
(* The configuration client: the states of a node.                         *)
(***************************************************************************)

NodeStateRequests(a) == [
  composition_get |-> Cfg(a, "COMP_GET", [page |-> U8(a[2])]),
  beacon_set      |-> Cfg(a, "BEACON_SET", [beacon |-> U8(a[2])]),
  beacon_get      |-> Cfg(a, "BEACON_GET", <<>>),
  relay_set       |-> Cfg(a, "RELAY_SET", [relay |-> U8(a[2]), count |-> U8(a[3]),
                                           steps |-> U8(a[4])]),
  relay_get       |-> Cfg(a, "RELAY_GET", <<>>)]

IdentityRequests(a) == [
  ident_set |-> Cfg(a, "IDENTITY_SET", [netkey_index |-> U16(a[2]), identity |-> U8(a[3])]),
  ident_get |-> Cfg(a, "IDENTITY_GET", [netkey_index |-> U16(a[2])]),
  proxy_set |-> Cfg(a, "PROXY_SET", [gatt_proxy |-> U8(a[2])]),
  proxy_get |-> Cfg(a, "PROXY_GET", <<>>)]

ReadsOneMore(a) == [     \* mutant: a field is taken from behind the last argument
  hb_sub_add |-> Cfg(a, "HB_SUB_SET", [source |-> U16(a[2]), destination |-> U16(a[3]),
                                       period |-> U8(a[5])]),
  hb_sub_get |-> Cfg(a, "HB_SUB_GET", <<>>),
  hb_pub_add |-> Cfg(a, "HB_PUB_SET", [destination |-> U16(a[2]), count |-> U8(a[3]),
                                       period |-> U8(a[4]), ttl |-> U8(a[5]),
                                       features |-> U16(a[6]), netkey_index |-> U16(a[7])]),
  hb_pub_get |-> Cfg(a, "HB_PUB_GET", <<>>)]

HeartbeatRequests(a) == [
  hb_sub_add |-> Cfg(a, "HB_SUB_SET", [source |-> U16(a[2]), destination |-> U16(a[3]),
                                       period |-> U8(a[4])]),
  hb_sub_get |-> Cfg(a, "HB_SUB_GET", <<>>),
  hb_pub_add |-> Cfg(a, "HB_PUB_SET", [destination |-> U16(a[2]), count |-> U8(a[3]),
                                       period |-> U8(a[4]), ttl |-> U8(a[5]),
                                       features |-> U16(a[6]), netkey_index |-> U16(a[7])]),
  hb_pub_get |-> Cfg(a, "HB_PUB_GET", <<>>)]

TransmitRequests(a) == [
  ttl_set          |-> Cfg(a, "TTL_SET", [ttl |-> U8(a[2])]),
  ttl_get          |-> Cfg(a, "TTL_GET", <<>>),
  net_transmit_set |-> Cfg(a, "TRANSMIT_SET", [count |-> U8(a[2]), steps |-> U8(a[3])]),
  net_transmit_get |-> Cfg(a, "TRANSMIT_GET", <<>>),
  friend_get       |-> Cfg(a, "FRIEND_GET", <<>>),
  friend_set       |-> Cfg(a, "FRIEND_SET", [mesh_friend |-> U8(a[2])])]

NodeRequests(a) == [
  node_reset   |-> Cfg(a, "NODE_RESET", <<>>),
  poll_timeout |-> Cfg(a, "POLL_TIMEOUT_LIST", [address |-> U16(a[2])])]

KeyRefreshRequests(a) == [
  key_refresh_set |-> Cfg(a, "KEY_REFRESH_SET", [netkey_index |-> U16(a[2]),
                                                 transition |-> U8(a[3])]),
  key_refresh_get |-> Cfg(a, "KEY_REFRESH_GET", [netkey_index |-> U16(a[2])])]

(***************************************************************************)
(* Packets for tests, and the other calls of the stack.                    *)
(***************************************************************************)

\* aw_mesh_send_packet: to one address, once for each time-to-live.
Packets(dst, ttls, appkey, size) ==
  [op |-> "send_packet", dst |-> U16(dst), ttls |-> ttls, appkey |-> appkey, size |-> size]

NetworkLayerTest(a) == Packets(a[1], <<0, 0, 10, 127>>, 32767, 15)

SendData(a) ==
  LET segmented == U8(a[2]) = 1
      group == U16(a[3])
  IN  Packets(IF segmented /\ group # 0 THEN group ELSE a[1], <<127>>, 0,
              IF segmented THEN 16 ELSE 5)

StackRequests(a) == [
  set_start_beacon |-> [op |-> "set_start_beacon", dst |-> U16(a[1]), net |-> U16(a[2]),
                        phase |-> U16(a[3])],
  dis_test         |-> [op |-> "scan", times |-> a[1], duration |-> a[2]],
  friend_request   |-> [op |-> "frnd_request", cache |-> U8(a[1]), offer_delay |-> U8(a[2]),
                        delay |-> U8(a[3]), timeout |-> a[4]]]

AuthRequests(a) == [
  prov_set_manaual_choose |-> [op |-> "manaual_choose", enable |-> U8(a[1])],
  prov_set_choose_param   |-> [op |-> "choose_paramters", pub |-> U8(a[1]), auth |-> U8(a[2]),
                               size |-> U8(a[3]), action |-> U16(a[4])],
  prov_set_static_val     |-> IF a[1] # 32 THEN Nothing ELSE [op |-> "static_value"],
  prov_set_auth_num       |-> [op |-> "auth_number", number |-> U8(a[1])],
  prov_set_pub_key        |-> IF a[1] # 128 THEN Nothing ELSE [op |-> "pub_key"],
  prov_set_data           |-> [op |-> "prov_data", net |-> U16(a[1]), unicast |-> U16(a[2])],
  mesh_set_protocol_param |-> [op |-> "protocol_param", crpl |-> U16(a[1]),
                               interval |-> U16(a[2])],
  mesh_set_iv_test_mode   |-> [op |-> "iv_test_mode", mode |-> U8(a[1])],
  mesh_set_iv_index_update |-> [op |-> "update_iv", index |-> a[1], flag |-> U8(a[2])],
  mesh_get_iv_index_update |-> [op |-> "get_iv"]]

\* These read their arguments and ask for nothing.
TestModes == {"set_test_data", "node_set_mode", "set_health_test"}
Resets == {"model_reset", "model_onpowerup_reset", "model_onpowerup_hsl_reset", "pts_client"}

Groups(a, t) ==
  <<[enable |-> Enable(a), db |-> [op |-> "show_prov_db"],
     vendor_model_data_send |-> VendorData(a)],
    ProvisionRequests(a), OnOffRequests(a, t), AppKeyRequests(a), KeyRequests(a),
    [appkey_del |-> AppKeyDelete(a), bind |-> BindRequest(a), unbind |-> UnbindRequest(a)],
    AppGetRequests(a),
    [sub_set |-> SubSetRequest(a), sub_get |-> SubGetRequest(a),
     pub_set |-> PubSetRequest(a), pub_get |-> PubGetRequest(a)],
    NodeStateRequests(a), IdentityRequests(a), HeartbeatRequests(a),
    TransmitRequests(a), NodeRequests(a), KeyRefreshRequests(a),
    [network_layer_test |-> NetworkLayerTest(a), send_data |-> SendData(a)],
    StackRequests(a), AuthRequests(a),
    With(Nothing, TestModes \cup Resets \cup {"quit_app"})>>

AllRequests(a, t) == Table(Groups(a, t))

Request(cmd, a, t) == AllRequests(a, t)[cmd]

(***************************************************************************)
(* cmd_table: how many arguments a command takes, and for the commands on  *)
(* the objects of a node what its usage line calls them.                   *)
(***************************************************************************)

NoArgument == {"db", "quit_app", "mesh_get_iv_index_update"} \cup Resets
OneArgument ==
  {"prov_node_cancel", "set_scan_enable", "beacon_get", "relay_get", "proxy_get",
   "hb_sub_get", "hb_pub_get", "ttl_get", "net_transmit_get", "friend_get",
   "network_layer_test", "node_reset", "set_test_data", "node_set_mode",
   "prov_set_manaual_choose", "prov_set_static_val", "prov_set_auth_num",
   "prov_set_pub_key", "mesh_set_iv_test_mode"}
TwoArguments ==
  {"unprov_scan", "invite", "set_scan_para", "dis_test", "netkey_add", "netkey_del",
   "netkey_get", "netkey_update", "appkey_get", "composition_get", "beacon_set",
   "ident_get", "proxy_set", "ttl_set", "friend_set", "poll_timeout",
   "key_refresh_get", "send_beacon", "prov_set_data", "mesh_set_protocol_param",
   "mesh_set_iv_index_update"}
ThreeArguments ==
  {"enable", "set_adv_para", "goo", "appkey_add", "appkey_del", "app_key_update",
   "model_app_get", "vend_model_app_get", "pub_get", "ident_set",
   "net_transmit_set", "send_data", "key_refresh_set", "set_start_beacon"}
FourArguments ==
  {"goo_client", "bind", "unbind", "sub_get", "relay_set", "hb_sub_add",
   "friend_request", "prov_set_choose_param"}

CmdTable ==
  Table(<<With(0, NoArgument), With(1, OneArgument), With(2, TwoArguments),
          With(3, ThreeArguments), With(4, FourArguments), With(5, {"set_health_test"}),
          With(6, {"sub_set", "vendor_model_data_send"}), With(7, {"hb_pub_add"}),
          With(10, {"pub_set"})>>)

NetUsage == <<"dst", "net_idx">>
KeyUsage == <<"dst", "net_idx", "app_idx">>
ModelUsage == <<"dst", "ele_idx", "model_id">>

ObjectUsage ==
  Table(<<
    With(NetUsage, {"netkey_add", "netkey_del", "netkey_update", "appkey_get",
                    "key_refresh_get", "ident_get"}),
    With(KeyUsage, {"appkey_add", "appkey_del", "app_key_update"}),
    With(ModelUsage, {"model_app_get", "vend_model_app_get", "pub_get"}),
    [bind   |-> <<"dst", "ele_idx", "model_id", "app_idx">>,
     unbind |-> <<"dst", "ele_idx", "app_idx", "model_id">>,
     sub_set |-> <<"dst", "ele_idx", "value", "value", "model_id", "opcode">>,
     sub_get |-> ModelUsage \o <<"is_vendor">>,
     pub_set |-> <<"dst", "ele_idx", "value", "value", "model_id", "app_idx",
                   "value", "value", "value", "value">>,
     key_refresh_set |-> NetUsage \o <<"value">>,
     ident_set |-> NetUsage \o <<"value">>]>>)

\* The words of a line; those that name no object of a node are all alike.
Usage(cmd) ==
  IF cmd \in DOMAIN ObjectUsage THEN ObjectUsage[cmd]
  ELSE [n \in 1..CmdTable[cmd] |-> IF n = 1 THEN "dst" ELSE "value"]

(***************************************************************************)
(* The session.                                                            *)
(***************************************************************************)

Means(word) ==
  CASE word \in Words -> words[word]
    [] word = "opcode" -> SubAdd
    [] word = "is_vendor" -> 1

LineOf(cmd) == [n \in 1..CmdTable[cmd] |-> Means(Usage(cmd)[n])]

\* strtok_r fills args from the front; what lies behind stays as it was.
Parsed(args) ==
  [n \in DOMAIN argv |-> IF n <= Len(args) THEN args[n] ELSE argv[n]]

RunCommand(cmd) ==
  /\ lines < MaxLines
  /\ lines' = lines + 1
  /\ argv' = Parsed(LineOf(cmd))
  /\ before' = last
  /\ last' = [cmd |-> cmd, request |-> Request(cmd, argv', tid)]
  /\ tid' = IF cmd = "goo_client" THEN U8(tid + 1) ELSE tid
  /\ UNCHANGED words

NoLine == [cmd |-> "none", request |-> Nothing]

Init ==
  /\ words \in Assignments
  /\ argv \in {[n \in 1..10 |-> junk] : junk \in {0, 77}}
  /\ tid = 0
  /\ last = NoLine /\ before = NoLine
  /\ lines = 0

Next == \E cmd \in DOMAIN CmdTable : RunCommand(cmd)

Spec == Init /\ [][Next]_vars

(***************************************************************************)
(* Properties.                                                             *)
(***************************************************************************)

\* No handler uses an argument that its row of the table does not ask for: what
\* a longer line or the stack has left behind them changes no request
\* (process_cmdline counts, the handlers index args).
RequestIsOfItsLine ==
  last # NoLine =>
    LET fresh == [n \in 1..10 |-> IF n <= CmdTable[last.cmd] THEN argv[n] ELSE 1]
    IN  last.request = Request(last.cmd, fresh, U8(tid + 255))

\* A command and one that undoes, changes or reads back what it has set up.
Pairs ==
  {<<"netkey_add", "netkey_del">>, <<"netkey_add", "netkey_update">>,
   <<"netkey_add", "key_refresh_set">>, <<"key_refresh_set", "key_refresh_get">>,
   <<"ident_set", "ident_get">>,
   <<"appkey_add", "appkey_del">>, <<"appkey_add", "app_key_update">>,
   <<"appkey_add", "appkey_get">>,
   <<"bind", "unbind">>, <<"bind", "model_app_get">>, <<"bind", "vend_model_app_get">>,
   <<"sub_set", "sub_get">>, <<"pub_set", "pub_get">>}

\* Two requests to one node that agree on every object both name.
SameObject(r1, r2) ==
  /\ r1.dst = r2.dst
  /\ \A f \in {"element_addr", "model_id", "appkey_index", "netkey_index"} :
       f \in DOMAIN r1.data \cap DOMAIN r2.data => r1.data[f] = r2.data[f]

\* Given the same values for the words of their usage lines, whose order differs,
\* two commands of a pair are about the same keys, element and model; of the
\* element only below 256, where bind does not cut its index (cmd_bind).
UndoNamesTheSame ==
  <<before.cmd, last.cmd>> \in Pairs /\ words["ele_idx"] < 256
    => SameObject(before.request, last.request)
=============================================================================
