------------------------- MODULE MeshCommandsProofs -------------------------
(***************************************************************************)
(* Theorems about MeshCommands, for any meaning of the words, any address  *)
(* of the node and any number of lines.                                    *)
(*                                                                         *)
(* RequestOfLine: two lines that agree in the arguments which cmd_table    *)
(* counts make the same request; it has a lemma for each group of          *)
(* handlers.  NamesItsObjects: the request of a command whose usage line   *)
(* names a node, an element, a model or a key is about that.  Both are     *)
(* about one line; CommandsInv carries them through a session.             *)
(***************************************************************************)
EXTENDS MeshCommands, TLAPS

(***************************************************************************)
(* Tables.                                                                 *)
(***************************************************************************)

\* The row of a command that one part has.
LEMMA TableRow ==
  ASSUME NEW parts, NEW n \in DOMAIN parts, NEW c \in DOMAIN parts[n],
         \A m \in DOMAIN parts : c \in DOMAIN parts[m] => m = n
  PROVE  c \in DOMAIN Table(parts) /\ Table(parts)[c] = parts[n][c]
<1>1. c \in UNION {DOMAIN parts[m] : m \in DOMAIN parts}
  OBVIOUS
<1>2. n = (CHOOSE m \in DOMAIN parts : c \in DOMAIN parts[m])
  <2>1. \E m \in DOMAIN parts : c \in DOMAIN parts[m]
    OBVIOUS
  <2>2. LET m == CHOOSE m \in DOMAIN parts : c \in DOMAIN parts[m]
        IN  m \in DOMAIN parts /\ c \in DOMAIN parts[m]
    BY <2>1
  <2> QED
    BY <2>2
<1> QED
  BY <1>1, <1>2 DEF Table

\* Two tables have the same row for c if their parts have the same rows.
LEMMA TableSame ==
  ASSUME NEW p, NEW q, DOMAIN p = DOMAIN q,
         \A n \in DOMAIN p : DOMAIN p[n] = DOMAIN q[n],
         NEW c, \A n \in DOMAIN p : c \in DOMAIN p[n] => p[n][c] = q[n][c],
         c \in DOMAIN Table(p)
  PROVE  Table(p)[c] = Table(q)[c]
<1> DEFINE Having(r) == {n \in DOMAIN r : c \in DOMAIN r[n]}
<1>1. Having(p) = Having(q)
  OBVIOUS
<1>2. /\ c \in UNION {DOMAIN p[n] : n \in DOMAIN p}
      /\ c \in UNION {DOMAIN q[n] : n \in DOMAIN q}
  BY DEF Table
<1>3. /\ Table(p)[c] = p[CHOOSE n \in DOMAIN p : c \in DOMAIN p[n]][c]
      /\ Table(q)[c] = q[CHOOSE n \in DOMAIN q : c \in DOMAIN q[n]][c]
  BY <1>2 DEF Table
<1>4. (CHOOSE n \in DOMAIN p : c \in DOMAIN p[n]) = (CHOOSE n \in DOMAIN q : c \in DOMAIN q[n])
  BY Zenon
<1>5. \E n \in DOMAIN p : c \in DOMAIN p[n]
  BY <1>2
<1>6. LET m == CHOOSE n \in DOMAIN p : c \in DOMAIN p[n]
      IN  m \in DOMAIN p /\ c \in DOMAIN p[m]
  BY <1>5
<1> QED
  BY <1>3, <1>4, <1>6

\* A table that states one thing for all its commands.
LEMMA WithRows ==
  ASSUME NEW n, NEW s
  PROVE  DOMAIN With(n, s) = s /\ \A c \in s : With(n, s)[c] = n
BY DEF With

(***************************************************************************)
(* cmd_table.                                                              *)
(***************************************************************************)

\* No command has two rows.
LEMMA OneRow ==
  /\ NoArgument \cap OneArgument = {}
  /\ (NoArgument \cup OneArgument) \cap TwoArguments = {}
  /\ (NoArgument \cup OneArgument \cup TwoArguments) \cap ThreeArguments = {}
  /\ (NoArgument \cup OneArgument \cup TwoArguments \cup ThreeArguments)
       \cap FourArguments = {}
  /\ (NoArgument \cup OneArgument \cup TwoArguments \cup ThreeArguments \cup FourArguments)
       \cap {"set_health_test", "sub_set", "vendor_model_data_send", "hb_pub_add",
             "pub_set"} = {}
<1>1. NoArgument \cap OneArgument = {}
  BY DEF NoArgument, OneArgument, Resets
<1>2. (NoArgument \cup OneArgument) \cap TwoArguments = {}
  BY DEF NoArgument, OneArgument, TwoArguments, Resets
<1>3. (NoArgument \cup OneArgument \cup TwoArguments) \cap ThreeArguments = {}
  BY DEF NoArgument, OneArgument, TwoArguments, ThreeArguments, Resets
<1>4. (NoArgument \cup OneArgument \cup TwoArguments \cup ThreeArguments)
        \cap FourArguments = {}
  BY DEF NoArgument, OneArgument, TwoArguments, ThreeArguments, FourArguments, Resets
<1>5. (NoArgument \cup OneArgument \cup TwoArguments \cup ThreeArguments \cup FourArguments)
       \cap {"set_health_test", "sub_set", "vendor_model_data_send", "hb_pub_add",
             "pub_set"} = {}
  BY DEF NoArgument, OneArgument, TwoArguments, ThreeArguments, FourArguments, Resets
<1> QED
  BY <1>1, <1>2, <1>3, <1>4, <1>5

\* What its row says of each command.
LEMMA Arities ==
  /\ DOMAIN CmdTable = NoArgument \cup OneArgument \cup TwoArguments \cup ThreeArguments
       \cup FourArguments \cup {"set_health_test", "sub_set", "vendor_model_data_send",
                                "hb_pub_add", "pub_set"}
  /\ \A c \in NoArgument : CmdTable[c] = 0
  /\ \A c \in OneArgument : CmdTable[c] = 1
  /\ \A c \in TwoArguments : CmdTable[c] = 2
  /\ \A c \in ThreeArguments : CmdTable[c] = 3
  /\ \A c \in FourArguments : CmdTable[c] = 4
  /\ CmdTable["set_health_test"] = 5
  /\ CmdTable["sub_set"] = 6 /\ CmdTable["vendor_model_data_send"] = 6
  /\ CmdTable["hb_pub_add"] = 7
  /\ CmdTable["pub_set"] = 10
<1> DEFINE five == {"set_health_test"}
           six == {"sub_set", "vendor_model_data_send"}
           seven == {"hb_pub_add"}
           ten == {"pub_set"}
           parts == <<With(0, NoArgument), With(1, OneArgument), With(2, TwoArguments),
                      With(3, ThreeArguments), With(4, FourArguments), With(5, five),
                      With(6, six), With(7, seven), With(10, ten)>>
<1>1. CmdTable = Table(parts)
  BY DEF CmdTable
<1>2. five \cap six = {} /\ (five \cup six) \cap seven = {}
      /\ (five \cup six \cup seven) \cap ten = {}
  OBVIOUS
<1>3. five \cup six \cup seven \cup ten =
        {"set_health_test", "sub_set", "vendor_model_data_send", "hb_pub_add", "pub_set"}
  OBVIOUS
<1> HIDE DEF five, six, seven, ten
<1>4. /\ DOMAIN parts = 1..9
      /\ DOMAIN parts[1] = NoArgument /\ DOMAIN parts[2] = OneArgument
      /\ DOMAIN parts[3] = TwoArguments /\ DOMAIN parts[4] = ThreeArguments
      /\ DOMAIN parts[5] = FourArguments /\ DOMAIN parts[6] = five
      /\ DOMAIN parts[7] = six /\ DOMAIN parts[8] = seven /\ DOMAIN parts[9] = ten
  BY WithRows
<1>5. /\ \A c \in NoArgument : parts[1][c] = 0
      /\ \A c \in OneArgument : parts[2][c] = 1
      /\ \A c \in TwoArguments : parts[3][c] = 2
      /\ \A c \in ThreeArguments : parts[4][c] = 3
      /\ \A c \in FourArguments : parts[5][c] = 4
      /\ \A c \in five : parts[6][c] = 5
      /\ \A c \in six : parts[7][c] = 6
      /\ \A c \in seven : parts[8][c] = 7
      /\ \A c \in ten : parts[9][c] = 10
  BY WithRows
<1> HIDE DEF parts
<1>6. \A m, n \in 1..9 : m # n => DOMAIN parts[m] \cap DOMAIN parts[n] = {}
  BY <1>2, <1>3, <1>4, OneRow
<1>7. \A n \in 1..9 : \A c \in DOMAIN parts[n] : CmdTable[c] = parts[n][c]
  <2> SUFFICES ASSUME NEW n \in 1..9, NEW c \in DOMAIN parts[n]
               PROVE  CmdTable[c] = parts[n][c]
    OBVIOUS
  <2>1. \A m \in DOMAIN parts : c \in DOMAIN parts[m] => m = n
    BY <1>4, <1>6
  <2>2. n \in DOMAIN parts
    BY <1>4
  <2>3. Table(parts)[c] = parts[n][c]
    BY <2>1, <2>2, TableRow, Zenon
  <2> QED
    BY <1>1, <2>3
<1>8. DOMAIN CmdTable = UNION {DOMAIN parts[n] : n \in 1..9}
  BY <1>1, <1>4 DEF Table
<1>9. DOMAIN CmdTable = NoArgument \cup OneArgument \cup TwoArguments \cup ThreeArguments
       \cup FourArguments \cup (five \cup six \cup seven \cup ten)
  <2>1. \A n \in 1..9 : n = 1 \/ n = 2 \/ n = 3 \/ n = 4 \/ n = 5 \/ n = 6 \/ n = 7
                        \/ n = 8 \/ n = 9
    OBVIOUS
  <2>2. 1 \in 1..9 /\ 2 \in 1..9 /\ 3 \in 1..9 /\ 4 \in 1..9 /\ 5 \in 1..9
        /\ 6 \in 1..9 /\ 7 \in 1..9 /\ 8 \in 1..9 /\ 9 \in 1..9
    OBVIOUS
  <2> QED
    BY <1>4, <1>8, <2>1, <2>2
<1>10. /\ \A c \in NoArgument : CmdTable[c] = 0
       /\ \A c \in OneArgument : CmdTable[c] = 1
       /\ \A c \in TwoArguments : CmdTable[c] = 2
       /\ \A c \in ThreeArguments : CmdTable[c] = 3
       /\ \A c \in FourArguments : CmdTable[c] = 4
       /\ \A c \in five : CmdTable[c] = 5
       /\ \A c \in six : CmdTable[c] = 6
       /\ \A c \in seven : CmdTable[c] = 7
       /\ \A c \in ten : CmdTable[c] = 10
  BY <1>4, <1>5, <1>7
<1>11. /\ "set_health_test" \in five /\ "sub_set" \in six
       /\ "vendor_model_data_send" \in six /\ "hb_pub_add" \in seven /\ "pub_set" \in ten
  BY DEF five, six, seven, ten
<1> QED
  BY <1>3, <1>9, <1>10, <1>11

(***************************************************************************)
(* What a handler asks for is of the arguments that its row counts.        *)
(***************************************************************************)

\* a and b are alike in the arguments that c takes.
Agree(a, b, c) == \A k \in 1..CmdTable[c] : a[k] = b[k]

\* Agreement, one argument at a time.
LEMMA FirstArguments ==
  ASSUME NEW a, NEW b, NEW c, Agree(a, b, c), CmdTable[c] \in 0..10
  PROVE  /\ CmdTable[c] >= 1 => a[1] = b[1]
         /\ CmdTable[c] >= 2 => a[2] = b[2]
         /\ CmdTable[c] >= 3 => a[3] = b[3]
         /\ CmdTable[c] >= 4 => a[4] = b[4]
         /\ CmdTable[c] >= 5 => a[5] = b[5]
         /\ CmdTable[c] >= 6 => a[6] = b[6]
         /\ CmdTable[c] >= 7 => a[7] = b[7]
         /\ CmdTable[c] >= 8 => a[8] = b[8]
         /\ CmdTable[c] >= 9 => a[9] = b[9]
         /\ CmdTable[c] >= 10 => a[10] = b[10]
BY DEF Agree

\* A request of the configuration client takes the node from the first argument.
LEMMA CfgSame ==
  ASSUME NEW a, NEW b, a[1] = b[1], NEW op, NEW data
  PROVE  Cfg(a, op, data) = Cfg(b, op, data)
BY DEF Cfg

\* Invitation, cancel, scan and beacon.
LEMMA ProvisionLine ==
  ASSUME NEW a, NEW b, NEW c \in DOMAIN ProvisionRequests(a), Agree(a, b, c)
  PROVE  ProvisionRequests(a)[c] = ProvisionRequests(b)[c]
<1>1. /\ CmdTable["invite"] = 2 /\ CmdTable["prov_node_cancel"] = 1
      /\ CmdTable["unprov_scan"] = 2 /\ CmdTable["set_scan_para"] = 2
      /\ CmdTable["set_adv_para"] = 3 /\ CmdTable["send_beacon"] = 2
      /\ CmdTable["set_scan_enable"] = 1
  BY Arities DEF OneArgument, TwoArguments, ThreeArguments
<1> QED
  BY <1>1, CfgSame, FirstArguments DEF ProvisionRequests

\* Adding and updating an application key.
LEMMA AppKeyLine ==
  ASSUME NEW a, NEW b, NEW c \in DOMAIN AppKeyRequests(a), Agree(a, b, c)
  PROVE  AppKeyRequests(a)[c] = AppKeyRequests(b)[c]
<1>1. CmdTable["app_key_update"] = 3 /\ CmdTable["appkey_add"] = 3
  BY Arities DEF ThreeArguments
<1> QED
  BY <1>1, CfgSame, FirstArguments DEF AppKeyRequests

\* Network keys, and the list of application keys.
LEMMA KeyLine ==
  ASSUME NEW a, NEW b, NEW c \in DOMAIN KeyRequests(a), Agree(a, b, c)
  PROVE  KeyRequests(a)[c] = KeyRequests(b)[c]
<1>1. /\ CmdTable["netkey_update"] = 2 /\ CmdTable["netkey_add"] = 2
      /\ CmdTable["netkey_get"] = 2 /\ CmdTable["netkey_del"] = 2
      /\ CmdTable["appkey_get"] = 2
  BY Arities DEF TwoArguments
<1> QED
  BY <1>1, CfgSame, FirstArguments DEF KeyRequests

\* Reading the keys bound to a model.
LEMMA AppGetLine ==
  ASSUME NEW a, NEW b, NEW c \in DOMAIN AppGetRequests(a), Agree(a, b, c)
  PROVE  AppGetRequests(a)[c] = AppGetRequests(b)[c]
<1>1. CmdTable["model_app_get"] = 3 /\ CmdTable["vend_model_app_get"] = 3
  BY Arities DEF ThreeArguments
<1> QED
  BY <1>1, CfgSame, FirstArguments DEF AppGetRequests, Element

\* Composition, beacon and relay.
LEMMA NodeStateLine ==
  ASSUME NEW a, NEW b, NEW c \in DOMAIN NodeStateRequests(a), Agree(a, b, c)
  PROVE  NodeStateRequests(a)[c] = NodeStateRequests(b)[c]
<1>1. /\ CmdTable["composition_get"] = 2 /\ CmdTable["beacon_set"] = 2
      /\ CmdTable["beacon_get"] = 1 /\ CmdTable["relay_set"] = 4
      /\ CmdTable["relay_get"] = 1
  BY Arities DEF OneArgument, TwoArguments, FourArguments
<1> QED
  BY <1>1, CfgSame, FirstArguments DEF NodeStateRequests

\* Node identity and proxy.
LEMMA IdentityLine ==
  ASSUME NEW a, NEW b, NEW c \in DOMAIN IdentityRequests(a), Agree(a, b, c)
  PROVE  IdentityRequests(a)[c] = IdentityRequests(b)[c]
<1>1. /\ CmdTable["ident_set"] = 3 /\ CmdTable["ident_get"] = 2
      /\ CmdTable["proxy_set"] = 2 /\ CmdTable["proxy_get"] = 1
  BY Arities DEF OneArgument, TwoArguments, ThreeArguments
<1> QED
  BY <1>1, CfgSame, FirstArguments DEF IdentityRequests

\* Heartbeats.
LEMMA HeartbeatLine ==
  ASSUME NEW a, NEW b, NEW c \in DOMAIN HeartbeatRequests(a), Agree(a, b, c)
  PROVE  HeartbeatRequests(a)[c] = HeartbeatRequests(b)[c]
<1>1. /\ CmdTable["hb_sub_add"] = 4 /\ CmdTable["hb_sub_get"] = 1
      /\ CmdTable["hb_pub_add"] = 7 /\ CmdTable["hb_pub_get"] = 1
  BY Arities DEF OneArgument, FourArguments
<1> QED
  BY <1>1, CfgSame, FirstArguments DEF HeartbeatRequests

\* Time-to-live, transmissions and friendship.
LEMMA TransmitLine ==
  ASSUME NEW a, NEW b, NEW c \in DOMAIN TransmitRequests(a), Agree(a, b, c)
  PROVE  TransmitRequests(a)[c] = TransmitRequests(b)[c]
<1>1. /\ CmdTable["ttl_set"] = 2 /\ CmdTable["ttl_get"] = 1
      /\ CmdTable["net_transmit_set"] = 3 /\ CmdTable["net_transmit_get"] = 1
      /\ CmdTable["friend_get"] = 1 /\ CmdTable["friend_set"] = 2
  BY Arities DEF OneArgument, TwoArguments, ThreeArguments
<1> QED
  BY <1>1, CfgSame, FirstArguments DEF TransmitRequests

\* Reset and poll time-out.
LEMMA NodeLine ==
  ASSUME NEW a, NEW b, NEW c \in DOMAIN NodeRequests(a), Agree(a, b, c)
  PROVE  NodeRequests(a)[c] = NodeRequests(b)[c]
<1>1. CmdTable["node_reset"] = 1 /\ CmdTable["poll_timeout"] = 2
  BY Arities DEF OneArgument, TwoArguments
<1> QED
  BY <1>1, CfgSame, FirstArguments DEF NodeRequests

\* The phases of a key refresh.
LEMMA KeyRefreshLine ==
  ASSUME NEW a, NEW b, NEW c \in DOMAIN KeyRefreshRequests(a), Agree(a, b, c)
  PROVE  KeyRefreshRequests(a)[c] = KeyRefreshRequests(b)[c]
<1>1. CmdTable["key_refresh_set"] = 3 /\ CmdTable["key_refresh_get"] = 2
  BY Arities DEF TwoArguments, ThreeArguments
<1> QED
  BY <1>1, CfgSame, FirstArguments DEF KeyRefreshRequests

\* Calls of the stack outside the configuration client.
LEMMA StackLine ==
  ASSUME NEW a, NEW b, NEW c \in DOMAIN StackRequests(a), Agree(a, b, c)
  PROVE  StackRequests(a)[c] = StackRequests(b)[c]
<1>1. /\ CmdTable["set_start_beacon"] = 3 /\ CmdTable["dis_test"] = 2
      /\ CmdTable["friend_request"] = 4
  BY Arities DEF TwoArguments, ThreeArguments, FourArguments
<1> QED
  BY <1>1, CfgSame, FirstArguments DEF StackRequests

\* Authentication in provisioning, and protocol parameters.
LEMMA AuthLine ==
  ASSUME NEW a, NEW b, NEW c \in DOMAIN AuthRequests(a), Agree(a, b, c)
  PROVE  AuthRequests(a)[c] = AuthRequests(b)[c]
<1>1. /\ CmdTable["prov_set_manaual_choose"] = 1 /\ CmdTable["prov_set_choose_param"] = 4
      /\ CmdTable["prov_set_static_val"] = 1 /\ CmdTable["prov_set_auth_num"] = 1
      /\ CmdTable["prov_set_pub_key"] = 1 /\ CmdTable["prov_set_data"] = 2
      /\ CmdTable["mesh_set_protocol_param"] = 2 /\ CmdTable["mesh_set_iv_test_mode"] = 1
      /\ CmdTable["mesh_set_iv_index_update"] = 2 /\ CmdTable["mesh_get_iv_index_update"] = 0
  BY Arities DEF NoArgument, OneArgument, TwoArguments, FourArguments
<1> QED
  BY <1>1, CfgSame, FirstArguments DEF AuthRequests

\* Generic on/off: only goo_client uses the transaction number.
LEMMA OnOffLine ==
  ASSUME NEW a, NEW b, NEW t, NEW u, NEW c \in DOMAIN OnOffRequests(a, t),
         Agree(a, b, c), c = "goo_client" => t = u
  PROVE  OnOffRequests(a, t)[c] = OnOffRequests(b, u)[c]
<1>1. CmdTable["goo"] = 3 /\ CmdTable["goo_client"] = 4
  BY Arities DEF ThreeArguments, FourArguments
<1> QED
  BY <1>1, FirstArguments DEF OnOffRequests, OnOffSet

\* The handlers that stand alone.
LEMMA EnableLine ==
  ASSUME NEW a, NEW b
  PROVE  /\ Agree(a, b, "enable") => Enable(a) = Enable(b)
         /\ Agree(a, b, "vendor_model_data_send") => VendorData(a) = VendorData(b)
<1>1. CmdTable["enable"] = 3 /\ CmdTable["vendor_model_data_send"] = 6
  BY Arities DEF ThreeArguments
<1> QED
  BY <1>1, FirstArguments DEF Enable, VendorData

\* Deleting an application key, binding and unbinding.
LEMMA BindLine ==
  ASSUME NEW a, NEW b
  PROVE  /\ Agree(a, b, "appkey_del") => AppKeyDelete(a) = AppKeyDelete(b)
         /\ Agree(a, b, "bind") => BindRequest(a) = BindRequest(b)
         /\ Agree(a, b, "unbind") => UnbindRequest(a) = UnbindRequest(b)
<1>1. CmdTable["appkey_del"] = 3 /\ CmdTable["bind"] = 4 /\ CmdTable["unbind"] = 4
  BY Arities DEF ThreeArguments, FourArguments
<1> QED
  BY <1>1, FirstArguments, CfgSame DEF AppKeyDelete, BindRequest, UnbindRequest, Element

\* Setting a subscription.
LEMMA SubSetLine ==
  ASSUME NEW a, NEW b, Agree(a, b, "sub_set")
  PROVE  SubSetRequest(a) = SubSetRequest(b)
<1>1. /\ a[1] = b[1] /\ a[2] = b[2] /\ a[3] = b[3] /\ a[4] = b[4] /\ a[5] = b[5]
      /\ a[6] = b[6]
  BY Arities, FirstArguments
<1>2. Element(a) = Element(b)
  BY <1>1 DEF Element
<1>3. \A op, data : Cfg(a, op, data) = Cfg(b, op, data)
  BY <1>1, CfgSame
<1> QED
  BY <1>1, <1>2, <1>3 DEF SubSetRequest

\* Reading a subscription, publication.
LEMMA SubLine ==
  ASSUME NEW a, NEW b
  PROVE  /\ Agree(a, b, "sub_get") => SubGetRequest(a) = SubGetRequest(b)
         /\ Agree(a, b, "pub_get") => PubGetRequest(a) = PubGetRequest(b)
         /\ Agree(a, b, "pub_set") => PubSetRequest(a) = PubSetRequest(b)
<1>1. CmdTable["sub_get"] = 4 /\ CmdTable["pub_get"] = 3 /\ CmdTable["pub_set"] = 10
  BY Arities DEF ThreeArguments, FourArguments
<1>2. a[1] = b[1] /\ a[2] = b[2] => Element(a) = Element(b)
  BY DEF Element
<1>3. Agree(a, b, "sub_get") => SubGetRequest(a) = SubGetRequest(b)
  BY <1>1, <1>2, FirstArguments, CfgSame DEF SubGetRequest
<1>4. Agree(a, b, "pub_get") => PubGetRequest(a) = PubGetRequest(b)
  BY <1>1, <1>2, FirstArguments, CfgSame DEF PubGetRequest
<1>5. Agree(a, b, "pub_set") => PubSetRequest(a) = PubSetRequest(b)
  BY <1>1, <1>2, FirstArguments, CfgSame DEF PubSetRequest
<1> QED
  BY <1>3, <1>4, <1>5

\* Packets for tests.
LEMMA PacketLine ==
  ASSUME NEW a, NEW b
  PROVE  /\ Agree(a, b, "network_layer_test") => NetworkLayerTest(a) = NetworkLayerTest(b)
         /\ Agree(a, b, "send_data") => SendData(a) = SendData(b)
<1>1. CmdTable["network_layer_test"] = 1 /\ CmdTable["send_data"] = 3
  BY Arities DEF OneArgument, ThreeArguments
<1> QED
  BY <1>1, FirstArguments DEF NetworkLayerTest, SendData

(***************************************************************************)
(* Every command has a handler, and one.                                   *)
(***************************************************************************)

\* The parts of the table of handlers.
LEMMA Parts ==
  ASSUME NEW a, NEW t
  PROVE  LET g == Groups(a, t) IN
         /\ DOMAIN g = 1..18
         /\ g[1] = [enable |-> Enable(a), db |-> [op |-> "show_prov_db"],
                    vendor_model_data_send |-> VendorData(a)]
         /\ g[2] = ProvisionRequests(a) /\ g[3] = OnOffRequests(a, t)
         /\ g[4] = AppKeyRequests(a) /\ g[5] = KeyRequests(a)
         /\ g[6] = [appkey_del |-> AppKeyDelete(a), bind |-> BindRequest(a),
                    unbind |-> UnbindRequest(a)]
         /\ g[7] = AppGetRequests(a)
         /\ g[8] = [sub_set |-> SubSetRequest(a), sub_get |-> SubGetRequest(a),
                    pub_set |-> PubSetRequest(a), pub_get |-> PubGetRequest(a)]
         /\ g[9] = NodeStateRequests(a) /\ g[10] = IdentityRequests(a)
         /\ g[11] = HeartbeatRequests(a) /\ g[12] = TransmitRequests(a)
         /\ g[13] = NodeRequests(a) /\ g[14] = KeyRefreshRequests(a)
         /\ g[15] = [network_layer_test |-> NetworkLayerTest(a), send_data |-> SendData(a)]
         /\ g[16] = StackRequests(a) /\ g[17] = AuthRequests(a)
         /\ g[18] = With(Nothing, TestModes \cup Resets \cup {"quit_app"})
BY DEF Groups

\* The commands of each part.
Commands ==
  <<{"enable", "db", "vendor_model_data_send"},
    {"invite", "prov_node_cancel", "unprov_scan", "set_scan_para", "set_adv_para",
     "send_beacon", "set_scan_enable"},
    {"goo", "goo_client"}, {"app_key_update", "appkey_add"},
    {"netkey_update", "netkey_add", "netkey_get", "netkey_del", "appkey_get"},
    {"appkey_del", "bind", "unbind"}, {"model_app_get", "vend_model_app_get"},
    {"sub_set", "sub_get", "pub_set", "pub_get"},
    {"composition_get", "beacon_set", "beacon_get", "relay_set", "relay_get"},
    {"ident_set", "ident_get", "proxy_set", "proxy_get"},
    {"hb_sub_add", "hb_sub_get", "hb_pub_add", "hb_pub_get"},
    {"ttl_set", "ttl_get", "net_transmit_set", "net_transmit_get", "friend_get",
     "friend_set"},
    {"node_reset", "poll_timeout"}, {"key_refresh_set", "key_refresh_get"},
    {"network_layer_test", "send_data"}, {"set_start_beacon", "dis_test", "friend_request"},
    {"prov_set_manaual_choose", "prov_set_choose_param", "prov_set_static_val",
     "prov_set_auth_num", "prov_set_pub_key", "prov_set_data", "mesh_set_protocol_param",
     "mesh_set_iv_test_mode", "mesh_set_iv_index_update", "mesh_get_iv_index_update"},
    TestModes \cup Resets \cup {"quit_app"}>>

\* A part of the table has these commands.
LEMMA Handlers ==
  ASSUME NEW a, NEW t, NEW n \in 1..18
  PROVE  DOMAIN Groups(a, t)[n] = Commands[n]
<1> DEFINE g == Groups(a, t)
<1>1. /\ g[1] = [enable |-> Enable(a), db |-> [op |-> "show_prov_db"],
                 vendor_model_data_send |-> VendorData(a)]
      /\ g[6] = [appkey_del |-> AppKeyDelete(a), bind |-> BindRequest(a),
                 unbind |-> UnbindRequest(a)]
      /\ g[8] = [sub_set |-> SubSetRequest(a), sub_get |-> SubGetRequest(a),
                 pub_set |-> PubSetRequest(a), pub_get |-> PubGetRequest(a)]
      /\ g[15] = [network_layer_test |-> NetworkLayerTest(a), send_data |-> SendData(a)]
  BY Parts
<1>2. /\ g[2] = ProvisionRequests(a) /\ g[3] = OnOffRequests(a, t)
      /\ g[4] = AppKeyRequests(a) /\ g[5] = KeyRequests(a) /\ g[7] = AppGetRequests(a)
      /\ g[9] = NodeStateRequests(a) /\ g[10] = IdentityRequests(a)
      /\ g[11] = HeartbeatRequests(a) /\ g[12] = TransmitRequests(a)
      /\ g[13] = NodeRequests(a) /\ g[14] = KeyRefreshRequests(a)
      /\ g[16] = StackRequests(a) /\ g[17] = AuthRequests(a)
  BY Parts
<1>3. g[18] = With(Nothing, TestModes \cup Resets \cup {"quit_app"})
  BY Parts
<1> HIDE DEF g
<1>4. /\ DOMAIN g[1] = Commands[1]
      /\ DOMAIN g[6] = Commands[6]
      /\ DOMAIN g[8] = Commands[8]
      /\ DOMAIN g[15] = Commands[15]
  BY <1>1 DEF Commands
<1>5. /\ DOMAIN g[2] = Commands[2]
      /\ DOMAIN g[3] = Commands[3]
      /\ DOMAIN g[4] = Commands[4]
      /\ DOMAIN g[5] = Commands[5]
      /\ DOMAIN g[7] = Commands[7]
  BY <1>2 DEF Commands, ProvisionRequests, OnOffRequests, AppKeyRequests, KeyRequests,
     AppGetRequests
<1>6. /\ DOMAIN g[9] = Commands[9]
      /\ DOMAIN g[10] = Commands[10]
      /\ DOMAIN g[11] = Commands[11]
      /\ DOMAIN g[12] = Commands[12]
      /\ DOMAIN g[13] = Commands[13]
      /\ DOMAIN g[14] = Commands[14]
  BY <1>2 DEF Commands, NodeStateRequests, IdentityRequests, HeartbeatRequests,
     TransmitRequests, NodeRequests, KeyRefreshRequests
<1>7. /\ DOMAIN g[16] = Commands[16]
      /\ DOMAIN g[17] = Commands[17]
  BY <1>2 DEF Commands, StackRequests, AuthRequests
<1>8. DOMAIN g[18] = Commands[18]
  BY <1>3, WithRows DEF Commands
<1> QED
  BY <1>4, <1>5, <1>6, <1>7, <1>8 DEF g

\* The table of handlers has every command of cmd_table.
LEMMA EveryCommandHandled ==
  ASSUME NEW a, NEW t
  PROVE  DOMAIN CmdTable \subseteq DOMAIN AllRequests(a, t)
<1> DEFINE g == Groups(a, t)
           All == UNION {DOMAIN g[n] : n \in DOMAIN g}
<1>0. \A n \in 1..18 : DOMAIN g[n] = Commands[n]
  BY Handlers
<1>1. \A n \in 1..18 : DOMAIN g[n] \subseteq All
  <2>1. DOMAIN g = 1..18
    BY Parts
  <2> QED
    BY <2>1
<1> HIDE DEF All
<1>2. NoArgument \subseteq All
  BY <1>1, <1>0 DEF Commands, NoArgument, TestModes
<1>3. OneArgument \subseteq All
  BY <1>1, <1>0 DEF Commands, OneArgument, TestModes
<1>4. TwoArguments \subseteq All
  BY <1>1, <1>0 DEF Commands, TwoArguments, TestModes
<1>5. ThreeArguments \subseteq All
  BY <1>1, <1>0 DEF Commands, ThreeArguments, TestModes
<1>6. FourArguments \subseteq All
  BY <1>1, <1>0 DEF Commands, FourArguments, TestModes
<1>7. {"set_health_test", "sub_set", "vendor_model_data_send", "hb_pub_add", "pub_set"}
        \subseteq All
  BY <1>1, <1>0 DEF Commands, TestModes, TestModes
<1>8. DOMAIN AllRequests(a, t) = All
  BY DEF AllRequests, Table, All
<1> QED
  BY <1>2, <1>3, <1>4, <1>5, <1>6, <1>7, <1>8, Arities

\* No command has two handlers.
LEMMA OneHandler ==
  ASSUME NEW a, NEW t, NEW m \in 1..18, NEW n \in 1..18, m # n
  PROVE  DOMAIN Groups(a, t)[m] \cap DOMAIN Groups(a, t)[n] = {}
BY Handlers DEF Commands, TestModes, Resets

\* A request is what the handler in its part makes of the arguments.
LEMMA RequestOfPart ==
  ASSUME NEW a, NEW t, NEW n \in 1..18, NEW c \in DOMAIN Groups(a, t)[n]
  PROVE  Request(c, a, t) = Groups(a, t)[n][c]
<1> DEFINE g == Groups(a, t)
<1>1. DOMAIN g = 1..18
  BY Parts
<1>3. n \in DOMAIN g /\ \A m \in DOMAIN g : c \in DOMAIN g[m] => m = n
  BY <1>1, OneHandler
<1>2. Table(g)[c] = g[n][c]
  <2> HIDE DEF g
  <2>1. c \in DOMAIN g[n]
    BY DEF g
  <2> QED
    BY <1>3, <2>1, TableRow, Zenon
<1> QED
  BY <1>2 DEF Request, AllRequests

(***************************************************************************)
(* What a command asks for is of its line.                                 *)
(***************************************************************************)

\* A line makes one request, whatever stands behind its arguments.
LEMMA RequestOfLine ==
  ASSUME NEW a, NEW b, NEW t, NEW u, NEW c \in DOMAIN CmdTable,
         Agree(a, b, c), c = "goo_client" => t = u
  PROVE  Request(c, a, t) = Request(c, b, u)
<1> DEFINE p == Groups(a, t)
           q == Groups(b, u)
<1>1. DOMAIN p = 1..18 /\ DOMAIN q = 1..18
  BY Parts
<1>2. \A n \in 1..18 : DOMAIN p[n] = DOMAIN q[n]
  BY Handlers
<1>3. /\ p[1] = [enable |-> Enable(a), db |-> [op |-> "show_prov_db"],
                 vendor_model_data_send |-> VendorData(a)]
      /\ q[1] = [enable |-> Enable(b), db |-> [op |-> "show_prov_db"],
                 vendor_model_data_send |-> VendorData(b)]
      /\ p[6] = [appkey_del |-> AppKeyDelete(a), bind |-> BindRequest(a),
                 unbind |-> UnbindRequest(a)]
      /\ q[6] = [appkey_del |-> AppKeyDelete(b), bind |-> BindRequest(b),
                 unbind |-> UnbindRequest(b)]
      /\ p[8] = [sub_set |-> SubSetRequest(a), sub_get |-> SubGetRequest(a),
                 pub_set |-> PubSetRequest(a), pub_get |-> PubGetRequest(a)]
      /\ q[8] = [sub_set |-> SubSetRequest(b), sub_get |-> SubGetRequest(b),
                 pub_set |-> PubSetRequest(b), pub_get |-> PubGetRequest(b)]
      /\ p[15] = [network_layer_test |-> NetworkLayerTest(a), send_data |-> SendData(a)]
      /\ q[15] = [network_layer_test |-> NetworkLayerTest(b), send_data |-> SendData(b)]
  BY Parts
<1>4. p[18] = q[18]
  BY Parts, ZenonT(60)
<1>5. /\ p[2] = ProvisionRequests(a) /\ p[3] = OnOffRequests(a, t)
      /\ p[4] = AppKeyRequests(a) /\ p[5] = KeyRequests(a) /\ p[7] = AppGetRequests(a)
      /\ p[9] = NodeStateRequests(a) /\ p[10] = IdentityRequests(a)
      /\ p[11] = HeartbeatRequests(a) /\ p[12] = TransmitRequests(a)
      /\ p[13] = NodeRequests(a) /\ p[14] = KeyRefreshRequests(a)
      /\ p[16] = StackRequests(a) /\ p[17] = AuthRequests(a)
  BY Parts
<1>6. /\ q[2] = ProvisionRequests(b) /\ q[3] = OnOffRequests(b, u)
      /\ q[4] = AppKeyRequests(b) /\ q[5] = KeyRequests(b) /\ q[7] = AppGetRequests(b)
      /\ q[9] = NodeStateRequests(b) /\ q[10] = IdentityRequests(b)
      /\ q[11] = HeartbeatRequests(b) /\ q[12] = TransmitRequests(b)
      /\ q[13] = NodeRequests(b) /\ q[14] = KeyRefreshRequests(b)
      /\ q[16] = StackRequests(b) /\ q[17] = AuthRequests(b)
  BY Parts
<1> HIDE DEF p, q
<1>7. c \in DOMAIN p[1] => p[1][c] = q[1][c]
  BY <1>3, EnableLine
<1>8. c \in DOMAIN p[6] => p[6][c] = q[6][c]
  BY <1>3, BindLine
<1>9. c \in DOMAIN p[8] => p[8][c] = q[8][c]
  BY <1>3, SubSetLine, SubLine
<1>10. c \in DOMAIN p[15] => p[15][c] = q[15][c]
  BY <1>3, PacketLine
<1>11. /\ c \in DOMAIN p[2] => p[2][c] = q[2][c]
       /\ c \in DOMAIN p[4] => p[4][c] = q[4][c]
       /\ c \in DOMAIN p[5] => p[5][c] = q[5][c]
       /\ c \in DOMAIN p[7] => p[7][c] = q[7][c]
  BY <1>5, <1>6, ProvisionLine, AppKeyLine, KeyLine, AppGetLine
<1>17. c \in DOMAIN p[3] => p[3][c] = q[3][c]
  BY <1>5, <1>6, OnOffLine
<1>12. /\ c \in DOMAIN p[9] => p[9][c] = q[9][c]
       /\ c \in DOMAIN p[10] => p[10][c] = q[10][c]
       /\ c \in DOMAIN p[11] => p[11][c] = q[11][c]
       /\ c \in DOMAIN p[12] => p[12][c] = q[12][c]
       /\ c \in DOMAIN p[13] => p[13][c] = q[13][c]
  BY <1>5, <1>6, NodeStateLine, IdentityLine, HeartbeatLine, TransmitLine, NodeLine
<1>13. /\ c \in DOMAIN p[14] => p[14][c] = q[14][c]
       /\ c \in DOMAIN p[16] => p[16][c] = q[16][c]
       /\ c \in DOMAIN p[17] => p[17][c] = q[17][c]
  BY <1>5, <1>6, KeyRefreshLine, StackLine, AuthLine
<1>14. \A n \in DOMAIN p : c \in DOMAIN p[n] => p[n][c] = q[n][c]
  BY <1>1, <1>4, <1>7, <1>8, <1>9, <1>10, <1>11, <1>12, <1>13, <1>17
<1>15. c \in DOMAIN Table(p)
  BY EveryCommandHandled DEF AllRequests, p
<1>16. Table(p)[c] = Table(q)[c]
  BY <1>1, <1>2, <1>14, <1>15, TableSame
<1> QED
  BY <1>16 DEF Request, AllRequests, p, q

(***************************************************************************)
(* The objects that a line names.                                          *)
(***************************************************************************)

Fields == {"element_addr", "model_id", "appkey_index", "netkey_index"}

\* What the words of the session stand for.
Objects ==
  [element_addr |-> ElementAddr(words["dst"], words["ele_idx"]),
   model_id |-> words["model_id"],
   appkey_index |-> U16(words["app_idx"]),
   netkey_index |-> U16(words["net_idx"])]

\* The data of a request are about the objects that the words name; so is the
\* request r, which goes to their node.
Names(data) == \A f \in Fields : f \in DOMAIN data => data[f] = Objects[f]
NamesObjects(r) == r.dst = U16(words["dst"]) /\ Names(r.data)

\* A request to the node of the line, with data about its objects.
LEMMA CfgNames ==
  ASSUME NEW a, a[1] = words["dst"], NEW op, NEW data, Names(data)
  PROVE  /\ NamesObjects(Cfg(a, op, data))
         /\ \A net : NamesObjects(Under(net, Cfg(a, op, data)))
BY DEF NamesObjects, Cfg, Under

\* Below 256 the index of an element has eight bits and sixteen.
LEMMA SmallIndex ==
  ASSUME words \in Assignments, words["ele_idx"] < 256
  PROVE  U16(words["ele_idx"]) = words["ele_idx"] /\ U8(words["ele_idx"]) = words["ele_idx"]
<1>1. words \in [Words -> Nat]
  BY MeshCommandsAssumption
<1>2. "ele_idx" \in Words
  BY DEF Words
<1>3. PICK n \in Nat : n = words["ele_idx"]
  BY <1>1, <1>2
<1>4. n % 256 = n /\ n % 65536 = n
  BY <1>3
<1> QED
  BY <1>3, <1>4 DEF U8, U16

\* The data of the requests about keys.
LEMMA KeyData ==
  ASSUME NEW x
  PROVE  LET n == U16(words["net_idx"])
             k == U16(words["app_idx"])
         IN  /\ Names([netkey_index |-> n])
             /\ Names([netkey_index |-> n, netkey |-> x])
             /\ Names([netkey_index |-> n, identity |-> x])
             /\ Names([netkey_index |-> n, transition |-> x])
             /\ Names([netkey_index |-> n, appkey_index |-> k])
             /\ Names([netkey_index |-> n, appkey_index |-> k, appkey |-> x])
BY DEF Names, Objects, Fields

\* The requests about keys.
LEMMA KeysNamed ==
  ASSUME NEW a, a[1] = words["dst"], a[2] = words["net_idx"]
  PROVE  /\ NamesObjects(KeyRequests(a)["netkey_add"])
         /\ NamesObjects(KeyRequests(a)["netkey_del"])
         /\ NamesObjects(KeyRequests(a)["netkey_update"])
         /\ NamesObjects(KeyRequests(a)["appkey_get"])
         /\ NamesObjects(IdentityRequests(a)["ident_set"])
         /\ NamesObjects(IdentityRequests(a)["ident_get"])
         /\ NamesObjects(KeyRefreshRequests(a)["key_refresh_set"])
         /\ NamesObjects(KeyRefreshRequests(a)["key_refresh_get"])
         /\ a[3] = words["app_idx"] =>
              /\ NamesObjects(AppKeyRequests(a)["appkey_add"])
              /\ NamesObjects(AppKeyRequests(a)["app_key_update"])
              /\ NamesObjects(AppKeyDelete(a))
<1>1. /\ NamesObjects(KeyRequests(a)["netkey_add"])
      /\ NamesObjects(KeyRequests(a)["netkey_del"])
      /\ NamesObjects(KeyRequests(a)["netkey_update"])
      /\ NamesObjects(KeyRequests(a)["appkey_get"])
  BY KeyData, CfgNames DEF KeyRequests
<1>2. /\ NamesObjects(IdentityRequests(a)["ident_set"])
      /\ NamesObjects(IdentityRequests(a)["ident_get"])
  BY KeyData, CfgNames DEF IdentityRequests
<1>3. /\ NamesObjects(KeyRefreshRequests(a)["key_refresh_set"])
      /\ NamesObjects(KeyRefreshRequests(a)["key_refresh_get"])
  BY KeyData, CfgNames DEF KeyRefreshRequests
<1>4. ASSUME a[3] = words["app_idx"]
      PROVE  /\ NamesObjects(AppKeyRequests(a)["appkey_add"])
             /\ NamesObjects(AppKeyRequests(a)["app_key_update"])
             /\ NamesObjects(AppKeyDelete(a))
  BY <1>4, KeyData, CfgNames DEF AppKeyRequests, AppKeyDelete
<1> QED
  BY <1>1, <1>2, <1>3, <1>4

\* The data of the requests about models.
LEMMA ModelData ==
  ASSUME NEW x
  PROVE  LET e == ElementAddr(words["dst"], words["ele_idx"])
             m == words["model_id"]
             k == U16(words["app_idx"])
         IN  /\ Names([element_addr |-> e, model_id |-> m])
             /\ Names([element_addr |-> e, model_id |-> m, address |-> x])
             /\ Names([element_addr |-> e, model_id |-> m, appkey_index |-> k])
             /\ Names([element_addr |-> e, appkey_index |-> k, model_id |-> m])
BY DEF Names, Objects, Fields

\* The data of a publication.
LEMMA PubData ==
  ASSUME NEW x, NEW period, NEW ttl, NEW count, NEW step
  PROVE  Names([element_addr |-> ElementAddr(words["dst"], words["ele_idx"]), address |-> x,
                model_id |-> words["model_id"], appkey_index |-> U16(words["app_idx"]),
                period |-> period, ttl |-> ttl, count |-> count, step |-> step])
BY DEF Names, Objects, Fields

\* The two ways to address an element come to the same.
LEMMA ElementNamed ==
  ASSUME words \in Assignments, words["ele_idx"] < 256,
         NEW a, a[1] = words["dst"], a[2] = words["ele_idx"]
  PROVE  /\ Element(a) = ElementAddr(words["dst"], words["ele_idx"])
         /\ ElementAddr(a[1], U8(a[2])) = ElementAddr(words["dst"], words["ele_idx"])
BY SmallIndex DEF Element

\* The requests about a model that only bind, unbind or read.
LEMMA BindNamed ==
  ASSUME words \in Assignments, words["ele_idx"] < 256,
         NEW a, a[1] = words["dst"], a[2] = words["ele_idx"]
  PROVE  /\ a[3] = words["model_id"] /\ a[4] = words["app_idx"] =>
              NamesObjects(BindRequest(a))
         /\ a[3] = words["app_idx"] /\ a[4] = words["model_id"] =>
              NamesObjects(UnbindRequest(a))
         /\ a[3] = words["model_id"] =>
              /\ NamesObjects(AppGetRequests(a)["model_app_get"])
              /\ NamesObjects(AppGetRequests(a)["vend_model_app_get"])
              /\ NamesObjects(PubGetRequest(a))
              /\ U16(a[4]) = 1 => NamesObjects(SubGetRequest(a))
<1>1. a[3] = words["model_id"] /\ a[4] = words["app_idx"] => NamesObjects(BindRequest(a))
  BY ElementNamed, ModelData, CfgNames DEF BindRequest
<1>2. a[3] = words["app_idx"] /\ a[4] = words["model_id"] => NamesObjects(UnbindRequest(a))
  BY ElementNamed, ModelData, CfgNames DEF UnbindRequest
<1>3. ASSUME a[3] = words["model_id"]
      PROVE  /\ NamesObjects(AppGetRequests(a)["model_app_get"])
             /\ NamesObjects(AppGetRequests(a)["vend_model_app_get"])
             /\ NamesObjects(PubGetRequest(a))
             /\ U16(a[4]) = 1 => NamesObjects(SubGetRequest(a))
  BY <1>3, ElementNamed, ModelData, CfgNames DEF AppGetRequests, PubGetRequest, SubGetRequest
<1> QED
  BY <1>1, <1>2, <1>3

\* The operation SubAdd adds an address to a subscription list.
Adds(op) == op \in SubPlain /\ op \notin SubVirtual /\ op # SubDeleteAll

LEMMA AddOpcode == Adds(U16(SubAdd))
BY DEF SubAdd, U16, Adds, SubPlain, SubVirtual, SubDeleteAll

LEMMA SubSetNamed ==
  ASSUME words \in Assignments, words["ele_idx"] < 256,
         NEW a, a[1] = words["dst"], a[2] = words["ele_idx"], a[5] = words["model_id"],
         Adds(U16(a[6]))
  PROVE  NamesObjects(SubSetRequest(a))
<1> DEFINE address == [type |-> U16(a[4]), value |-> U16(a[3]), virtual_uuid |-> "NULL"]
           data == [element_addr |-> Element(a), model_id |-> a[5], address |-> address]
<1>1. SubSetRequest(a) = Cfg(a, U16(a[6]), data)
  BY Zenon DEF SubSetRequest, Adds
<1> HIDE DEF address
<1>2. Names(data)
  BY ElementNamed, ModelData
<1> QED
  BY <1>1, <1>2, CfgNames

LEMMA PubSetNamed ==
  ASSUME words \in Assignments, words["ele_idx"] < 256,
         NEW a, a[1] = words["dst"], a[2] = words["ele_idx"], a[5] = words["model_id"],
         a[6] = words["app_idx"]
  PROVE  NamesObjects(PubSetRequest(a))
<1>1. PICK op, address :
        PubSetRequest(a) =
          [Cfg(a, op, [element_addr |-> Element(a), address |-> address, model_id |-> a[5],
                       appkey_index |-> U16(a[6]), period |-> U8(a[7]), ttl |-> U8(a[8]),
                       count |-> U8(a[9]), step |-> U8(a[10])]) EXCEPT !.ttl = 63]
  BY DEF PubSetRequest
<1>2. Names([element_addr |-> Element(a), address |-> address, model_id |-> a[5],
             appkey_index |-> U16(a[6]), period |-> U8(a[7]), ttl |-> U8(a[8]),
             count |-> U8(a[9]), step |-> U8(a[10])])
  BY ElementNamed, PubData
<1> QED
  BY <1>1, <1>2 DEF NamesObjects, Cfg

(***************************************************************************)
(* The usage lines.                                                        *)
(***************************************************************************)

OfNet == {"netkey_add", "netkey_del", "netkey_update", "appkey_get", "key_refresh_get",
          "ident_get"}
OfKey == {"appkey_add", "appkey_del", "app_key_update"}
OfModel == {"model_app_get", "vend_model_app_get", "pub_get"}
OfMore == {"bind", "unbind", "sub_set", "sub_get", "pub_set", "key_refresh_set", "ident_set"}

\* What the usage line of each command is.
LEMMA Usages ==
  /\ DOMAIN ObjectUsage = OfNet \cup OfKey \cup OfModel \cup OfMore
  /\ \A c \in OfNet : ObjectUsage[c] = NetUsage
  /\ \A c \in OfKey : ObjectUsage[c] = KeyUsage
  /\ \A c \in OfModel : ObjectUsage[c] = ModelUsage
  /\ ObjectUsage["bind"] = <<"dst", "ele_idx", "model_id", "app_idx">>
  /\ ObjectUsage["unbind"] = <<"dst", "ele_idx", "app_idx", "model_id">>
  /\ ObjectUsage["sub_set"] = <<"dst", "ele_idx", "value", "value", "model_id", "opcode">>
  /\ ObjectUsage["sub_get"] = ModelUsage \o <<"is_vendor">>
  /\ ObjectUsage["pub_set"] = <<"dst", "ele_idx", "value", "value", "model_id", "app_idx",
                                "value", "value", "value", "value">>
  /\ ObjectUsage["key_refresh_set"] = NetUsage \o <<"value">>
  /\ ObjectUsage["ident_set"] = NetUsage \o <<"value">>
<1> DEFINE more ==
             [bind   |-> <<"dst", "ele_idx", "model_id", "app_idx">>,
              unbind |-> <<"dst", "ele_idx", "app_idx", "model_id">>,
              sub_set |-> <<"dst", "ele_idx", "value", "value", "model_id", "opcode">>,
              sub_get |-> ModelUsage \o <<"is_vendor">>,
              pub_set |-> <<"dst", "ele_idx", "value", "value", "model_id", "app_idx",
                            "value", "value", "value", "value">>,
              key_refresh_set |-> NetUsage \o <<"value">>,
              ident_set |-> NetUsage \o <<"value">>]
           parts == <<With(NetUsage, OfNet), With(KeyUsage, OfKey),
                      With(ModelUsage, OfModel), more>>
<1>1. DOMAIN more = OfMore
  BY DEF OfMore
<1>2. ObjectUsage = Table(parts)
  BY DEF ObjectUsage, OfNet, OfKey, OfModel
<1>3. /\ more["bind"] = <<"dst", "ele_idx", "model_id", "app_idx">>
      /\ more["unbind"] = <<"dst", "ele_idx", "app_idx", "model_id">>
      /\ more["sub_set"] = <<"dst", "ele_idx", "value", "value", "model_id", "opcode">>
      /\ more["sub_get"] = ModelUsage \o <<"is_vendor">>
      /\ more["pub_set"] = <<"dst", "ele_idx", "value", "value", "model_id", "app_idx",
                             "value", "value", "value", "value">>
      /\ more["key_refresh_set"] = NetUsage \o <<"value">>
      /\ more["ident_set"] = NetUsage \o <<"value">>
  OBVIOUS
<1> HIDE DEF more
<1>4. /\ DOMAIN parts = 1..4 /\ DOMAIN parts[1] = OfNet /\ DOMAIN parts[2] = OfKey
      /\ DOMAIN parts[3] = OfModel /\ DOMAIN parts[4] = OfMore
  BY <1>1, WithRows
<1>5. /\ \A c \in OfNet : parts[1][c] = NetUsage
      /\ \A c \in OfKey : parts[2][c] = KeyUsage
      /\ \A c \in OfModel : parts[3][c] = ModelUsage
      /\ parts[4] = more
  BY WithRows
<1> HIDE DEF parts
<1>6. \A m, n \in 1..4 : m # n => DOMAIN parts[m] \cap DOMAIN parts[n] = {}
  BY <1>4 DEF OfNet, OfKey, OfModel, OfMore
<1>7. \A n \in 1..4 : \A c \in DOMAIN parts[n] : ObjectUsage[c] = parts[n][c]
  <2> SUFFICES ASSUME NEW n \in 1..4, NEW c \in DOMAIN parts[n]
               PROVE  ObjectUsage[c] = parts[n][c]
    OBVIOUS
  <2>1. n \in DOMAIN parts /\ \A m \in DOMAIN parts : c \in DOMAIN parts[m] => m = n
    BY <1>4, <1>6
  <2>2. Table(parts)[c] = parts[n][c]
    BY <2>1, TableRow, Zenon
  <2> QED
    BY <1>2, <2>2
<1>8. DOMAIN ObjectUsage = UNION {DOMAIN parts[n] : n \in 1..4}
  BY <1>2, <1>4 DEF Table
<1>9. DOMAIN ObjectUsage = OfNet \cup OfKey \cup OfModel \cup OfMore
  BY <1>4, <1>8
<1>10. \A c \in OfMore : ObjectUsage[c] = more[c]
  BY <1>4, <1>5, <1>7
<1>11. /\ \A c \in OfNet : ObjectUsage[c] = NetUsage
       /\ \A c \in OfKey : ObjectUsage[c] = KeyUsage
       /\ \A c \in OfModel : ObjectUsage[c] = ModelUsage
  BY <1>4, <1>5, <1>7
<1> QED
  BY <1>3, <1>9, <1>10, <1>11 DEF OfMore

\* What a word means.
LEMMA Meanings ==
  /\ \A word \in Words : Means(word) = words[word]
  /\ Means("opcode") = SubAdd /\ Means("is_vendor") = 1
<1>1. "opcode" \notin Words /\ "is_vendor" \notin Words /\ "opcode" # "is_vendor"
  BY DEF Words
<1>2. \A word \in Words : Means(word) = words[word]
  BY <1>1, Zenon DEF Means
<1>3. Means("opcode") = SubAdd
  BY <1>1, Zenon DEF Means
<1>4. Means("is_vendor") = 1
  BY <1>1, Zenon DEF Means
<1> QED
  BY <1>2, <1>3, <1>4

\* The words of the lines that name objects.
LEMMA WordsOfLines ==
  /\ \A c \in OfNet \cup {"key_refresh_set", "ident_set"} :
       LineOf(c)[1] = words["dst"] /\ LineOf(c)[2] = words["net_idx"]
  /\ \A c \in OfKey : /\ LineOf(c)[1] = words["dst"] /\ LineOf(c)[2] = words["net_idx"]
                      /\ LineOf(c)[3] = words["app_idx"]
  /\ \A c \in OfModel \cup {"bind", "unbind", "sub_set", "sub_get", "pub_set"} :
       LineOf(c)[1] = words["dst"] /\ LineOf(c)[2] = words["ele_idx"]
  /\ \A c \in OfModel \cup {"bind", "sub_get"} : LineOf(c)[3] = words["model_id"]
  /\ LineOf("bind")[4] = words["app_idx"]
  /\ LineOf("unbind")[3] = words["app_idx"] /\ LineOf("unbind")[4] = words["model_id"]
  /\ LineOf("sub_set")[5] = words["model_id"] /\ LineOf("sub_set")[6] = SubAdd
  /\ LineOf("sub_get")[4] = 1
  /\ LineOf("pub_set")[5] = words["model_id"] /\ LineOf("pub_set")[6] = words["app_idx"]
<1>1. \A c \in DOMAIN ObjectUsage : \A n \in 1..CmdTable[c] :
        LineOf(c)[n] = Means(ObjectUsage[c][n])
  BY DEF LineOf, Usage
<1>2. /\ \A c \in OfNet : CmdTable[c] = 2
      /\ \A c \in OfKey : CmdTable[c] = 3
      /\ \A c \in OfModel : CmdTable[c] = 3
      /\ CmdTable["key_refresh_set"] = 3 /\ CmdTable["ident_set"] = 3
      /\ CmdTable["bind"] = 4 /\ CmdTable["unbind"] = 4 /\ CmdTable["sub_get"] = 4
      /\ CmdTable["sub_set"] = 6 /\ CmdTable["pub_set"] = 10
  BY Arities DEF OfNet, OfKey, OfModel, TwoArguments, ThreeArguments, FourArguments
<1>3. {"dst", "ele_idx", "model_id", "app_idx", "net_idx", "value"} \subseteq Words
  BY DEF Words
<1>4. \A c \in OfNet : LineOf(c)[1] = words["dst"] /\ LineOf(c)[2] = words["net_idx"]
  <2> SUFFICES ASSUME NEW c \in OfNet
               PROVE  LineOf(c)[1] = words["dst"] /\ LineOf(c)[2] = words["net_idx"]
    OBVIOUS
  <2>1. c \in DOMAIN ObjectUsage /\ ObjectUsage[c] = NetUsage
    BY Usages
  <2>2. LineOf(c)[1] = Means(NetUsage[1]) /\ LineOf(c)[2] = Means(NetUsage[2])
    BY <1>1, <1>2, <2>1
  <2> QED
    BY <1>3, <2>2, Meanings DEF NetUsage
<1>5. \A c \in {"key_refresh_set", "ident_set"} :
        LineOf(c)[1] = words["dst"] /\ LineOf(c)[2] = words["net_idx"]
  BY <1>1, <1>2, <1>3, Usages, Meanings DEF NetUsage, OfMore
<1>6. \A c \in OfKey : /\ LineOf(c)[1] = words["dst"] /\ LineOf(c)[2] = words["net_idx"]
                       /\ LineOf(c)[3] = words["app_idx"]
  BY <1>1, <1>2, <1>3, Usages, Meanings, SMTT(30) DEF KeyUsage
<1>7. \A c \in OfModel : /\ LineOf(c)[1] = words["dst"] /\ LineOf(c)[2] = words["ele_idx"]
                         /\ LineOf(c)[3] = words["model_id"]
  BY <1>1, <1>2, <1>3, Usages, Meanings DEF ModelUsage
<1>8. /\ LineOf("bind")[1] = words["dst"] /\ LineOf("bind")[2] = words["ele_idx"]
      /\ LineOf("bind")[3] = words["model_id"] /\ LineOf("bind")[4] = words["app_idx"]
  <2>1. /\ "bind" \in DOMAIN ObjectUsage
        /\ ObjectUsage["bind"] = <<"dst", "ele_idx", "model_id", "app_idx">>
    BY Usages DEF OfMore
  <2>2. \A n \in 1..4 : LineOf("bind")[n] = Means(ObjectUsage["bind"][n])
    BY <1>1, <1>2, <2>1
  <2>3. /\ LineOf("bind")[1] = Means("dst") /\ LineOf("bind")[2] = Means("ele_idx")
        /\ LineOf("bind")[3] = Means("model_id") /\ LineOf("bind")[4] = Means("app_idx")
    BY <2>1, <2>2
  <2> QED
    BY <1>3, <2>3, Meanings
<1>11. /\ LineOf("unbind")[1] = words["dst"] /\ LineOf("unbind")[2] = words["ele_idx"]
       /\ LineOf("unbind")[3] = words["app_idx"] /\ LineOf("unbind")[4] = words["model_id"]
  <2>1. /\ "unbind" \in DOMAIN ObjectUsage
        /\ ObjectUsage["unbind"] = <<"dst", "ele_idx", "app_idx", "model_id">>
    BY Usages DEF OfMore
  <2>2. \A n \in 1..4 : LineOf("unbind")[n] = Means(ObjectUsage["unbind"][n])
    BY <1>1, <1>2, <2>1
  <2>3. /\ LineOf("unbind")[1] = Means("dst") /\ LineOf("unbind")[2] = Means("ele_idx")
        /\ LineOf("unbind")[3] = Means("app_idx") /\ LineOf("unbind")[4] = Means("model_id")
    BY <2>1, <2>2
  <2> QED
    BY <1>3, <2>3, Meanings
<1>9. /\ LineOf("sub_get")[1] = words["dst"] /\ LineOf("sub_get")[2] = words["ele_idx"]
      /\ LineOf("sub_get")[3] = words["model_id"] /\ LineOf("sub_get")[4] = 1
  BY <1>1, <1>2, <1>3, Usages, Meanings DEF OfMore, ModelUsage
<1>10. /\ LineOf("sub_set")[1] = words["dst"] /\ LineOf("sub_set")[2] = words["ele_idx"]
       /\ LineOf("sub_set")[5] = words["model_id"] /\ LineOf("sub_set")[6] = SubAdd
  <2>1. /\ "sub_set" \in DOMAIN ObjectUsage
        /\ ObjectUsage["sub_set"] = <<"dst", "ele_idx", "value", "value", "model_id", "opcode">>
    BY Usages DEF OfMore
  <2>2. \A n \in 1..6 : LineOf("sub_set")[n] = Means(ObjectUsage["sub_set"][n])
    BY <1>1, <1>2, <2>1
  <2>3. /\ LineOf("sub_set")[1] = Means("dst") /\ LineOf("sub_set")[2] = Means("ele_idx")
        /\ LineOf("sub_set")[5] = Means("model_id") /\ LineOf("sub_set")[6] = Means("opcode")
    BY <2>1, <2>2
  <2> QED
    BY <1>3, <2>3, Meanings
<1>12. /\ LineOf("pub_set")[1] = words["dst"] /\ LineOf("pub_set")[2] = words["ele_idx"]
       /\ LineOf("pub_set")[5] = words["model_id"] /\ LineOf("pub_set")[6] = words["app_idx"]
  <2>1. /\ "pub_set" \in DOMAIN ObjectUsage
        /\ ObjectUsage["pub_set"] = <<"dst", "ele_idx", "value", "value", "model_id", "app_idx",
                              "value", "value", "value", "value">>
    BY Usages DEF OfMore
  <2>2. \A n \in 1..10 : LineOf("pub_set")[n] = Means(ObjectUsage["pub_set"][n])
    BY <1>1, <1>2, <2>1
  <2>3. /\ LineOf("pub_set")[1] = Means("dst") /\ LineOf("pub_set")[2] = Means("ele_idx")
        /\ LineOf("pub_set")[5] = Means("model_id") /\ LineOf("pub_set")[6] = Means("app_idx")
    BY <2>1, <2>2
  <2> QED
    BY <1>3, <2>3, Meanings
<1> QED
  BY <1>4, <1>5, <1>6, <1>7, <1>8, <1>9, <1>10, <1>11, <1>12

\* The handlers of the commands that name objects.
LEMMA ObjectHandlers ==
  ASSUME NEW a, NEW t
  PROVE  /\ \A c \in {"netkey_add", "netkey_del", "netkey_update", "appkey_get"} :
              Request(c, a, t) = KeyRequests(a)[c]
         /\ \A c \in {"appkey_add", "app_key_update"} : Request(c, a, t) = AppKeyRequests(a)[c]
         /\ \A c \in {"ident_set", "ident_get"} : Request(c, a, t) = IdentityRequests(a)[c]
         /\ \A c \in {"key_refresh_set", "key_refresh_get"} :
              Request(c, a, t) = KeyRefreshRequests(a)[c]
         /\ \A c \in {"model_app_get", "vend_model_app_get"} :
              Request(c, a, t) = AppGetRequests(a)[c]
         /\ Request("appkey_del", a, t) = AppKeyDelete(a)
         /\ Request("bind", a, t) = BindRequest(a)
         /\ Request("unbind", a, t) = UnbindRequest(a)
         /\ Request("sub_set", a, t) = SubSetRequest(a)
         /\ Request("sub_get", a, t) = SubGetRequest(a)
         /\ Request("pub_set", a, t) = PubSetRequest(a)
         /\ Request("pub_get", a, t) = PubGetRequest(a)
<1> DEFINE g == Groups(a, t)
<1>1. \A n \in 1..18 : \A c \in Commands[n] : Request(c, a, t) = g[n][c]
  BY Handlers, RequestOfPart
<1>2. /\ g[4] = AppKeyRequests(a) /\ g[5] = KeyRequests(a) /\ g[7] = AppGetRequests(a)
      /\ g[10] = IdentityRequests(a) /\ g[14] = KeyRefreshRequests(a)
  BY Parts
<1>3. /\ g[6] = [appkey_del |-> AppKeyDelete(a), bind |-> BindRequest(a),
                 unbind |-> UnbindRequest(a)]
      /\ g[8] = [sub_set |-> SubSetRequest(a), sub_get |-> SubGetRequest(a),
                 pub_set |-> PubSetRequest(a), pub_get |-> PubGetRequest(a)]
  BY Parts
<1> HIDE DEF g
<1>4. /\ Commands[4] = {"app_key_update", "appkey_add"}
      /\ Commands[5] = {"netkey_update", "netkey_add", "netkey_get", "netkey_del",
                        "appkey_get"}
      /\ Commands[6] = {"appkey_del", "bind", "unbind"}
      /\ Commands[7] = {"model_app_get", "vend_model_app_get"}
      /\ Commands[8] = {"sub_set", "sub_get", "pub_set", "pub_get"}
      /\ Commands[10] = {"ident_set", "ident_get", "proxy_set", "proxy_get"}
      /\ Commands[14] = {"key_refresh_set", "key_refresh_get"}
  BY DEF Commands
<1>5. /\ \A c \in Commands[4] : Request(c, a, t) = g[4][c]
      /\ \A c \in Commands[5] : Request(c, a, t) = g[5][c]
      /\ \A c \in Commands[6] : Request(c, a, t) = g[6][c]
      /\ \A c \in Commands[7] : Request(c, a, t) = g[7][c]
      /\ \A c \in Commands[8] : Request(c, a, t) = g[8][c]
      /\ \A c \in Commands[10] : Request(c, a, t) = g[10][c]
      /\ \A c \in Commands[14] : Request(c, a, t) = g[14][c]
  BY <1>1
<1> QED
  BY <1>2, <1>3, <1>4, <1>5

\* A command that names objects asks for something about those objects.
LEMMA NamesItsObjects ==
  ASSUME words \in Assignments, words["ele_idx"] < 256,
         NEW c \in DOMAIN ObjectUsage, NEW t
  PROVE  NamesObjects(Request(c, LineOf(c), t))
<1>1. CASE c \in OfNet \cup {"key_refresh_set", "ident_set"}
  <2>1. LineOf(c)[1] = words["dst"] /\ LineOf(c)[2] = words["net_idx"]
    BY <1>1, WordsOfLines
  <2> QED
    BY <1>1, <2>1, KeysNamed, ObjectHandlers DEF OfNet
<1>2. CASE c \in OfKey
  <2>1. /\ LineOf(c)[1] = words["dst"] /\ LineOf(c)[2] = words["net_idx"]
        /\ LineOf(c)[3] = words["app_idx"]
    BY <1>2, WordsOfLines
  <2> QED
    BY <1>2, <2>1, KeysNamed, ObjectHandlers DEF OfKey
<1>3. CASE c \in OfModel \cup {"sub_get"}
  <2>1. /\ LineOf(c)[1] = words["dst"] /\ LineOf(c)[2] = words["ele_idx"]
        /\ LineOf(c)[3] = words["model_id"]
        /\ c = "sub_get" => LineOf(c)[4] = 1
    BY <1>3, WordsOfLines
  <2>2. c = "sub_get" => U16(LineOf(c)[4]) = 1
    BY <2>1 DEF U16
  <2> QED
    BY <1>3, <2>1, <2>2, BindNamed, ObjectHandlers DEF OfModel
<1>4. CASE c \in {"bind", "unbind"}
  <2>1. LineOf(c)[1] = words["dst"] /\ LineOf(c)[2] = words["ele_idx"]
    BY <1>4, WordsOfLines
  <2> QED
    BY <1>4, <2>1, BindNamed, ObjectHandlers, WordsOfLines
<1>5. CASE c = "sub_set"
  <2>1. /\ LineOf(c)[1] = words["dst"] /\ LineOf(c)[2] = words["ele_idx"]
        /\ LineOf(c)[5] = words["model_id"] /\ Adds(U16(LineOf(c)[6]))
    BY <1>5, WordsOfLines, AddOpcode
  <2> QED
    BY <1>5, <2>1, SubSetNamed, ObjectHandlers
<1>6. CASE c = "pub_set"
  <2>1. /\ LineOf(c)[1] = words["dst"] /\ LineOf(c)[2] = words["ele_idx"]
        /\ LineOf(c)[5] = words["model_id"] /\ LineOf(c)[6] = words["app_idx"]
    BY <1>6, WordsOfLines
  <2> QED
    BY <1>6, <2>1, PubSetNamed, ObjectHandlers
<1> QED
  BY <1>1, <1>2, <1>3, <1>4, <1>5, <1>6, Usages DEF OfMore

(***************************************************************************)
(* The session.                                                            *)
(***************************************************************************)

\* A line that names objects asked for something about them.
AskedForItsOwn(line) ==
  line.cmd \in DOMAIN ObjectUsage /\ words["ele_idx"] < 256 => NamesObjects(line.request)

CommandsInv ==
  /\ words \in Assignments /\ DOMAIN argv = 1..10 /\ tid \in 0..255
  /\ RequestIsOfItsLine
  /\ AskedForItsOwn(last) /\ AskedForItsOwn(before)

\* The invariant holds before the first line.
LEMMA InitCommands == Init => CommandsInv
<1> SUFFICES ASSUME Init
             PROVE  CommandsInv
  OBVIOUS
<1>1. words \in Assignments /\ DOMAIN argv = 1..10 /\ tid \in 0..255
  BY DEF Init
<1>2. RequestIsOfItsLine
  BY DEF Init, RequestIsOfItsLine
<1>3. "none" \notin DOMAIN ObjectUsage
  BY Usages DEF OfNet, OfKey, OfModel, OfMore
<1>4. last.cmd = "none" /\ before.cmd = "none"
  BY DEF Init, NoLine
<1> QED
  BY <1>1, <1>2, <1>3, <1>4 DEF CommandsInv, AskedForItsOwn

\* No line has more than ten arguments.
LEMMA AtMostTen ==
  ASSUME NEW c \in DOMAIN CmdTable
  PROVE  CmdTable[c] \in 0..10
BY Arities

\* A line keeps it.
LEMMA RunKeeps ==
  ASSUME CommandsInv, NEW cmd \in DOMAIN CmdTable, RunCommand(cmd)
  PROVE  CommandsInv'
<1>1. /\ words' = words /\ before' = last /\ argv' = Parsed(LineOf(cmd))
      /\ last' = [cmd |-> cmd, request |-> Request(cmd, argv', tid)]
      /\ tid' = IF cmd = "goo_client" THEN U8(tid + 1) ELSE tid
  BY DEF RunCommand
<1>2. tid \in 0..255 /\ tid' \in 0..255 /\ (cmd = "goo_client" => U8(tid' + 255) = tid)
  <2>1. tid \in 0..255
    BY DEF CommandsInv
  <2>2. (tid + 1) % 256 \in 0..255 /\ (((tid + 1) % 256) + 255) % 256 = tid
    BY <2>1
  <2> QED
    BY <1>1, <2>1, <2>2 DEF U8
<1>3. words' \in Assignments /\ DOMAIN argv' = 1..10
  BY <1>1 DEF CommandsInv, Parsed
<1>4. CmdTable[cmd] \in 0..10
  BY AtMostTen
<1>5. RequestIsOfItsLine'
  <2> DEFINE fresh == [n \in 1..10 |-> IF n <= CmdTable[cmd] THEN argv'[n] ELSE 1]
  <2>1. Agree(argv', fresh, cmd)
    BY <1>4 DEF Agree
  <2> HIDE DEF fresh
  <2>2. Request(cmd, argv', tid) = Request(cmd, fresh, U8(tid' + 255))
    BY <1>2, <2>1, RequestOfLine
  <2> QED
    BY <1>1, <2>2 DEF RequestIsOfItsLine, fresh
<1>6. Agree(argv', LineOf(cmd), cmd)
  <2>1. LineOf(cmd) = [n \in 1..CmdTable[cmd] |-> Means(Usage(cmd)[n])]
    BY DEF LineOf
  <2>2. Len(LineOf(cmd)) = CmdTable[cmd]
    BY <1>4, <2>1
  <2>3. \A k \in 1..CmdTable[cmd] : k \in DOMAIN argv /\ k <= Len(LineOf(cmd))
    BY <1>4, <2>2 DEF CommandsInv
  <2> QED
    BY <1>1, <2>3 DEF Agree, Parsed
<1>7. AskedForItsOwn(last)'
  <2> SUFFICES ASSUME cmd \in DOMAIN ObjectUsage, words["ele_idx"] < 256
               PROVE  NamesObjects(last.request)'
    BY <1>1 DEF AskedForItsOwn
  <2>1. Request(cmd, argv', tid) = Request(cmd, LineOf(cmd), tid)
    BY <1>6, RequestOfLine
  <2>2. NamesObjects(Request(cmd, argv', tid))
    BY <2>1, NamesItsObjects DEF CommandsInv
  <2> QED
    BY <1>1, <2>2 DEF NamesObjects, Names, Objects
<1>8. AskedForItsOwn(before)'
  BY <1>1 DEF CommandsInv, AskedForItsOwn, NamesObjects, Names, Objects
<1> QED
  BY <1>2, <1>3, <1>5, <1>7, <1>8 DEF CommandsInv

\* It holds in every reachable state.
LEMMA CommandsInvariant == Spec => []CommandsInv
<1>1. ASSUME CommandsInv, UNCHANGED vars
      PROVE  CommandsInv'
  BY <1>1 DEF vars, CommandsInv, RequestIsOfItsLine, AskedForItsOwn, NamesObjects, Names,
     Objects
<1>2. CommandsInv /\ [Next]_vars => CommandsInv'
  BY <1>1, RunKeeps DEF Next
<1> QED
  BY <1>2, InitCommands, PTL DEF Spec

\* No handler uses an argument that its row of cmd_table does not ask for, whatever
\* the stack and the lines before have left in args.
THEOREM HandlersReadTheirLine == Spec => []RequestIsOfItsLine
<1>1. CommandsInv => RequestIsOfItsLine
  BY DEF CommandsInv
<1> QED
  BY <1>1, CommandsInvariant, PTL

\* Two commands of a pair, run one after the other with the same meaning of the words
\* in their usage lines, are about the same node, keys, element and model.
THEOREM PairsNameTheSame == Spec => []UndoNamesTheSame
<1>1. CommandsInv => UndoNamesTheSame
  <2> SUFFICES ASSUME CommandsInv, <<before.cmd, last.cmd>> \in Pairs,
                      words["ele_idx"] < 256
               PROVE  SameObject(before.request, last.request)
    BY DEF UndoNamesTheSame
  <2>1. before.cmd \in DOMAIN ObjectUsage /\ last.cmd \in DOMAIN ObjectUsage
    BY Usages DEF Pairs, OfNet, OfKey, OfModel, OfMore
  <2>2. NamesObjects(before.request) /\ NamesObjects(last.request)
    BY <2>1 DEF CommandsInv, AskedForItsOwn
  <2> QED
    BY <2>2 DEF NamesObjects, Names, SameObject, Fields
<1> QED
  BY <1>1, CommandsInvariant, PTL
=============================================================================
