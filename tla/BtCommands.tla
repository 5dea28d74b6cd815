----------------------------- MODULE BtCommands -----------------------------
(***************************************************************************)
(* The commands of the Bluetooth demo that only test their arguments and   *)
(* ask something of the library (bt_cmd.c, bt_gatt_client_app.c,           *)
(* bt_gatt_server_app.c).  args[] of process_cmdline is not cleared: a     *)
(* handler that reads past argc finds any word there.                      *)
(***************************************************************************)
EXTENDS Integers, Sequences

CONSTANTS
  Word,         \* words of a line: [int: what atoi and strtol read, len: strlen]
  HSP_AG,       \* BTMG_HSP_AG and BTMG_PROFILE_MAX of the library's header
  PROFILE_MAX

ASSUME BtCommandsAssumption ==
  /\ Word \subseteq [int : Int, len : Nat]
  /\ HSP_AG \in Nat /\ PROFILE_MAX \in Nat

(***************************************************************************)
(* What a handler asks is a set of requests with at most one member; each  *)
(* of these operators is the set of the requests that may come of a line.  *)
(***************************************************************************)

Ask(call, value) == {[call |-> call, value |-> value]}
Nothing == {}

Arg(args, i) == IF i <= Len(args) THEN {args[i]} ELSE Word
Clamp(n, low, high) == IF n < low THEN low ELSE IF n > high THEN high ELSE n
Bit(n) == IF n = 0 THEN 0 ELSE 1

Plain(call) == {Ask(call, 0)}
OneWord(call, args) == {IF Len(args) = 1 THEN Ask(call, args[1].int) ELSE Nothing}
Switch(call, args) == {IF Len(args) = 1 THEN Ask(call, Bit(args[1].int)) ELSE Nothing}

\* mutant: the upper end of the range is not tested
OpenEnded(call, args, low, high) ==
  {IF Len(args) = 1 /\ args[1].int >= low THEN Ask(call, args[1].int) ELSE Nothing}

InRange(call, args, low, high) ==
  {IF Len(args) = 1 /\ args[1].int \in low..high THEN Ask(call, args[1].int) ELSE Nothing}

\* The guard refuses a line only when both its count and its length are wrong.
Addressed(call, args) ==
  {IF Len(args) = 1 \/ w.len = 17 THEN Ask(call, w.int) ELSE Nothing : w \in Arg(args, 1)}

Profile(call, args, last) ==
  {IF (Len(args) = 2 \/ w.len = 17) /\ v.int \in 0..last THEN Ask(call, v.int) ELSE Nothing :
     w \in Arg(args, 1), v \in Arg(args, 2)}

MaxPageTimeout == 65535

\* cmd_bt_set_vol does not count its arguments.
SetVol(args) == {Ask("vol_changed", Clamp(w.int, 0, 100)) : w \in Arg(args, 1)}
Dial(args) == {Ask("atd", w.int) : w \in Arg(args, 1)}

\* cmd_bt_avrcp: one of seven words, and the address must be known.
Avrcp(args) ==
  {Nothing} \cup {IF Len(args) = 1 THEN Ask("avrcp", type) ELSE Nothing : type \in 0..6}

\* cmd_bt_inquiry_list and cmd_bt_get_address print what the library returns.
Prints == {Nothing}

BtCmd(cmd, args) ==
  CASE cmd = "enable"          -> Switch("enable", args)
    [] cmd = "scan"            -> Switch("discovery", args)
    [] cmd = "pair"            -> Addressed("pair", args)
    [] cmd = "unpair"          -> Addressed("unpair", args)
    [] cmd = "set_name"        -> OneWord("set_name", args)
    [] cmd = "set_vol"         -> SetVol(args)
    [] cmd = "set_dis"         -> InRange("discovery_mode", args, 0, 2)
    [] cmd = "set_page_to"     -> InRange("page_timeout", args, 1, MaxPageTimeout)
    [] cmd = "set_io_cap"      -> InRange("io_capability", args, 0, 4)
    [] cmd = "avrcp"           -> Avrcp(args)
    [] cmd = "profile_cn"      -> Profile("profile_connect", args, HSP_AG)
    [] cmd = "profile_dis"     -> Profile("profile_disconnect", args, PROFILE_MAX)
    [] cmd = "connect"         -> Addressed("connect", args)
    [] cmd = "disconnect"      -> Addressed("disconnect", args)
    [] cmd = "remove"          -> Addressed("remove", args)
    [] cmd = "hfp_answer"      -> Plain("ata")
    [] cmd = "hfp_hangup"      -> Plain("chup")
    [] cmd = "hfp_dial"        -> Dial(args)
    [] cmd = "hfp_cnum"        -> Plain("cnum")
    [] cmd = "hfp_last_num"    -> Plain("bldn")
    [] cmd = "hfp_vol"         -> InRange("vgs", args, 0, 15)
    [] cmd = "sppc_connect"    -> Addressed("sppc_connect", args)
    [] cmd = "sppc_send"       -> OneWord("sppc_send", args)
    [] cmd = "sppc_disconnect" -> OneWord("sppc_disconnect", args)
    [] cmd = "spps_accept"     -> Plain("spps_accept")
    [] cmd = "spps_send"       -> OneWord("spps_send", args)
    [] cmd = "spps_disconnect" -> OneWord("spps_disconnect", args)
    [] cmd = "debug"           -> OneWord("loglevel", args)
    [] cmd = "ex_dbg"          -> OneWord("ex_debug_mask", args)
    [] cmd = "test"            -> Plain("test")
    [] OTHER                   -> Prints

\* The commands of the GATT client that use gattc_cn_handle and keep nothing but
\* the byte they write; a handle is sixteen bits wide.
Handle(w) == w.int % 65536

GattcCmd(cmd, args) ==
  CASE cmd \in {"write-request", "write-command", "read-request"} ->
         {IF Len(args) = 1 THEN Ask(cmd, Handle(args[1])) ELSE Nothing}
    [] cmd = "ble_scan"  -> Switch("le_scan", args)
    [] cmd = "dis_svcs_uuid" ->
         {IF Len(args) = 1 /\ args[1].len >= 6 THEN Ask(cmd, args[1].int) ELSE Nothing}
    [] cmd = "gattc_disconnect" ->
         {IF Len(args) = 1 /\ args[1].len >= 17 THEN Ask(cmd, args[1].int) ELSE Nothing}
    [] cmd \in {"dis_pri_svcs", "set_scan_para", "update_conn_para"} -> Plain(cmd)
    [] OTHER -> Prints

GattsCmd(cmd, args) ==
  CASE cmd = "ble_adv" -> Switch("enable_adv", args)
    [] cmd = "ble_ind" -> OneWord("indication", args)
    [] cmd = "ble_dis" -> Plain("le_disconnect")
    [] OTHER -> Prints

BtTable ==
  {"enable", "scan", "scan_list", "pair", "unpair", "paired_list", "get_state", "get_name",
   "set_name", "remote_name", "set_vol", "get_vol", "get_addr", "set_dis", "set_page_to",
   "set_io_cap", "avrcp", "profile_cn", "profile_dis", "connect", "disconnect", "remove",
   "hfp_answer", "hfp_hangup", "hfp_dial", "hfp_cnum", "hfp_last_num", "hfp_vol",
   "sppc_connect", "sppc_send", "sppc_disconnect", "spps_accept", "spps_send",
   "spps_disconnect", "get_version", "debug", "ex_dbg", "test"}
GattcTable ==
  {"gattc_disconnect", "write-request", "write-command", "read-request", "ble_scan",
   "dis_pri_svcs", "dis_svcs_uuid", "get_mtu", "set_scan_para", "update_conn_para"}
GattsTable == {"ble_adv", "ble_ind", "ble_dis"}
StatelessTable == BtTable \cup GattcTable \cup GattsTable

StatelessCommand(cmd, args) ==
  IF cmd \in BtTable THEN BtCmd(cmd, args)
  ELSE IF cmd \in GattcTable THEN GattcCmd(cmd, args) ELSE GattsCmd(cmd, args)

\* The ranges that the table of bt_cmd.c and the messages of its handlers state,
\* and those that the tables of the two GATT demos state.
Stated ==
  [enable |-> 0..1, discovery |-> 0..1, le_scan |-> 0..1, enable_adv |-> 0..1,
   vol_changed |-> 0..100, discovery_mode |-> 0..2, page_timeout |-> 1..MaxPageTimeout,
   io_capability |-> 0..4, vgs |-> 0..15, avrcp |-> 0..6, loglevel |-> 0..5]

\* cmd_bt_set_log_level tests nothing: `debug [0~5]' hands on any number.
Untested == {"loglevel"}
=============================================================================
