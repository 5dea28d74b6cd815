--------------------------- MODULE MCWifiManager ---------------------------
(***************************************************************************)
(* Small instances of WifiManager: a home network known before the start,  *)
(* and identifiers 0..1 for it and for what the calls add.                 *)
(***************************************************************************)
EXTENDS WifiManager, TLC

Home == [id |-> 0, ssid |-> "home", key |-> "WPA-PSK", on |-> TRUE]

MCKnown == {Home}
MCNoneKnown == {}
MCIds == 0..1
MCNoId == -1
MCContains1 == [s \in {"home"} |-> {"home"}]

MCManage == {"connect_ap_auto", "connect_ap_with_netid", "wps_pbc",
             "disconnect_ap", "remove_network", "clear_network",
             "remove_all_networks"}
MCConnectAndManage == {"connect_ap"} \cup MCManage

=============================================================================
