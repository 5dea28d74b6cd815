----------------------------- MODULE GattClient -----------------------------
(***************************************************************************)
(* The GATT client of the Bluetooth demo (bt_gatt_client_app.c): commands  *)
(* of the console use the one connection handle that a callback of the     *)
(* library keeps, and a table of the notifications registered with it.     *)
(***************************************************************************)
EXTENDS Naturals, Sequences, FiniteSets

CONSTANTS
  Cn,         \* the connection handles the library gives out
  NoCn,       \* gattc_cn_handle before the first
  NotifyId,   \* the ids the library gives to the registrations of a connection
  CMD_NOTIFY_ID_MAX,
  MaxDials    \* bound: how many connections may be under way at a time

ASSUME GattClientAssumption ==
  /\ NoCn \notin Cn
  /\ NotifyId \subseteq Nat \ {0}
  /\ CMD_NOTIFY_ID_MAX \in Nat \ {0}
  /\ MaxDials \in Nat

VARIABLES
  gattc_cn_handle,
  notify_id_save,  \* the table, one slot longer than the loops visit
  lost,            \* history: the registrations that have gone to that slot
  gattcUp,         \* library: the client is initialised
  dials,           \* library: connections under way
  live,            \* library: handles of connections that stand
  regs             \* library: the registrations, [cn, id]

gattcVars == <<gattc_cn_handle, notify_id_save, lost, gattcUp, dials, live, regs>>

Slots == 1..(CMD_NOTIFY_ID_MAX + 1)

Filled(table, n) == \A i \in 1..n : table[i] # 0

(***************************************************************************)
(* The callbacks of the library and what it does by itself.                *)
(***************************************************************************)

\* bt_test_gattc_conn_cb
ConnCb(cn, success) ==
  /\ dials > 0 /\ cn \notin live
  /\ dials' = dials - 1
  /\ IF success
     THEN live' = live \cup {cn} /\ gattc_cn_handle' = cn
     ELSE UNCHANGED <<live, gattc_cn_handle>>
  /\ UNCHANGED <<notify_id_save, lost, gattcUp, regs>>

\* bt_test_gattc_disconn_cb prints: gattc_cn_handle stays.  The connection takes
\* its registrations with it.
DisconnCb(cn) ==
  /\ cn \in live
  /\ live' = live \ {cn}
  /\ regs' = {r \in regs : r.cn # cn} /\ lost' = lost \cap regs'
  /\ UNCHANGED <<gattc_cn_handle, notify_id_save, gattcUp, dials>>

GattcLibrary ==
  \E cn \in Cn : DisconnCb(cn) \/ \E success \in BOOLEAN : ConnCb(cn, success)

(***************************************************************************)
(* The commands.                                                           *)
(***************************************************************************)

\* cmd_gattc_init, cmd_gattc_deint
GattcInit ==
  /\ gattcUp' = TRUE
  /\ UNCHANGED <<gattc_cn_handle, notify_id_save, lost, dials, live, regs>>

GattcDeinit ==
  /\ gattcUp' = FALSE
  /\ dials' = 0 /\ live' = {} /\ regs' = {} /\ lost' = {}
  /\ UNCHANGED <<gattc_cn_handle, notify_id_save>>

\* cmd_gatt_client_connect, with an address of seventeen characters or more.
GattcConnect ==
  /\ dials' = IF gattcUp /\ dials < MaxDials THEN dials + 1 ELSE dials
  /\ UNCHANGED <<gattc_cn_handle, notify_id_save, lost, gattcUp, live, regs>>

\* bt_manager_gatt_client_register_notify: an id that is free on the connection,
\* or zero; with a handle that names no connection it may return anything.
Registered(cn, id) ==
  IF cn \in live
  THEN /\ [cn |-> cn, id |-> id] \notin regs
       /\ regs' = IF id = 0 THEN regs ELSE regs \cup {[cn |-> cn, id |-> id]}
  ELSE UNCHANGED regs

\* The first slot that holds no id, or the slot past those the loops visit.
FreeSlot(table) ==
  CHOOSE i \in Slots :
    /\ Filled(table, i - 1)
    /\ i = CMD_NOTIFY_ID_MAX + 1 \/ table[i] = 0

\* cmd_gatt_client_register_notify
RegisterNotify ==
  \E id \in NotifyId \cup {0} :
    /\ Registered(gattc_cn_handle, id)
    /\ IF id = 0 THEN UNCHANGED <<notify_id_save, lost>>
       ELSE /\ notify_id_save' = [notify_id_save EXCEPT ![FreeSlot(notify_id_save)] = id]
            /\ lost' = IF FreeSlot(notify_id_save) <= CMD_NOTIFY_ID_MAX THEN lost
                       ELSE lost \cup (regs' \ regs)
    /\ UNCHANGED <<gattc_cn_handle, gattcUp, dials, live>>

\* The slots that the loop of cmd_gatt_client_unregister_notify visits.
Visited == {i \in 1..CMD_NOTIFY_ID_MAX : Filled(notify_id_save, i)}

ClearsFirst ==           \* mutant: the slot is cleared before its id is used
  /\ notify_id_save' = [i \in Slots |-> IF i \in Visited THEN 0 ELSE notify_id_save[i]]
  /\ UNCHANGED <<gattc_cn_handle, lost, gattcUp, dials, live, regs>>

UnregisterNotify ==
  /\ regs' = {r \in regs : r.cn # gattc_cn_handle \/ \A i \in Visited : r.id # notify_id_save[i]}
  /\ lost' = lost \cap regs'
  /\ notify_id_save' = [i \in Slots |-> IF i \in Visited THEN 0 ELSE notify_id_save[i]]
  /\ UNCHANGED <<gattc_cn_handle, gattcUp, dials, live>>

GattcStart ==
  /\ gattc_cn_handle = NoCn
  /\ notify_id_save = [i \in Slots |-> 0]
  /\ gattcUp = TRUE /\ dials = 0 /\ live = {} /\ regs = {} /\ lost = {}

(***************************************************************************)
(* Properties.                                                             *)
(***************************************************************************)

GattcTypeOK ==
  /\ gattc_cn_handle \in Cn \cup {NoCn}
  /\ notify_id_save \in [Slots -> NotifyId \cup {0}]
  /\ gattcUp \in BOOLEAN
  /\ dials \in 0..MaxDials
  /\ live \subseteq Cn
  /\ regs \subseteq [cn : live, id : NotifyId] /\ lost \subseteq regs

\* unregister-notify reaches every registration of the connection in use, through
\* reconnections, with ids of dead connections in the table and whatever a handle
\* that names none returns, but for the registrations made while the table was full:
\* only those are out of its reach (cmd_gatt_client_register_notify,
\* cmd_gatt_client_unregister_notify).
NothingLeftRegistered ==
  \A r \in regs \ lost :
    r.cn = gattc_cn_handle => \E i \in Visited : notify_id_save[i] = r.id
=============================================================================
