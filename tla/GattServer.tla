----------------------------- MODULE GattServer -----------------------------
(***************************************************************************)
(* The GATT server of the Bluetooth demo (bt_gatt_server_app.c): the       *)
(* console builds a service call by call; each call of the library that    *)
(* succeeds hands back a handle through a callback, and the requests of    *)
(* the peers arrive in callbacks of the library's thread meanwhile.        *)
(***************************************************************************)
EXTENDS Naturals, FiniteSets

CONSTANTS
  MaxHandle,   \* the last attribute handle of the library
  SvcHandles   \* svc.number: how many handles a service sets aside

ASSUME GattServerAssumption ==
  /\ SvcHandles \in Nat \ {0}
  /\ MaxHandle \in Nat

VARIABLES
  service_handle,
  char_handle,
  dev_name_char_handle,
  step,         \* which call of bt_gatt_server_init comes next, or "idle"
  named,        \* history: the last bt_gatt_server_init made its service and its name
  services,     \* library: first handles of the services there are
  started,      \* library: those of them that peers can see
  attrs         \* library: the attributes, [handle, svc, uuid]

handles == <<service_handle, char_handle, dev_name_char_handle>>
library == <<services, started, attrs>>
gattsVars == <<handles, step, named, library>>

DevName == "5555"
CharUuids == {"2223", "3334", DevName}
Uuids == CharUuids \cup {"2902"}

\* The calls of bt_gatt_server_init, each with the one after it.
After == [create |-> "chr1", chr1 |-> "desc", desc |-> "chr2", chr2 |-> "chr3",
          chr3 |-> "start", start |-> "adv", adv |-> "idle"]

(***************************************************************************)
(* bt_gatt_server_init and the callbacks of its calls.                     *)
(***************************************************************************)

\* Handles of a service follow those of the services before it.
NextService == 1 + SvcHandles * Cardinality(services)
RoomForService == NextService + SvcHandles - 1 <= MaxHandle
NextHandle(svc) == svc + 1 + Cardinality({a \in attrs : a.svc = svc})

\* Any call may fail.  It calls nothing back then, its result is not looked at, and
\* the next call is made all the same.
Fails(needed) == named' = (named /\ ~needed)

GattsInit ==
  /\ step = "idle"
  /\ step' = "create" /\ named' = TRUE
  /\ UNCHANGED <<handles, library>>

\* bt_test_gatt_add_service_cb
CreateService ==
  /\ step = "create" /\ step' = After[step]
  /\ \/ /\ RoomForService
        /\ services' = services \cup {NextService}
        /\ service_handle' = NextService
        /\ UNCHANGED named
     \/ Fails(TRUE) /\ UNCHANGED <<services, service_handle>>
  /\ UNCHANGED <<char_handle, dev_name_char_handle, started, attrs>>

KeepsTheFirst(uuid, handle) ==   \* mutant: the name's handle is set only once
  IF uuid = DevName
  THEN /\ dev_name_char_handle' = IF dev_name_char_handle = 0 THEN handle
                                  ELSE dev_name_char_handle
       /\ UNCHANGED char_handle
  ELSE char_handle' = handle /\ UNCHANGED dev_name_char_handle

\* bt_test_gatt_add_char_cb
AddCharCb(uuid, handle) ==
  IF uuid = DevName
  THEN dev_name_char_handle' = handle /\ UNCHANGED char_handle
  ELSE char_handle' = handle /\ UNCHANGED dev_name_char_handle

\* The library adds an attribute to the service that service_handle names.
RoomForAttr ==
  /\ service_handle \in services
  /\ NextHandle(service_handle) < service_handle + SvcHandles

Added(uuid, handle) ==
  /\ RoomForAttr
  /\ attrs' = attrs \cup {[handle |-> handle, svc |-> service_handle, uuid |-> uuid]}

AddCharacteristic(at, uuid) ==
  /\ step = at /\ step' = After[at]
  /\ \/ LET handle == NextHandle(service_handle)
        IN  Added(uuid, handle) /\ AddCharCb(uuid, handle) /\ UNCHANGED named
     \/ Fails(uuid = DevName) /\ UNCHANGED <<attrs, char_handle, dev_name_char_handle>>
  /\ UNCHANGED <<service_handle, services, started>>

AddDescriptor ==
  /\ step = "desc" /\ step' = After[step]
  /\ \/ Added("2902", NextHandle(service_handle)) /\ UNCHANGED named
     \/ Fails(FALSE) /\ UNCHANGED attrs
  /\ UNCHANGED <<handles, services, started>>

\* start_svc is never given a value: any service starts, or none.
StartService ==
  /\ step = "start" /\ step' = After[step]
  /\ started' \in {started} \cup {started \cup {svc} : svc \in services}
  /\ UNCHANGED <<handles, named, services, attrs>>

\* set_adv_param, bt_manager_le_set_random_address, le_set_adv_data
Advertise ==
  /\ step = "adv" /\ step' = After[step]
  /\ UNCHANGED <<handles, named, library>>

GattsInitStep ==
  \/ CreateService
  \/ AddCharacteristic("chr1", "2223")
  \/ AddDescriptor
  \/ AddCharacteristic("chr2", "3334")
  \/ AddCharacteristic("chr3", DevName)
  \/ StartService \/ Advertise

(***************************************************************************)
(* The other commands.                                                     *)
(***************************************************************************)

GattsDeinit ==
  /\ services' = {} /\ started' = {} /\ attrs' = {}
  /\ UNCHANGED <<handles, step, named>>

(***************************************************************************)
(* The requests of the peers.                                              *)
(***************************************************************************)

Visible == {a \in attrs : a.svc \in started}

\* bt_test_gatt_char_read_request_cb and bt_test_gatt_desc_read_requset_cb: what
\* a read is answered with.  The values of their counters are not told apart.
ReadAnswer(a) ==
  IF a.uuid \in CharUuids /\ a.handle = dev_name_char_handle THEN "name" ELSE "count"

\* bt_gatt_server_init runs once before the console takes commands.
GattsStart ==
  /\ service_handle = 0 /\ char_handle = 0 /\ dev_name_char_handle = 0
  /\ step = "create" /\ named = TRUE
  /\ services = {} /\ started = {} /\ attrs = {}

(***************************************************************************)
(* Properties.                                                             *)
(***************************************************************************)

GattsTypeOK ==
  /\ {service_handle, char_handle, dev_name_char_handle} \subseteq 0..MaxHandle
  /\ step \in {"idle"} \cup DOMAIN After
  /\ named \in BOOLEAN
  /\ started \subseteq services /\ services \subseteq 1..MaxHandle
  /\ attrs \subseteq [handle : 1..MaxHandle, svc : services, uuid : Uuids]
  /\ \A a, b \in attrs : a.handle = b.handle => a = b

\* As soon as a bt_gatt_server_init has added its name characteristic to a service of
\* its own, that characteristic, and nothing else that can be read, is answered with
\* the device's name, whichever of its other calls fail and whatever was built and
\* taken down before; a name characteristic of an earlier service is answered with a
\* counter from then on (bt_test_gatt_add_char_cb, bt_test_gatt_char_read_request_cb).
NameIsRead ==
  step \in {"start", "adv", "idle"} /\ named =>
    \A a \in Visible :
      ReadAnswer(a) = "name" <=> a.uuid = DevName /\ a.svc = service_handle
=============================================================================
