--------------------------- MODULE BtShellProofs ---------------------------
(***************************************************************************)
(* Theorems about BtShell, for any number of threads, connections and ids  *)
(* of notifications, any length of their table and any number of commands. *)
(*                                                                         *)
(* A2dpInv adds to LoopMeansThread that a thread that has been created, or *)
(* a set flag, comes with a handle to join.  GattcInv adds to              *)
(* NothingLeftRegistered that the table has no hole: the ids fill its      *)
(* visited slots from the first on, so the loops that stop at an empty     *)
(* slot miss nothing.                                                      *)
(***************************************************************************)
EXTENDS BtShell, FiniteSetTheorems, TLAPS

(***************************************************************************)
(* The A2DP source.                                                        *)
(***************************************************************************)

HasHandle ==
  /\ enable => handle \in Thread
  /\ \A t \in Thread : at[t] # "none" => handle \in Thread

A2dpInv == A2dpTypeOK /\ HasHandle /\ LoopMeansThread

\* What a move of a thread leaves true, whatever it does to the flags.
LEMMA GoInv ==
  ASSUME A2dpInv, NEW t \in Thread, NEW from \in Place, NEW to \in Place \ {"none"},
         Go(t, from, to), from \notin {"none", "dead"}, handle' = handle, joined' = joined,
         joining' = joining, calm' = calm
  PROVE  /\ at' \in [Thread -> Place]
         /\ \A u \in joined' : at'[u] = "dead"
         /\ handle \in Thread
         /\ \A u \in Thread : u # t => at'[u] = at[u]
         /\ at'[t] = to
BY DEF A2dpInv, A2dpTypeOK, HasHandle, Go

\* The streaming threads.
LEMMA StreamInv ==
  ASSUME A2dpInv, NEW t \in Thread, Runs(t) \/ ReadError(t)
  PROVE  A2dpInv'
<1> USE DEF A2dpInv, A2dpTypeOK, HasHandle, LoopMeansThread
<1>1. CASE Begin(t)
  BY <1>1, GoInv DEF Begin, Place, Go
<1>2. CASE OpenFile(t)
  BY <1>2, GoInv DEF OpenFile, Place, Go
<1>3. CASE StartStream(t)
  BY <1>3, GoInv DEF StartStream, Place, Go
<1>4. CASE Arm(t)
  BY <1>4, GoInv DEF Arm, Place, Go
<1>5. CASE Quit(t)
  BY <1>5, GoInv DEF Quit, Place, Go
<1>6. CASE ReadError(t)
  BY <1>6, GoInv DEF ReadError, Place, Go
<1>7. CASE StopStream(t)
  BY <1>7, GoInv DEF StopStream, Place, Go
<1>8. CASE Finish(t)
  BY <1>8, GoInv, ZenonT(60) DEF Finish, Place, Go
<1> QED BY <1>1, <1>2, <1>3, <1>4, <1>5, <1>6, <1>7, <1>8 DEF Runs

\* a2dp_src_start.
LEMMA SrcStartInv ==
  ASSUME A2dpInv, SrcStart, ~joining
  PROVE  A2dpInv'
<1> USE DEF A2dpInv, A2dpTypeOK, HasHandle, LoopMeansThread
<1>1. CASE loop
  BY <1>1 DEF SrcStart
<1>2. CASE ~loop
  <2> PICK t \in Thread : Go(t, "none", "new") /\ handle' = t
    BY <1>2 DEF SrcStart
  <2>1. at' \in [Thread -> Place]
    BY DEF Go, Place
  <2>2. \A u \in joined : at'[u] = "dead"
    BY DEF Go
  <2> QED BY <1>2, <2>1, <2>2 DEF SrcStart
<1> QED BY <1>1, <1>2

\* a2dp_src_stop.
LEMMA SrcStopInv ==
  ASSUME A2dpInv, SrcStop
  PROVE  A2dpInv'
<1>1. calm' \in BOOLEAN /\ loop' \in BOOLEAN /\ joining' \in BOOLEAN
  BY Zenon DEF SrcStop, A2dpInv, A2dpTypeOK
<1>2. joining' => handle \in Thread
  BY DEF SrcStop, A2dpInv, A2dpTypeOK, HasHandle
<1>3. UNCHANGED <<enable, handle, at, joined, readFailed>> /\ (loop' => loop)
  BY DEF SrcStop
<1> QED BY <1>1, <1>2, <1>3 DEF A2dpInv, A2dpTypeOK, HasHandle, LoopMeansThread

\* The return of pthread_join.
LEMMA JoinInv ==
  ASSUME A2dpInv, JoinReturns \/ JoinAgain
  PROVE  A2dpInv'
<1>1. /\ joined' \subseteq Thread /\ joining' = FALSE
      /\ \A u \in joined' : at[u] = "dead"
  BY DEF JoinReturns, JoinAgain, A2dpInv, A2dpTypeOK
<1>2. UNCHANGED <<loop, enable, handle, at, calm, readFailed>>
  BY DEF JoinReturns, JoinAgain
<1> QED BY <1>1, <1>2 DEF A2dpInv, A2dpTypeOK, HasHandle, LoopMeansThread

\* Steps of the other parts.
LEMMA A2dpKept ==
  ASSUME A2dpInv, UNCHANGED a2dpVars
  PROVE  A2dpInv'
BY DEF a2dpVars, A2dpInv, A2dpTypeOK, HasHandle, LoopMeansThread

\* Every step keeps A2dpInv.
LEMMA A2dpStep ==
  ASSUME A2dpInv, [Next]_vars
  PROVE  A2dpInv'
<1>1. CASE GiveA2dp
  BY <1>1, SrcStartInv, SrcStopInv DEF GiveA2dp, Give, Free
<1>2. CASE Continue
  BY <1>2, JoinInv, A2dpKept DEF Continue
<1>3. ASSUME NEW t \in Thread, Stream(t) PROVE A2dpInv'
  BY <1>3, StreamInv DEF Stream
<1>4. CASE GiveStateless \/ GiveGattc \/ GiveGatts \/ GiveQuit \/ Library \/ UNCHANGED vars
  <2>1. UNCHANGED a2dpVars
    BY <1>4 DEF GiveStateless, GiveGattc, GiveGatts, GiveQuit, Library, vars
  <2> QED BY <2>1, A2dpKept
<1> QED BY <1>1, <1>2, <1>3, <1>4 DEF Next

LEMMA A2dpInvariant == Spec => []A2dpInv
<1>1. Init => A2dpInv
  BY A2dpAssumption DEF Init, A2dpInit, A2dpInv, A2dpTypeOK, HasHandle, LoopMeansThread, Place
<1> QED BY <1>1, A2dpStep, PTL DEF Spec

\* a2dp_src_start is refused only while some thread streams, unless a thread has
\* ended on an error of read (cmd_bt_a2dp_src_start).
THEOREM RefusedOnlyWhileStreaming == Spec => []LoopMeansThread
<1>1. A2dpInv => LoopMeansThread
  BY DEF A2dpInv
<1> QED BY <1>1, A2dpInvariant, PTL

(***************************************************************************)
(* The GATT client.                                                        *)
(***************************************************************************)

\* The ids fill the first k of the slots that the loops visit, and no other.
FilledTo(table, k) == \A i \in 1..CMD_NOTIFY_ID_MAX : table[i] # 0 <=> i <= k
NoHole == \E k \in 0..CMD_NOTIFY_ID_MAX : FilledTo(notify_id_save, k)

GattcInv == GattcTypeOK /\ NoHole /\ NothingLeftRegistered

\* The slots visited are the filled ones, and the first free one comes after them.
LEMMA FilledSlots ==
  ASSUME GattcTypeOK, NEW k \in 0..CMD_NOTIFY_ID_MAX, FilledTo(notify_id_save, k)
  PROVE  /\ Visited = 1..k
         /\ FreeSlot(notify_id_save) = k + 1
<1> USE GattClientAssumption
<1>1. ASSUME NEW i \in 1..CMD_NOTIFY_ID_MAX
      PROVE  Filled(notify_id_save, i) <=> i <= k
  BY DEF FilledTo, Filled
<1>2. Visited = 1..k
  BY <1>1 DEF Visited
<1> DEFINE EmptyAt(i) ==
             /\ Filled(notify_id_save, i - 1)
             /\ i = CMD_NOTIFY_ID_MAX + 1 \/ notify_id_save[i] = 0
<1>3. k + 1 \in Slots /\ EmptyAt(k + 1)
  BY DEF FilledTo, Filled, Slots
<1>4. ASSUME NEW i \in Slots, EmptyAt(i) PROVE i = k + 1
  <2>1. i - 1 <= k
    <3>1. CASE i = 1
      BY <3>1
    <3>2. CASE i # 1
      <4>1. i - 1 \in 1..CMD_NOTIFY_ID_MAX
        BY <3>2 DEF Slots
      <4>2. Filled(notify_id_save, i - 1)
        BY <1>4
      <4> QED BY <4>1, <4>2, <1>1
    <3> QED BY <3>1, <3>2
  <2>2. i > k
    BY <1>4 DEF Slots, FilledTo
  <2> QED BY <2>1, <2>2 DEF Slots
<1>5. FreeSlot(notify_id_save) = k + 1
  BY <1>3, <1>4 DEF FreeSlot
<1> QED BY <1>2, <1>5

\* A registration of the connection in use is put where the loops find it, unless
\* they no longer reach.
LEMMA RegisterInv ==
  ASSUME GattcInv, RegisterNotify
  PROVE  GattcInv'
<1> USE GattClientAssumption
<1> PICK id \in NotifyId \cup {0} :
      /\ Registered(gattc_cn_handle, id)
      /\ IF id = 0 THEN UNCHANGED <<notify_id_save, lost>>
         ELSE /\ notify_id_save' = [notify_id_save EXCEPT ![FreeSlot(notify_id_save)] = id]
              /\ lost' = IF FreeSlot(notify_id_save) <= CMD_NOTIFY_ID_MAX THEN lost
                         ELSE lost \cup (regs' \ regs)
      /\ UNCHANGED <<gattc_cn_handle, gattcUp, dials, live>>
  BY DEF RegisterNotify
<1> PICK k \in 0..CMD_NOTIFY_ID_MAX : FilledTo(notify_id_save, k)
  BY DEF GattcInv, NoHole
<1>1. Visited = 1..k /\ FreeSlot(notify_id_save) = k + 1 /\ k + 1 \in Slots
  BY FilledSlots DEF GattcInv, Slots
<1>2. regs' \subseteq [cn : live', id : NotifyId]
  BY DEF Registered, GattcInv, GattcTypeOK
<1>9. regs \subseteq regs' /\ lost' \subseteq regs'
  <2>1. regs \subseteq regs'
    BY DEF Registered
  <2>2. lost' \subseteq lost \cup (regs' \ regs)
    OBVIOUS
  <2> QED BY <2>1, <2>2 DEF GattcInv, GattcTypeOK
<1>3. notify_id_save' \in [Slots -> NotifyId \cup {0}]
  BY <1>1 DEF GattcInv, GattcTypeOK
<1>4. GattcTypeOK'
  BY <1>2, <1>3, <1>9 DEF GattcInv, GattcTypeOK
<1>5. CASE id = 0
  <2>1. UNCHANGED <<notify_id_save, lost, gattc_cn_handle, regs>>
    BY <1>5 DEF Registered
  <2> QED BY <2>1, <1>4 DEF GattcInv, NoHole, FilledTo, NothingLeftRegistered, Visited, Filled
<1>6. CASE id # 0 /\ k = CMD_NOTIFY_ID_MAX
  <2>1. FreeSlot(notify_id_save) = CMD_NOTIFY_ID_MAX + 1
    BY <1>1, <1>6
  <2>2. \A i \in 1..CMD_NOTIFY_ID_MAX : notify_id_save'[i] = notify_id_save[i]
    BY <2>1, <1>6 DEF GattcInv, GattcTypeOK, Slots
  <2>3. lost' = lost \cup (regs' \ regs)
    <3>1. ~(FreeSlot(notify_id_save) <= CMD_NOTIFY_ID_MAX)
      BY <2>1
    <3> QED BY <3>1, <1>6, Zenon
  <2>4. FilledTo(notify_id_save, k)'
    BY <2>2 DEF FilledTo
  <2>5. Visited' = Visited
    BY <2>2 DEF Visited, Filled
  <2>6. ASSUME NEW r \in regs' \ lost', r.cn = gattc_cn_handle
        PROVE  \E i \in Visited' : notify_id_save'[i] = r.id
    <3>1. r \in regs \ lost
      BY <2>3, <2>6
    <3>2. PICK i \in Visited : notify_id_save[i] = r.id
      BY <2>6, <3>1 DEF GattcInv, NothingLeftRegistered
    <3> QED BY <2>2, <2>5, <3>2 DEF Visited
  <2> QED BY <2>4, <2>6, <1>4 DEF GattcInv, NoHole, NothingLeftRegistered
<1>7. CASE id # 0 /\ k < CMD_NOTIFY_ID_MAX
  <2>1. /\ notify_id_save'[k + 1] = id
        /\ \A i \in 1..CMD_NOTIFY_ID_MAX : i # k + 1 => notify_id_save'[i] = notify_id_save[i]
    BY <1>1, <1>7 DEF GattcInv, GattcTypeOK, Slots
  <2>2. k + 1 \in 0..CMD_NOTIFY_ID_MAX
    BY <1>7
  <2>3. FilledTo(notify_id_save, k + 1)'
    BY <2>1, <1>7 DEF FilledTo
  <2>4. Visited' = 1..(k + 1)
    BY <2>1, <1>7 DEF Visited, Filled, FilledTo
  <2>5. lost' = lost
    BY <1>1, <1>7
  <2>6. ASSUME NEW r \in regs' \ lost, r.cn = gattc_cn_handle
        PROVE  \E i \in Visited' : notify_id_save'[i] = r.id
    <3>1. CASE r \in regs
      <4>1. PICK i \in Visited : notify_id_save[i] = r.id
        BY <2>6, <3>1 DEF GattcInv, NothingLeftRegistered
      <4> QED BY <4>1, <1>1, <2>1, <2>4, <1>7
    <3>2. CASE r = [cn |-> gattc_cn_handle, id |-> id]
      BY <3>2, <2>1, <2>4
    <3> QED BY <3>1, <3>2, <2>6 DEF Registered
  <2> QED BY <2>2, <2>3, <2>5, <2>6, <1>4 DEF GattcInv, NoHole, NothingLeftRegistered
<1> QED BY <1>5, <1>6, <1>7

\* What goes is what the table holds: nothing of the connection in use is left.
LEMMA UnregisterInv ==
  ASSUME GattcInv, UnregisterNotify
  PROVE  GattcInv'
<1> USE GattClientAssumption
<1> PICK k \in 0..CMD_NOTIFY_ID_MAX : FilledTo(notify_id_save, k)
  BY DEF GattcInv, NoHole
<1>1. Visited = 1..k
  BY FilledSlots DEF GattcInv
<1>2. \A i \in 1..CMD_NOTIFY_ID_MAX : notify_id_save'[i] = 0
  BY <1>1 DEF UnregisterNotify, FilledTo, Slots
<1>3. FilledTo(notify_id_save, 0)'
  BY <1>2 DEF FilledTo
<1>4. notify_id_save' \in [Slots -> NotifyId \cup {0}]
  BY DEF UnregisterNotify, GattcInv, GattcTypeOK
<1>5. GattcTypeOK'
  BY <1>4 DEF UnregisterNotify, GattcInv, GattcTypeOK
<1>6. ASSUME NEW r \in regs' \ lost', r.cn = gattc_cn_handle PROVE FALSE
  BY <1>6 DEF UnregisterNotify, GattcInv, NothingLeftRegistered
<1> QED BY <1>3, <1>5, <1>6 DEF UnregisterNotify, GattcInv, NoHole, NothingLeftRegistered

\* Steps of the other parts.
LEMMA GattcKept ==
  ASSUME GattcInv, UNCHANGED gattcVars
  PROVE  GattcInv'
BY DEF gattcVars, GattcInv, GattcTypeOK, NoHole, FilledTo, NothingLeftRegistered, Visited, Filled

\* The commands and callbacks that leave the table as it is: they add nothing to
\* the registrations, and a new connection has none.
LEMMA TableKept ==
  ASSUME GattcInv, GattcTypeOK', UNCHANGED notify_id_save, regs' \subseteq regs,
         lost' = lost \cap regs',
         \A r \in regs' : r.cn = gattc_cn_handle' => r.cn = gattc_cn_handle
  PROVE  GattcInv'
<1>1. NoHole' /\ Visited' = Visited
  BY DEF GattcInv, NoHole, FilledTo, Visited, Filled
<1> QED BY <1>1 DEF GattcInv, NothingLeftRegistered

\* The library's callbacks.
LEMMA LibraryInv ==
  ASSUME GattcInv, GattcLibrary
  PROVE  GattcInv'
<1> USE GattClientAssumption
<1> PICK cn \in Cn : DisconnCb(cn) \/ \E success \in BOOLEAN : ConnCb(cn, success)
  BY DEF GattcLibrary
<1>1. CASE DisconnCb(cn)
  <2>1. GattcTypeOK'
    BY <1>1 DEF DisconnCb, GattcInv, GattcTypeOK
  <2> QED BY <1>1, <2>1, TableKept DEF DisconnCb
<1>2. ASSUME NEW success \in BOOLEAN, ConnCb(cn, success) PROVE GattcInv'
  <2>1. GattcTypeOK'
    BY <1>2 DEF ConnCb, GattcInv, GattcTypeOK
  <2>2. \A r \in regs : r.cn # cn
    BY <1>2 DEF ConnCb, GattcInv, GattcTypeOK
  <2>3. lost' = lost \cap regs'
    BY <1>2 DEF ConnCb, GattcInv, GattcTypeOK
  <2> QED BY <1>2, <2>1, <2>2, <2>3, TableKept DEF ConnCb
<1> QED BY <1>1, <1>2

\* The client's commands that register nothing.
LEMMA OtherCommandsInv ==
  ASSUME GattcInv, GattcInit \/ GattcDeinit \/ GattcConnect
  PROVE  GattcInv'
<1> USE GattClientAssumption
<1>1. GattcTypeOK'
  <2>1. CASE GattcInit
    BY <2>1 DEF GattcInit, GattcInv, GattcTypeOK
  <2>2. CASE GattcDeinit
    <3>1. dials' \in 0..MaxDials /\ live' \subseteq Cn /\ regs' \subseteq [cn : live', id : NotifyId]
      BY <2>2 DEF GattcDeinit
    <3> QED BY <2>2, <3>1 DEF GattcDeinit, GattcInv, GattcTypeOK
  <2>3. CASE GattcConnect
    <3>1. dials' \in 0..MaxDials
      BY <2>3 DEF GattcConnect, GattcInv, GattcTypeOK
    <3> QED BY <2>3, <3>1 DEF GattcConnect, GattcInv, GattcTypeOK
  <2> QED BY <2>1, <2>2, <2>3
<1>2. lost' = lost \cap regs'
  BY DEF GattcInit, GattcDeinit, GattcConnect, GattcInv, GattcTypeOK
<1> QED BY <1>1, <1>2, TableKept DEF GattcInit, GattcDeinit, GattcConnect

\* Every step keeps GattcInv.
LEMMA GattcStep ==
  ASSUME GattcInv, [Next]_vars
  PROVE  GattcInv'
<1>1. CASE GiveGattc
  BY <1>1, OtherCommandsInv, RegisterInv, UnregisterInv DEF GiveGattc
<1>2. CASE Library
  BY <1>2, LibraryInv DEF Library
<1>3. CASE GiveQuit
  BY <1>3, OtherCommandsInv DEF GiveQuit
<1>4. CASE \/ GiveStateless \/ GiveA2dp \/ GiveGatts \/ Continue \/ UNCHANGED vars
           \/ \E t \in Thread : Stream(t)
  <2>1. UNCHANGED gattcVars
    BY <1>4 DEF GiveStateless, GiveA2dp, GiveGatts, Continue, Stream, vars
  <2> QED BY <2>1, GattcKept
<1> QED BY <1>1, <1>2, <1>3, <1>4 DEF Next

LEMMA GattcInvariant == Spec => []GattcInv
<1>1. Init => GattcInv
  <2> SUFFICES ASSUME Init PROVE GattcInv
    OBVIOUS
  <2>1. GattcTypeOK
    <3>1. notify_id_save \in [Slots -> NotifyId \cup {0}] /\ dials \in 0..MaxDials
      BY GattClientAssumption DEF Init, GattcStart
    <3> QED BY <3>1 DEF Init, GattcStart, GattcTypeOK
  <2>2. FilledTo(notify_id_save, 0) /\ 0 \in 0..CMD_NOTIFY_ID_MAX
    BY GattClientAssumption DEF Init, GattcStart, FilledTo, Slots
  <2> QED BY <2>1, <2>2 DEF Init, GattcStart, GattcInv, NoHole, NothingLeftRegistered
<1> QED BY <1>1, GattcStep, PTL DEF Spec

\* unregister-notify reaches every registration of the connection in use that was not
\* made while the table was full, through any number of connections
\* (cmd_gatt_client_unregister_notify).
THEOREM UnregisterReachesAll == Spec => []NothingLeftRegistered
<1>1. GattcInv => NothingLeftRegistered
  BY DEF GattcInv
<1> QED BY <1>1, GattcInvariant, PTL

(***************************************************************************)
(* The GATT server.  Services lie SvcHandles apart and the attributes of   *)
(* each follow its handle without a gap, so no handle is given out twice.  *)
(***************************************************************************)

ServicesOK ==
  /\ IsFiniteSet(services) /\ started \subseteq services /\ services \subseteq 1..MaxHandle
  /\ \A s \in services : s + SvcHandles - 1 <= MaxHandle /\ s + SvcHandles <= NextService
  /\ \A s, t \in services : s < t => s + SvcHandles <= t

AttrsOK ==
  /\ IsFiniteSet(attrs)
  /\ attrs \subseteq [handle : 1..MaxHandle, svc : services, uuid : Uuids]
  /\ \A a, b \in attrs : a.handle = b.handle => a = b
  /\ \A a \in attrs : /\ a.svc < a.handle /\ a.handle < a.svc + SvcHandles
                      /\ a.handle < NextHandle(a.svc)

HandlesOK ==
  /\ {service_handle, char_handle, dev_name_char_handle} \subseteq 0..MaxHandle
  /\ step \in {"idle"} \cup DOMAIN After
  /\ named \in BOOLEAN

\* While the set-up has its service and has not failed to add the name, whatever else
\* failed: the service in the making has no name until the last characteristic, and
\* from then on it has one, where dev_name_char_handle says.
NameKnown ==
  /\ named /\ step \in {"chr1", "desc", "chr2", "chr3"} =>
       \A a \in attrs : a.uuid = DevName => a.svc # service_handle
  /\ named /\ step \in {"start", "adv", "idle"} =>
       \/ attrs = {}
       \/ \E n \in attrs :
            /\ n.uuid = DevName /\ n.handle = dev_name_char_handle /\ n.svc = service_handle
            /\ \A a \in attrs : a.uuid = DevName /\ a.svc = service_handle => a = n

GattsInv == ServicesOK /\ AttrsOK /\ HandlesOK /\ NameKnown

\* The room for a service lies past those there are.
LEMMA NewService ==
  ASSUME GattsInv, RoomForService, services' = services \cup {NextService},
         UNCHANGED <<started, attrs>>
  PROVE  /\ ServicesOK' /\ AttrsOK'
         /\ NextService \in 0..MaxHandle
         /\ \A a \in attrs : a.svc # NextService
<1> USE GattServerAssumption
<1> DEFINE n == Cardinality(services)
           new == NextService
<1>1. n \in Nat /\ SvcHandles \in Nat /\ SvcHandles * n \in Nat
  BY FS_CardinalityType DEF GattsInv, ServicesOK
<1>2. new \in 1..MaxHandle /\ new = 1 + SvcHandles * n /\ new + SvcHandles - 1 <= MaxHandle
  BY <1>1 DEF NextService, RoomForService
<1>3. services \subseteq Nat /\ \A s \in services : s + SvcHandles <= new
  BY DEF GattsInv, ServicesOK
<1>4. new \notin services
  BY <1>1, <1>2, <1>3
<1>5. IsFiniteSet(services') /\ Cardinality(services') = n + 1
  BY <1>4, FS_AddElement DEF GattsInv, ServicesOK
<1>6. NextService' = new + SvcHandles
  <2>1. SvcHandles * (n + 1) = SvcHandles * n + SvcHandles
    BY <1>1
  <2> QED BY <1>1, <1>2, <1>5, <2>1 DEF NextService
<1> HIDE DEF new
<1>7. services' = services \cup {new}
  BY DEF new
<1>8. ServicesOK'
  <2>1. \A s \in services' : s + SvcHandles - 1 <= MaxHandle /\ s + SvcHandles <= NextService'
    BY <1>1, <1>2, <1>3, <1>6, <1>7 DEF GattsInv, ServicesOK
  <2>2. \A s, t \in services' : s < t => s + SvcHandles <= t
    BY <1>1, <1>2, <1>3, <1>7 DEF GattsInv, ServicesOK
  <2>3. services' \subseteq 1..MaxHandle /\ started' \subseteq services'
    BY <1>2, <1>7 DEF GattsInv, ServicesOK
  <2> QED BY <1>5, <2>1, <2>2, <2>3 DEF ServicesOK
<1>9. AttrsOK'
  BY <1>7 DEF GattsInv, AttrsOK, NextHandle
<1>10. \A a \in attrs : a.svc \in services
  BY DEF GattsInv, AttrsOK
<1> QED BY <1>2, <1>4, <1>8, <1>9, <1>10 DEF new

\* An attribute takes the next handle of its service, which nothing has.
LEMMA NewAttr ==
  ASSUME GattsInv, NEW uuid \in Uuids, Added(uuid, NextHandle(service_handle)),
         UNCHANGED <<services, started, service_handle>>
  PROVE  /\ ServicesOK' /\ AttrsOK'
         /\ NextHandle(service_handle) \in 1..MaxHandle
<1> USE GattServerAssumption
<1> DEFINE h == NextHandle(service_handle)
           n == [handle |-> h, svc |-> service_handle, uuid |-> uuid]
           Of(s) == {a \in attrs : a.svc = s}
<1>1. /\ service_handle \in services /\ h < service_handle + SvcHandles
      /\ attrs' = attrs \cup {n}
  BY DEF Added, RoomForAttr
<1>2. \A s \in services : IsFiniteSet(Of(s)) /\ Cardinality(Of(s)) \in Nat
  <2>1. \A s \in services : IsFiniteSet(Of(s))
    BY FS_Subset DEF GattsInv, AttrsOK
  <2> QED BY <2>1, FS_CardinalityType
<1>3. services \subseteq 1..MaxHandle /\ service_handle \in Nat /\ SvcHandles \in Nat
  BY <1>1 DEF GattsInv, ServicesOK
<1>4. h = service_handle + 1 + Cardinality(Of(service_handle)) /\ h \in Nat
  BY <1>1, <1>2, <1>3 DEF NextHandle
<1>5. h \in 1..MaxHandle /\ service_handle < h
  <2>1. service_handle + SvcHandles - 1 <= MaxHandle
    BY <1>1 DEF GattsInv, ServicesOK
  <2> QED BY <1>1, <1>2, <1>3, <1>4, <2>1
<1> HIDE DEF h
<1>6. \A a \in attrs : a.handle # h
  <2> SUFFICES ASSUME NEW a \in attrs, a.handle = h PROVE FALSE
    OBVIOUS
  <2>1. /\ a.svc \in services /\ a.svc \in Nat /\ a.svc < h /\ h < a.svc + SvcHandles
        /\ h < NextHandle(a.svc)
    <3>1. a \in [handle : 1..MaxHandle, svc : services, uuid : Uuids]
      BY DEF GattsInv, AttrsOK
    <3>2. a.svc < a.handle /\ a.handle < a.svc + SvcHandles /\ a.handle < NextHandle(a.svc)
      BY DEF GattsInv, AttrsOK
    <3>3. a.svc \in services
      BY <3>1
    <3>4. \A s \in services : s \in Nat
      BY <1>3
    <3> QED BY <3>2, <3>3, <3>4
  <2>2. a.svc # service_handle
    BY <1>4, <2>1 DEF h
  <2> QED BY <1>1, <1>3, <1>4, <1>5, <2>1, <2>2 DEF GattsInv, ServicesOK
<1>7. n \notin attrs /\ n.handle = h /\ n.svc = service_handle
  BY <1>6
<1>8. \A s \in services :
        NextHandle(s)' = IF s = service_handle THEN NextHandle(s) + 1 ELSE NextHandle(s)
  <2> TAKE s \in services
  <2>1. CASE s = service_handle
    <3>1. {a \in attrs' : a.svc = s} = Of(s) \cup {n} /\ n \notin Of(s)
      BY <1>1, <1>7, <2>1
    <3>2. Cardinality({a \in attrs' : a.svc = s}) = Cardinality(Of(s)) + 1
      BY <1>2, <3>1, FS_AddElement
    <3>3. NextHandle(s) = s + 1 + Cardinality(Of(s))
      BY DEF NextHandle
    <3>4. NextHandle(s)' = s + 1 + Cardinality({a \in attrs' : a.svc = s})
      BY DEF NextHandle
    <3>5. s \in Nat /\ Cardinality(Of(s)) \in Nat
      BY <1>2, <1>3, <2>1
    <3> HIDE DEF Of
    <3> QED BY <2>1, <3>2, <3>3, <3>4, <3>5
  <2>2. CASE s # service_handle
    <3>1. {a \in attrs' : a.svc = s} = Of(s)
      BY <1>1, <1>7, <2>2
    <3> QED BY <2>2, <3>1 DEF NextHandle
  <2> QED BY <2>1, <2>2
<1>9. \A s \in services : NextHandle(s) \in Nat
  BY <1>2, <1>3 DEF NextHandle
<1> HIDE DEF n
<1>10. AttrsOK'
  <2>1. IsFiniteSet(attrs')
    BY <1>1, FS_AddElement DEF GattsInv, AttrsOK
  <2>2. n \in [handle : 1..MaxHandle, svc : services, uuid : Uuids]
    BY <1>1, <1>5 DEF n
  <2>3. attrs' \subseteq [handle : 1..MaxHandle, svc : services', uuid : Uuids]
    BY <1>1, <2>2 DEF GattsInv, AttrsOK
  <2>4. \A a, b \in attrs' : a.handle = b.handle => a = b
    BY <1>1, <1>6, <1>7 DEF GattsInv, AttrsOK
  <2>5. ASSUME NEW a \in attrs'
        PROVE  /\ a.svc < a.handle /\ a.handle < a.svc + SvcHandles
               /\ a.handle < NextHandle(a.svc)'
    <3>1. CASE a = n
      BY <3>1, <1>1, <1>4, <1>5, <1>7, <1>8 DEF h
    <3>2. CASE a \in attrs
      <4>1. /\ a.svc \in services /\ a.handle \in Nat /\ a.svc < a.handle
            /\ a.handle < a.svc + SvcHandles /\ a.handle < NextHandle(a.svc)
        BY <3>2 DEF GattsInv, AttrsOK
      <4> QED BY <4>1, <1>8, <1>9
    <3> QED BY <3>1, <3>2, <1>1
  <2> QED BY <2>1, <2>3, <2>4, <2>5 DEF AttrsOK
<1>11. ServicesOK'
  BY DEF GattsInv, ServicesOK, NextService
<1> QED BY <1>5, <1>10, <1>11 DEF h

\* A failed call leaves the attributes and the services alone.
LEMMA ServerKept ==
  ASSUME GattsInv, UNCHANGED library
  PROVE  ServicesOK' /\ AttrsOK'
BY DEF GattsInv, ServicesOK, AttrsOK, NextService, NextHandle, library

\* The call that creates a service, and its callback.
LEMMA CreateServiceInv ==
  ASSUME GattsInv, CreateService
  PROVE  GattsInv'
<1> USE GattServerAssumption
<1>1. step = "create" /\ step' = "chr1"
  BY DEF CreateService, After
<1>2. CASE /\ RoomForService
           /\ services' = services \cup {NextService}
           /\ service_handle' = NextService
           /\ UNCHANGED named
  <2>1. /\ ServicesOK' /\ AttrsOK'
        /\ NextService \in 0..MaxHandle
        /\ \A a \in attrs : a.svc # NextService
    BY <1>2, NewService DEF CreateService
  <2>2. HandlesOK'
    BY <1>1, <1>2, <2>1 DEF CreateService, GattsInv, HandlesOK, After
  <2>3. NameKnown'
    BY <1>1, <1>2, <2>1 DEF CreateService, NameKnown
  <2> QED BY <2>1, <2>2, <2>3 DEF GattsInv
<1>3. CASE Fails(TRUE) /\ UNCHANGED <<services, service_handle>>
  <2>1. named' = FALSE /\ UNCHANGED <<library, handles>>
    BY <1>3 DEF Fails, CreateService, library, handles, GattsInv, HandlesOK
  <2>2. HandlesOK' /\ NameKnown'
    BY <1>1, <2>1 DEF GattsInv, HandlesOK, NameKnown, After, handles
  <2> QED BY <2>1, <2>2, ServerKept DEF GattsInv
<1> QED BY <1>2, <1>3 DEF CreateService

\* The call that adds a characteristic, and its callback.
LEMMA AddCharacteristicInv ==
  ASSUME GattsInv, NEW place \in {"chr1", "chr2", "chr3"}, NEW uuid \in CharUuids,
         uuid = DevName <=> place = "chr3", AddCharacteristic(place, uuid)
  PROVE  GattsInv'
<1> USE GattServerAssumption
<1> DEFINE h == NextHandle(service_handle)
           n == [handle |-> h, svc |-> service_handle, uuid |-> uuid]
<1>1. /\ step = place /\ step' = After[place]
      /\ UNCHANGED <<service_handle, services, started>>
      /\ \/ Added(uuid, h) /\ AddCharCb(uuid, h) /\ UNCHANGED named
         \/ Fails(uuid = DevName) /\ UNCHANGED <<attrs, char_handle, dev_name_char_handle>>
  BY DEF AddCharacteristic
<1>2. step' = IF place = "chr1" THEN "desc" ELSE IF place = "chr2" THEN "chr3" ELSE "start"
  BY <1>1 DEF After
<1>3. CASE Added(uuid, h) /\ AddCharCb(uuid, h) /\ UNCHANGED named
  <2>1. ServicesOK' /\ AttrsOK' /\ h \in 1..MaxHandle
    BY <1>1, <1>3, NewAttr DEF Uuids
  <2>2. attrs' = attrs \cup {n} /\ n.uuid = uuid /\ n.svc = service_handle /\ n.handle = h
    BY <1>3 DEF Added
  <2> HIDE DEF n, h
  <2>3. HandlesOK'
    <3>1. step' \in {"idle"} \cup DOMAIN After
      BY <1>2 DEF After
    <3>2. /\ {service_handle', char_handle', dev_name_char_handle'} \subseteq 0..MaxHandle
          /\ named' \in BOOLEAN
      BY <1>1, <1>3, <2>1 DEF GattsInv, HandlesOK, AddCharCb
    <3> QED BY <3>1, <3>2 DEF HandlesOK
  <2>4. ASSUME place # "chr3" PROVE NameKnown'
    BY <1>1, <1>2, <1>3, <2>2, <2>4 DEF GattsInv, NameKnown
  <2>5. ASSUME place = "chr3" PROVE NameKnown'
    <3>1. named => \A a \in attrs : a.uuid = DevName => a.svc # service_handle
      BY <1>1, <2>5 DEF GattsInv, NameKnown
    <3>2. dev_name_char_handle' = h
      BY <1>3, <2>5 DEF AddCharCb
    <3>3. /\ n \in attrs'
          /\ named => \A a \in attrs' : a.uuid = DevName /\ a.svc = service_handle => a = n
      BY <2>2, <3>1
    <3> QED BY <1>1, <1>2, <1>3, <2>2, <2>5, <3>2, <3>3 DEF NameKnown
  <2> QED BY <2>1, <2>3, <2>4, <2>5 DEF GattsInv
<1>4. CASE Fails(uuid = DevName) /\ UNCHANGED <<attrs, char_handle, dev_name_char_handle>>
  <2>1. /\ named' \in BOOLEAN /\ (named' => named) /\ (uuid = DevName => ~named')
        /\ UNCHANGED <<library, handles>>
    BY <1>1, <1>4 DEF Fails, library, handles, GattsInv, HandlesOK
  <2>2. HandlesOK' /\ NameKnown'
    BY <1>1, <1>2, <2>1 DEF GattsInv, HandlesOK, NameKnown, After, handles, library
  <2> QED BY <2>1, <2>2, ServerKept DEF GattsInv
<1> QED BY <1>1, <1>3, <1>4

\* The call that adds a descriptor, and its callback.
LEMMA AddDescriptorInv ==
  ASSUME GattsInv, AddDescriptor
  PROVE  GattsInv'
<1> USE GattServerAssumption
<1> DEFINE h == NextHandle(service_handle)
           n == [handle |-> h, svc |-> service_handle, uuid |-> "2902"]
<1>1. step = "desc" /\ step' = "chr2" /\ UNCHANGED <<handles, services, started>>
  BY DEF AddDescriptor, After
<1>2. CASE Added("2902", h) /\ UNCHANGED named
  <2>1. ServicesOK' /\ AttrsOK'
    BY <1>1, <1>2, NewAttr DEF Uuids, handles
  <2>2. attrs' = attrs \cup {n} /\ n.uuid # DevName
    BY <1>2 DEF Added, DevName
  <2> HIDE DEF n
  <2>3. HandlesOK' /\ NameKnown'
    BY <1>1, <1>2, <2>2 DEF GattsInv, HandlesOK, NameKnown, After, handles
  <2> QED BY <2>1, <2>3 DEF GattsInv
<1>3. CASE Fails(FALSE) /\ UNCHANGED attrs
  <2>1. named' = named /\ UNCHANGED <<library, handles>>
    BY <1>1, <1>3 DEF Fails, library, GattsInv, HandlesOK
  <2>2. HandlesOK' /\ NameKnown'
    BY <1>1, <2>1 DEF GattsInv, HandlesOK, NameKnown, After, handles, library
  <2> QED BY <2>1, <2>2, ServerKept DEF GattsInv
<1> QED BY <1>2, <1>3 DEF AddDescriptor

\* The call that starts a service.
LEMMA StartServiceInv ==
  ASSUME GattsInv, StartService
  PROVE  GattsInv'
<1>1. /\ step = "start" /\ step' = "adv"
      /\ UNCHANGED <<handles, named, services, attrs>> /\ started' \subseteq services
  BY DEF StartService, After, GattsInv, ServicesOK
<1>2. ServicesOK' /\ AttrsOK'
  BY <1>1 DEF GattsInv, ServicesOK, AttrsOK, NextService, NextHandle
<1>3. HandlesOK' /\ NameKnown'
  BY <1>1 DEF GattsInv, HandlesOK, NameKnown, After, handles
<1> QED BY <1>2, <1>3 DEF GattsInv

\* The calls that advertise.
LEMMA AdvertiseInv ==
  ASSUME GattsInv, Advertise
  PROVE  GattsInv'
<1>1. step = "adv" /\ step' = "idle" /\ UNCHANGED <<handles, named, library>>
  BY DEF Advertise, After
<1>2. HandlesOK' /\ NameKnown'
  BY <1>1 DEF GattsInv, HandlesOK, NameKnown, After, handles, library
<1> QED BY <1>1, <1>2, ServerKept DEF GattsInv

\* Nothing is left of the services; the handles stay.
LEMMA GattsDeinitInv ==
  ASSUME GattsInv, GattsDeinit, step = "idle"
  PROVE  GattsInv'
<1> USE GattServerAssumption
<1>1. services' = {} /\ started' = {} /\ attrs' = {} /\ UNCHANGED <<handles, step, named>>
  BY DEF GattsDeinit
<1>2. ServicesOK' /\ AttrsOK'
  BY <1>1, FS_EmptySet DEF ServicesOK, AttrsOK
<1>3. HandlesOK' /\ NameKnown'
  BY <1>1 DEF GattsInv, HandlesOK, NameKnown, handles
<1> QED BY <1>2, <1>3 DEF GattsInv

\* Every step of bt_gatt_server_init.
LEMMA GattsInitInv ==
  ASSUME GattsInv, GattsInit
  PROVE  GattsInv'
<1>1. step' = "create" /\ named' = TRUE /\ UNCHANGED <<handles, library>>
  BY DEF GattsInit
<1>2. HandlesOK' /\ NameKnown'
  BY <1>1 DEF GattsInv, HandlesOK, NameKnown, After, handles
<1> QED BY <1>1, <1>2, ServerKept DEF GattsInv

LEMMA GattsKept ==
  ASSUME GattsInv, UNCHANGED gattsVars
  PROVE  GattsInv'
<1>1. HandlesOK' /\ NameKnown'
  BY DEF gattsVars, handles, library, GattsInv, HandlesOK, NameKnown
<1> QED BY <1>1, ServerKept DEF GattsInv, gattsVars

\* Every step keeps GattsInv.
LEMMA GattsStep ==
  ASSUME GattsInv, [Next]_vars
  PROVE  GattsInv'
<1>1. CASE GiveGatts
  BY <1>1, GattsInitInv, GattsDeinitInv DEF GiveGatts, Give, Free
<1>2. CASE GiveQuit
  BY <1>2, GattsDeinitInv DEF GiveQuit, Free
<1>3. CASE Continue
  <2>1. CASE UNCHANGED gattsVars
    BY <2>1, GattsKept
  <2>2. CASE GattsInitStep
    <3>1. CASE AddCharacteristic("chr1", "2223")
      BY <3>1, AddCharacteristicInv DEF CharUuids, DevName
    <3>2. CASE AddCharacteristic("chr2", "3334")
      BY <3>2, AddCharacteristicInv DEF CharUuids, DevName
    <3>3. CASE AddCharacteristic("chr3", DevName)
      BY <3>3, AddCharacteristicInv DEF CharUuids
    <3> QED BY <2>2, <3>1, <3>2, <3>3, CreateServiceInv, AddDescriptorInv, StartServiceInv,
               AdvertiseInv DEF GattsInitStep
  <2> QED BY <1>3, <2>1, <2>2 DEF Continue
<1>4. CASE \/ GiveStateless \/ GiveA2dp \/ GiveGattc \/ Library \/ UNCHANGED vars
           \/ \E t \in Thread : Stream(t)
  <2>1. UNCHANGED gattsVars
    BY <1>4 DEF GiveStateless, GiveA2dp, GiveGattc, Library, Stream, vars
  <2> QED BY <2>1, GattsKept
<1> QED BY <1>1, <1>2, <1>3, <1>4 DEF Next

LEMMA GattsInvariant == Spec => []GattsInv
<1>1. ASSUME Init PROVE GattsInv
  <2>1. ServicesOK /\ AttrsOK
    BY <1>1, FS_EmptySet DEF Init, GattsStart, ServicesOK, AttrsOK
  <2>2. HandlesOK /\ NameKnown
    BY <1>1, GattServerAssumption DEF Init, GattsStart, HandlesOK, NameKnown, After
  <2> QED BY <2>1, <2>2 DEF GattsInv
<1> QED BY <1>1, GattsStep, PTL DEF Spec

\* As soon as a bt_gatt_server_init has created its service and added the name to it,
\* that characteristic is answered with the name and nothing else is, whichever of its
\* other calls failed and whatever was built and taken down before: the name of an
\* earlier service is answered with a counter (bt_test_gatt_char_read_request_cb).
THEOREM NameReadRight == Spec => []NameIsRead
<1>1. ASSUME GattsInv PROVE NameIsRead
  <2> SUFFICES ASSUME step \in {"start", "adv", "idle"}, named, NEW a \in Visible
               PROVE  ReadAnswer(a) = "name" <=> a.uuid = DevName /\ a.svc = service_handle
    BY DEF NameIsRead
  <2>1. a \in attrs
    BY DEF Visible
  <2>2. PICK n \in attrs :
          /\ n.uuid = DevName /\ n.handle = dev_name_char_handle /\ n.svc = service_handle
          /\ \A b \in attrs : b.uuid = DevName /\ b.svc = service_handle => b = n
    BY <1>1, <2>1 DEF GattsInv, NameKnown
  <2>3. a.handle = n.handle => a = n
    BY <1>1, <2>1 DEF GattsInv, AttrsOK
  <2> QED BY <2>1, <2>2, <2>3 DEF ReadAnswer, CharUuids
<1> QED BY <1>1, GattsInvariant, PTL

(***************************************************************************)
(* The stateless commands, one shape of handler after another.             *)
(***************************************************************************)

Calls == {"enable", "discovery", "le_scan", "enable_adv", "vol_changed", "discovery_mode",
          "page_timeout", "io_capability", "vgs", "avrcp"}

\* At most one request, and of a stated call only with a stated value.
Fine(requests) ==
  /\ Cardinality(requests) <= 1
  /\ \A r \in requests : r.call \in Calls => r.value \in Stated[r.call]

Args == {args \in Seq(Word) : Len(args) <= 2}

LEMMA NothingFine == Fine(Nothing)
BY FS_EmptySet DEF Fine, Nothing

LEMMA AskFine ==
  ASSUME NEW call, NEW value, call \in Calls => value \in Stated[call]
  PROVE  Fine(Ask(call, value))
<1> DEFINE r == [call |-> call, value |-> value]
<1>1. Cardinality({r}) = 1
  BY FS_Singleton
<1>2. r.call = call /\ r.value = value
  OBVIOUS
<1> HIDE DEF r
<1>3. Ask(call, value) = {r}
  BY DEF Ask, r
<1> QED BY <1>1, <1>2, <1>3 DEF Fine

LEMMA ClampRange == \A n \in Int : Clamp(n, 0, 100) \in 0..100
BY DEF Clamp

LEMMA WordInt == \A w \in Word : w.int \in Int
BY BtCommandsAssumption

\* The handlers that ask nothing of a stated range.
LEMMA FreeShapes ==
  ASSUME NEW call, call \notin Calls, NEW args
  PROVE  /\ \A q \in Plain(call) : Fine(q)
         /\ \A q \in OneWord(call, args) : Fine(q)
         /\ \A q \in Addressed(call, args) : Fine(q)
         /\ \A last : \A q \in Profile(call, args, last) : Fine(q)
<1>1. \A value : Fine(Ask(call, value))
  BY AskFine
<1> QED BY <1>1, NothingFine DEF Plain, OneWord, Addressed, Profile

\* The handlers that make one bit of their word.
LEMMA SwitchFine ==
  ASSUME NEW call \in {"enable", "discovery", "le_scan", "enable_adv"}, NEW args
  PROVE  \A q \in Switch(call, args) : Fine(q)
<1>1. Stated[call] = 0..1
  BY DEF Stated
<1>2. \A n : Bit(n) \in 0..1
  BY DEF Bit
<1>3. \A n : Fine(Ask(call, Bit(n)))
  BY <1>1, <1>2, AskFine
<1> QED BY <1>3, NothingFine DEF Switch

\* The handlers that test a range ask only for what it holds.
LEMMA DiscoveryModeFine == \A args : \A q \in InRange("discovery_mode", args, 0, 2) : Fine(q)
<1>1. Stated["discovery_mode"] = 0..2
  BY DEF Stated
<1>2. \A value \in 0..2 : Fine(Ask("discovery_mode", value))
  BY <1>1, AskFine
<1> QED BY <1>2, NothingFine DEF InRange

LEMMA PageTimeoutFine == \A args : \A q \in InRange("page_timeout", args, 1, MaxPageTimeout) : Fine(q)
<1>1. Stated["page_timeout"] = 1..MaxPageTimeout
  BY DEF Stated
<1>2. \A value \in 1..MaxPageTimeout : Fine(Ask("page_timeout", value))
  BY <1>1, AskFine
<1> QED BY <1>2, NothingFine DEF InRange

LEMMA IoCapabilityFine == \A args : \A q \in InRange("io_capability", args, 0, 4) : Fine(q)
<1>1. Stated["io_capability"] = 0..4
  BY DEF Stated
<1>2. \A value \in 0..4 : Fine(Ask("io_capability", value))
  BY <1>1, AskFine
<1> QED BY <1>2, NothingFine DEF InRange

LEMMA VgsFine == \A args : \A q \in InRange("vgs", args, 0, 15) : Fine(q)
<1>1. Stated["vgs"] = 0..15
  BY DEF Stated
<1>2. \A value \in 0..15 : Fine(Ask("vgs", value))
  BY <1>1, AskFine
<1> QED BY <1>2, NothingFine DEF InRange

LEMMA SetVolFine ==
  ASSUME NEW args \in Args
  PROVE  \A q \in SetVol(args) : Fine(q)
<1> SUFFICES ASSUME NEW w \in Arg(args, 1) PROVE Fine(Ask("vol_changed", Clamp(w.int, 0, 100)))
  BY DEF SetVol
<1>1. w \in Word
  BY DEF Arg, Args
<1>2. Clamp(w.int, 0, 100) \in 0..100
  BY <1>1, WordInt, ClampRange
<1>3. Stated["vol_changed"] = 0..100
  BY DEF Stated
<1> QED BY <1>2, <1>3, AskFine

LEMMA AvrcpFine ==
  ASSUME NEW args
  PROVE  \A q \in Avrcp(args) : Fine(q)
<1>1. \A type \in 0..6 : Fine(Ask("avrcp", type))
  <2>1. Stated["avrcp"] = 0..6
    BY DEF Stated
  <2> QED BY <2>1, AskFine
<1> QED BY <1>1, NothingFine DEF Avrcp

LEMMA DialFine ==
  ASSUME NEW args
  PROVE  \A q \in Dial(args) : Fine(q)
<1>1. \A value : Fine(Ask("atd", value))
  BY AskFine DEF Calls
<1> QED BY <1>1 DEF Dial

LEMMA BtCmdFine ==
  ASSUME NEW cmd \in BtTable, NEW args \in Args
  PROVE  \A q \in BtCmd(cmd, args) : Fine(q)
<1>1. \A call \in {"enable", "discovery"} : \A q \in Switch(call, args) : Fine(q)
  BY SwitchFine
<1>2. /\ \A call \in {"pair", "unpair", "connect", "disconnect", "remove", "sppc_connect"} :
           \A q \in Addressed(call, args) : Fine(q)
      /\ \A call \in {"set_name", "sppc_send", "sppc_disconnect", "spps_send",
                      "spps_disconnect", "loglevel", "ex_debug_mask"} :
           \A q \in OneWord(call, args) : Fine(q)
      /\ \A call \in {"ata", "chup", "cnum", "bldn", "spps_accept", "test"} :
           \A q \in Plain(call) : Fine(q)
      /\ \A call \in {"profile_connect", "profile_disconnect"}, last \in {HSP_AG, PROFILE_MAX} :
           \A q \in Profile(call, args, last) : Fine(q)
  BY FreeShapes DEF Calls
<1>3. \A q \in Prints : Fine(q)
  BY NothingFine DEF Prints
<1> HIDE DEF Calls
<1> QED BY <1>1, <1>2, <1>3, DiscoveryModeFine, PageTimeoutFine, IoCapabilityFine, VgsFine,
           SetVolFine, AvrcpFine, DialFine DEF BtCmd, BtTable

LEMMA GattcCmdFine ==
  ASSUME NEW cmd \in GattcTable, NEW args \in Args
  PROVE  \A q \in GattcCmd(cmd, args) : Fine(q)
<1>1. \A call \in GattcTable : \A value : Fine(Ask(call, value))
  BY AskFine DEF Calls, GattcTable
<1>2. \A call \in {"le_scan"} : \A q \in Switch(call, args) : Fine(q)
  BY SwitchFine
<1>3. \A call \in GattcTable : \A q \in Plain(call) : Fine(q)
  BY <1>1 DEF Plain
<1> QED BY <1>1, <1>2, <1>3, NothingFine DEF GattcCmd, Prints

LEMMA GattsCmdFine ==
  ASSUME NEW cmd, NEW args \in Args
  PROVE  \A q \in GattsCmd(cmd, args) : Fine(q)
<1>1. /\ \A q \in Switch("enable_adv", args) : Fine(q)
      /\ \A q \in OneWord("indication", args) : Fine(q)
      /\ \A q \in Plain("le_disconnect") : Fine(q)
  BY FreeShapes, SwitchFine DEF Calls
<1> QED BY <1>1, NothingFine DEF GattsCmd, Prints

ConsoleInv ==
  /\ Fine(asked)
  /\ commands \in 0..MaxCommands /\ left \in BOOLEAN

LEMMA ConsoleStep ==
  ASSUME ConsoleInv, [Next]_vars
  PROVE  ConsoleInv'
<1> USE BtShellAssumption
<1>1. CASE GiveStateless
  <2>1. PICK cmd \in StatelessTable, args \in ArgLists : asked' \in StatelessCommand(cmd, args)
    BY <1>1 DEF GiveStateless
  <2>2. args \in Args
    <3>1. <<>> \in Args
      BY DEF Args
    <3>2. ASSUME NEW w \in Word PROVE <<w>> \in Args
      BY DEF Args
    <3>3. ASSUME NEW v \in Word, NEW w \in Word PROVE <<v, w>> \in Args
      BY DEF Args
    <3> QED BY <3>1, <3>2, <3>3 DEF ArgLists
  <2>3. Fine(asked')
    BY <2>1, <2>2, BtCmdFine, GattcCmdFine, GattsCmdFine DEF StatelessCommand
  <2> QED BY <1>1, <2>3 DEF GiveStateless, ConsoleInv, Fine
<1>2. CASE GiveA2dp \/ GiveGattc \/ GiveGatts
  <2>1. PICK weight \in {1, 2} : Give(weight) /\ UNCHANGED left
    BY <1>2 DEF GiveA2dp, GiveGattc, GiveGatts
  <2>2. Fine(asked')
    BY <2>1, NothingFine DEF Give
  <2>3. commands' \in 0..MaxCommands
    BY <2>1 DEF Give, ConsoleInv
  <2> QED BY <2>1, <2>2, <2>3 DEF ConsoleInv, Fine
<1>3. CASE GiveQuit
  BY <1>3 DEF GiveQuit, ConsoleInv, Fine
<1>4. CASE Continue \/ Library \/ UNCHANGED vars \/ \E t \in Thread : Stream(t)
  <2>1. UNCHANGED shellVars
    BY <1>4 DEF Continue, Library, Stream, vars
  <2> QED BY <2>1 DEF shellVars, ConsoleInv, Fine
<1> QED BY <1>1, <1>2, <1>3, <1>4 DEF Next

\* Every part keeps its types, and nothing outside the range that the help or a message
\* of a command states reaches the library, whatever words args[] holds, but the level
\* of debug, which its handler does not test (bt_cmd.c).
THEOREM ShellTypeCorrect == Spec => []ShellTypeOK
<1>1. Init => ConsoleInv
  <2>1. Init => commands \in 0..MaxCommands /\ left \in BOOLEAN
    <3>1. Init => commands = 0 /\ left = FALSE
      BY DEF Init
    <3>2. 0 \in 0..MaxCommands
      BY BtShellAssumption
    <3> QED BY <3>1, <3>2
  <2>2. Init => Fine(asked)
    BY NothingFine DEF Init
  <2> QED BY <2>1, <2>2 DEF ConsoleInv
<1>2. Spec => []ConsoleInv
  BY <1>1, ConsoleStep, PTL DEF Spec
<1>3. ASSUME A2dpInv, GattcInv, GattsInv, ConsoleInv PROVE ShellTypeOK
  <2>1. GattsTypeOK
    BY <1>3 DEF GattsInv, ServicesOK, AttrsOK, HandlesOK, GattsTypeOK
  <2>2. DOMAIN Stated \ Untested = Calls
    BY DEF Stated, Untested, Calls
  <2> QED BY <1>3, <2>1, <2>2 DEF A2dpInv, GattcInv, ConsoleInv, Fine, ShellTypeOK
<1> QED BY <1>2, <1>3, A2dpInvariant, GattcInvariant, GattsInvariant, PTL

=============================================================================
