# A verification development for SmartNetConnect

SmartNetConnect puts a Linux board (Allwinner D1, XR829 radio) on a Wi-Fi network
whose name and password it learns over BLE or from an NFC card.  This directory
holds TLA+ modules that model the program, TLC configurations that check them on
small instances, and TLAPS proofs about them.  Paths below are relative to
`src/全志端/package/` unless they begin with `src/`.

## 1. Inventory

| Component | Source | State it keeps | Operations |
|---|---|---|---|
| Wi-Fi manager | `test/project/wifimanager.c` | `w->StaEvt` (state, event), `w->enable`, `a->netIdConnecting`, the socket between threads | `aw_wifi_on/off`, the functions of `aw_wifi_interface_t`, `wait_event` |
| libwifimg and wpa_supplicant (external) | used by the manager | event thread, failure counters, list of networks, `wpa_supplicant.conf`, link | control commands, events, `start_udhcpc` |
| BLE provisioning | `allwinner/btmanager/demo/ConnectWifiByBT.c` | `running`, `ssid[16]`, `pwd[16]`, `mutex` | GATT write callback, main loop, Wi-Fi callback |
| NFC provisioning | `test/project/ConnectWifiByNFC.c` | retry counter, `ssid`, `pwd` | read two blocks, turn Wi-Fi on, connect, retry |
| PN532 driver | `test/project/pn532.c`, `pn532_nezha.c`, `wiringSerial.c` | frame buffers, serial port | write frame, read frame, call a function, block read and write |
| A2DP source and Bluetooth commands | `.../demo/bt_cmd.c` | `a2dp_src_loop`, `a2dp_src_enable`, thread; nothing for the other commands | start, stop, the playing thread; 38 commands that ask one thing of the library |
| GATT client demo | `.../demo/bt_gatt_client_app.c` | `gattc_cn_handle`, `notify_id_save` | connect, register and unregister notifications, requests |
| GATT server demo | `.../demo/bt_gatt_server_app.c` | `service_handle`, characteristic handles | service set-up driven by callbacks, reads |
| Bluetooth demo shell | `.../demo/bt_test.c` | bonded and discovered lists, main loop, signal handling | callbacks, command loop, tear-down |
| Mesh demo console | `.../demo/mesh/aw_mesh_app.c` | `__main_terminated`, poll descriptors, the fifo | poll loop, read handlers, `process_cmdline` |
| Mesh demo commands | `.../demo/mesh/cmd.c` | `args`, the transaction number of `goo_client` | the 74 handlers of `cmd_table` |
| Mesh demo models | `.../demo/mesh/aw_mesh_device_demo.c`, `aw_mesh_vnd_mdl.c` | `present_onoff`, `m_vnd_models`, `vendor_model_name` | set-up of a node, receive handlers, publication |
| Windows client | `src/Windows端/PythonBLEAPP` | scan event, service table | scan, connect, write `ssid\npassword` |

How they interact.  The two provisioning programs call the manager from their
main thread; the manager's event thread and its API thread both run the
program's callback, which starts the DHCP client in place, so a callback lasts
up to half a minute and writes `w->StaEvt` at its end.  The GATT stack runs the
write callback in a thread of its own, which shares `ssid`, `pwd` and `running`
with the main thread.  The PN532 driver is called from the NFC main thread only.
The Bluetooth demo is one console thread whose commands call the library, the
library's callbacks, which keep the handles that the commands use, and a
streaming thread.  The mesh demo is one console thread in front of a stack that
calls the models' handlers when a message comes in.

What is hard.  `w->StaEvt` is read and written by two threads with no lock; the
event thread decides from it whether a report of the supplicant is a byte for a
waiting attempt or a change of the state; an attempt is several commands any of
which can fail; the supplicant may go at any point and come back from its file;
calls retry with another key management; the DHCP client gives up in a thread
that knows only the last identifier.  In the Bluetooth demo two flags without a
lock stand between the console and a thread that sets them itself, and handles
outlive what they name.  In the mesh demo two sources of commands share a turn of
one loop, a pipe fuses or loses lines, and messages are lost, reordered and
published on.  `PROJECT.json` lists these hazards at
their lines.

What makes each part correct: the manager's state says what is true of the link
and of the threads, its attempts touch no network but their own, the file agrees
with the list; provisioning connects with the credentials of one write; every
call returns; the driver never takes a stale frame for an answer; a notification
registered can be unregistered; a stream started can be stopped; a read of the
name's characteristic gets the name; a command line runs once, in order, with the
arguments it was given, and names the object its usage line says; a node takes a
name from nobody but the one who addressed it, and the mesh falls silent.

## 2. Plan

Done, in this order:

1. `WifiManager`, its instances in `MCWifiManager`, its theorems in
   `WifiManagerProofs` (the core).
2. `BleProvision`, `MCBleProvision`: the BLE program on top of `WifiManager`.
3. `CommandQueue`, `MeshConsole`, `MCMeshConsole`: what a source of commands
   promises, and the console of the mesh demo, which implements it twice.
4. `MeshCommands`, `MCMeshCommands`: the command table.
5. `MeshDevice`, and `MeshNet` on top of it, `MCMeshNet`: the models of the mesh.
6. `A2dpSource`, `GattClient`, `GattServer`, `BtCommands`, composed in `BtShell`,
   `MCBtShell`: the Bluetooth demo.
7. `Pn532`, and `NfcProvision` on top of it, `MCNfcProvision`: the NFC program.
8. The theorems: `WifiManagerProofs` and `WifiListProofs` on top of it,
   `BleProvisionProofs`, `MeshConsoleProofs`, `MeshCommandsProofs`, `MeshNetProofs`,
   `BtShellProofs`, `NfcProvisionProofs`.

Out of the prover's reach, and left to TLC for good: liveness (`CallReturns`,
`LossIsNoticed`, `WriteIsAnswered`, `WriteIsServed`, `SignalEndsIt`, `TypedIsTaken`,
`AirFallsSilent`, `StopReturns`, `QuietCallReturns`), and `CredentialsAreTheCards`
on a line that loses bytes, where what is left of a frame may pass for another one if
the block is made for it, so that only bounds such as those of the run make it true.
Every other property of a passing run is a theorem.  Where a proof needs induction
over data (lines that are joined, bytes that are summed) the definition is a
recursive function, and the induction is about a set of naturals (`AllNumbers`, from
the well-foundedness of `<`), for the induction theorems of the library take an
operator as a parameter, which the provers cannot instantiate.

## 3. WifiManager

One variable per piece of state:

| Variable | Code |
|---|---|
| `state`, `event` | `w->StaEvt.state`, `w->StaEvt.event` |
| `enable`, `handle` | `w->enable`; whether the program holds what `aw_wifi_on` returned |
| `netIdConnecting` | `a->netIdConnecting` |
| `pc`, `call` | where the API thread is in a call, and its arguments and locals |
| `cb` | where each thread is in the program's callback and its DHCP client |
| `listening`, `ctrl`, `evtq` | the event thread, the reports it has not read, the bytes on the socket to `evtRead` |
| `wpa`, `cur`, `net`, `saved` | the supplicant's state, its network, its list and its file |
| `unsaved` | history: the last SAVE_CONFIG failed |
| `orphan`, `stuck`, `crashed`, `dropped` | history, for the properties only |

The API thread is modelled at the grain at which another thread can act between
two of its steps: entry of a call, CONNECTING, clearing the socket, ADD_NETWORK,
the SET_NETWORK commands, SELECT_NETWORK, the wait, the end.  `At(l)` keeps it
still while it is itself inside the callback.  `Notify` starts the callback
(`state_event_change`), which reads the state only when it runs; `StartDhcp`,
`Lease`, `DhcpDone`, `DhcpTimeout` are the DHCP client, which runs in the thread
of the callback.  Event thread actions begin with `Evt`, the supplicant's own
with `Sup`.  These, and the helpers that say what a command does to the
supplicant, are external: the library is not in the repository.

`SaveConfig` is a SAVE_CONFIG: it writes the list to the file or, at the places in
`SaveFailsAt`, fails and leaves the file behind the list (`unsaved`).  The calls that
remove networks (`wifimanager.c` 1236, 1297) and WPS (1569) then return -1 with the
list changed; the calls that cancel or replace an entry do not look.  A REMOVE_NETWORK
succeeds as long as the supplicant is there.

Names, passwords and key managements are values: a password is empty, well
formed or refused; WEP and open networks both store key type "NONE", as the
configuration file does.  `Contains` says which names occur inside which, because
`clear_network` looks for a name inside the text of the list.

### Runs

| Run | Calls | What it asks |
|---|---|---|
| `wifi_state` | `connect_ap`, the seven that use or remove networks | the state tells the truth, or why it does not, through three attempts and with reports that queue up |
| `wifi_list` | `connect_ap`, `connect_ap_key_mgmt`, `add_network` | the list and the file, for every kind of failure; a SAVE_CONFIG may fail at the end of a wait |
| `wifi_live` | as `wifi_state` | calls return; a lost link is noticed; the file when networks are selected, removed, pushed by WPS, where SAVE_CONFIG may fail |
| `wifi_auto` | `connect_ap_auto`, `disconnect_ap` | violated: see Findings |

Bounds.  In `wifi_list` two identifiers hold the known network and the one being
added, which is what makes a twin; ADD_NETWORK may fail in any state, so a full list
needs no bound of its own.  `MaxLink` bounds what the supplicant reports by itself;
reports that commands cause (a DISCONNECTED for each link a command ends) are
not counted, so two reports can be in flight and reordered against the bytes even
where it is 1.  It is 2 in `wifi_state`, because a CONNECTED of one link can only wait
in the socket while a second link comes and goes: with 1 the state looks truer than
it is.  There and in `wifi_live` one identifier is enough: a network that is known,
or added by `connect_ap` or WPS, is the one that the other calls use.  `wifi_live`
starts with none because liveness checking is costlier.
`SaveFailsAt` says at which places of a call a SAVE_CONFIG may fail.  It is the wait in
`wifi_list` (the entry replaced, or cancelled), and the removals and WPS in `wifi_live`:
the two runs share out the places, for each doubles the states.  `wifi_state` and
`wifi_auto`, and the runs of section 4, have none, since nothing they check reads the
file; the theorems hold for any choice.
No instance has two names of which one contains the other, so what `clear_network`
does then is in the model and not in a run; the theorems do cover it.

CHECK_DEADLOCK is off: with the supplicant gone and the program holding no
interface the system may stop.

Fairness.  `WF` of the API thread, of the event thread and of each callback:
threads are scheduled, `evtRead` times out after 70 s and the DHCP client after
30 s.  The supplicant and the program's choice of calls are not fair.

### Properties

`BusyIsSomeonesWork`, `UpIsReal`: the state that refuses other calls, and the
state that tells the program it has a network, are each accounted for.  The
exceptions are part of the statement and are themselves results.  Four ways out of
an attempt leave CONNECTING behind (`stuck`).  The loss of a link goes unheeded
(`dropped`) when its report comes in CONNECTING or OBTAINING_IP; when a DHCP client
that ends later in either thread overwrites what it did, be it one begun before
Wi-Fi was last turned on; and when an attempt is decided by a CONNECTED that was in
the socket before it began, as `connect_ap_auto` may be.  `NoDuplicateNetwork`, `ConfigSaved`,
`FailedAttemptLeavesNothing`, `AttemptsKeepOtherNetworks`: the list of networks.
The exceptions there are a poll error in `evtRead`, and the supplicant going in the
middle of a call or while the file is behind the list (`crashed`).  `ConfigSaved`
says that between calls the file is the list unless the last SAVE_CONFIG failed; the
entry of a failed attempt may be left in the file in that case alone.  A DHCP client
that gives up in the event thread removes the network that `netIdConnecting` names,
whosever it is by then; that is a step of the callback and not of an attempt, and no
property speaks of it.  `CallReturns`, `LossIsNoticed`: what must happen.

### Theorems

`TypeCorrect`: `Spec => []TypeOK`; `TypeOK` is inductive.  The proof has one
lemma per thread and one step per action.

`BusyCorrect`: `Spec => []BusyIsSomeonesWork`.  The property speaks of quiet
states only, so it is not inductive.  `BusyInv` says of every state who accounts
for CONNECTING (the place of the API thread, or `stuck`) and for OBTAINING_IP (a
thread in the DHCP client); each action keeps it.

`UpCorrect`: `Spec => []UpIsReal`.  The property speaks of states in which the
event thread has read everything.  `UpInv` follows the loss of a link from the
supplicant to the state: as a report still to be read (`LossIn(ctrl)`; behind every
CONNECTED in the queue once the link is down, `LinkTold`), as a CONNECTED that waits
for an attempt which may report up (`ToldReal`), as a DHCP client that is about to
report up (`LeasedReal`), each of which needs `Real`: a link, a loss on its way, or
one that is known to go unheeded.

`WifiListProofs`, over the same steps: `SavedCorrect`, `NothingLeft`, `OthersKept`.
A step of a call changes a list in few ways, and there is a lemma for each
(`ListKept`, `Trimmed` and so on).  `ListInv` says where the file may be behind the
list (`Behind`, or `unsaved` after a failure), which of the entries of a name are the
call's own and the one it replaces (`PairOK`), that identifiers are unique (`IdsOK`), and that the entry of an
attempt that failed is gone from the list, then from the file (`GoneOK`).
`OneOfEachName` adds `TwinsInv`: during an attempt the list without the new entry
has no twins, and the entries of its name are `call.new` and `call.old`; a supplicant
that died comes back with what the file lists, so that has none either.

All hold for every choice of constants that satisfies `ConstantsAssumption` and
`KnownNetsAssumption` (the file gives each identifier once, as `wpa_supplicant`
numbers its networks): any names and any relation between them, identifiers, set
of calls, and bound.  `OneOfEachName` has the hypothesis that the file held no twins
when the program started; the manager does not clear those it finds.
`CallReturns` and `LossIsNoticed` are liveness and stay with TLC.

## 4. BleProvision

`BleProvision` extends `WifiManager`: it adds the GATT thread and `main`, and
replaces the free choice of calls by the program.  `running`, `ssidBuf`,
`pwdBuf` and `mutex` are the statics of the source; `main` is the place of the
main thread, `gatt` the write callback with its locals `i`, `j`, `k`, `flag`.
`HandlerSteps` is the order of the callback: copy the bytes, lock, clear running
and unlock, clear it again and answer.  A character is the number of the write
it came with, so a text tells where its bytes are from.  `connect_ap` receives
the addresses of the buffers, not copies, and reads them at every attempt:
`CopyByte` therefore updates the arguments of a `connect_ap` under way.
`WithManager` runs a step of the manager, whose callback also clears `running`.

Writes fit their buffers and carry a name (`WritesAssumption`); a password is
empty or well formed.

| Run | What it asks |
|---|---|
| `ble` | two writes, the second with a shorter name: main acts on the first, whole; while there is one write, what is added has its name, and `connect_ap` reads its name and password from the buffers; every write is answered and served |
| `ble_torn` | violated: a network is named by bytes of two writes |
| `ble_wait` | violated: main waits for a station that has connected |

One free identifier and no known network are enough for `ble`, because the list
of networks is the subject of the runs of section 3; `ble_wait` starts with a
known network, so that the supplicant may be in a handshake when the program
turns Wi-Fi on.  In `ble` that cannot happen, and `WriteIsServed` holds there
without its exception.

Fairness is that of section 3, with weak fairness of `main` and strong fairness of
the GATT thread: main takes and returns the mutex in a loop without a pause,
and that the callback gets it in the end is the scheduler's promise, which POSIX
does not make.

### Theorems

`BleProvisionProofs`, for any sequence of writes and any length of the buffers that
satisfy `WritesAssumption`, and any networks known before:

- `BleTypeCorrect` (`BleTypeOK`).  That the indices stay in the buffers does not
  follow from the places alone: `CopyOK` ties `i`, `j`, `k` and `flag` to what has
  been copied of the write, and the buffers to the first write.
- `WholeWriteFirst` (`WholeWriteBeforeWifi`) and `SentIsAdded` (`AddsWhatWasSent`).
  `BleInv` adds that nothing clears `running` before the first write is copied
  (`Served`), for the manager's callback, which clears it too, cannot run while
  Wi-Fi is off (`MainOff`); that the name in `connect_ap` is the first write's until
  the second comes (`CallNames`), and so is that of every entry added (`NetOK`).  The
  password is the first write's while `connect_ap` runs, because nothing writes the buffers before the second.
  Each step of the manager is taken up once, with what it does to the call and
  to the list.

`WriteIsAnswered` and `WriteIsServed` are liveness and stay with TLC.

## 5. The mesh demo

### MeshConsole and CommandQueue

`pc` is the place of `main` in its loop, `terminated` is `__main_terminated`,
`revents` what `poll` has reported in this turn.  `tty` holds typed lines, since a
terminal gives one line for each read; `fifo` holds the lines in the pipe, which
`fifo_read_handler` takes in one read.  `StdinGone` and `ReopenFifo` are the two
early branches of the loop; `TakeSignal`, `StdinReadHandler` and
`FifoReadHandler` are the rest of a turn, in its order.  The users, who type,
hang up, send a signal and open, write and close the fifo, may act between any
two of these steps.  `Fused` is what `process_cmdline` makes of lines that were
in the fifo together: the command of the first with the arguments of all.

`CommandQueue` states what a source of commands promises: what is given is taken
in order, once, run if it is good and refused if it is not; and, if the source
may lose, a take may drop what waits.  `MeshConsole` implements it for the
terminal without losses (`TypedInOrder`) and for the fifo with losses
(`PipedInOrder`).  The second holds where each written line has all of its
arguments or none (`LinesAreWhole`) and its numbers end with it (`NumbersEnd`): two
lines that each lack arguments can run as one complete command.  `MCMeshConsole`
assumes both of its lines, so that TLC evaluates them; the theorem has them as
hypotheses.

`mesh_console` has a command with four arguments, one without its argument, and
`quit_app`; two lines typed, two piped and two writers of the fifo at a time are
enough for lines that fuse, a line lost on reopening, a command in the turn of a
signal, and a line behind `quit_app`.  `Newline = FALSE` is a writer that ends lines with
nothing (`printf`); with `echo` the newline spoils the name of a command without
arguments, so that fewer lines are accepted.  Fairness: weak fairness of the loop, a thread
that nothing blocks but `poll`.  Writers may open and close the fifo as often as they
like.  That matters: a turn that finds the fifo hung up reopens it and looks at
neither the signal nor the terminal (`aw_mesh_app.c` 229-234), so writers that come
and go between two calls of `poll` keep both waiting for ever.  `FifoStarvesTheRest` is
that behaviour, and `SignalEndsIt` and `TypedIsTaken` say that it is the only one: a
single turn without a hang-up serves both.  `OneOfEachAfterQuit` is the last turn: a
signal taken before the terminal and the fifo still lets one line of each run, if
`poll` reported them with it.  CHECK_DEADLOCK is off: the program ends, and it
may wait for ever for users who have stopped.

### MeshCommands

Each handler is a row of a function from the arguments to what the handler asks
of the stack (`Request`), with the widths of the casts; `Table` joins the groups
of rows.  `CmdTable` is
`cmd_table`; `ObjectUsage` says what the usage lines call the arguments of the
commands about a node's keys, elements and models.  `RunCommand` is a line: `argv`
keeps what earlier lines have left behind it.  `mesh_commands` runs every pair of
commands under 43 choices of what the words mean, one word different from the
others so that two swapped arguments show.  The arguments start as zeroes or as
77, which stands for whatever the stack held.

### MeshDevice and MeshNet

`MeshDevice` is what `cmd_enable` sets up: element, on/off server and client,
vendor models.  `VndModel` keeps the element in eight bits, as the code does.  The
stack may refuse any step, either vendor model by itself too, and no result is looked
at.  `Refusing` bounds whose stack refuses where it has room: a node without a model
behaves as one whose messages are lost, so one such node is enough.  `MeshNet` puts the
handlers on the air, a bag of messages: `Deliver` runs the handler of the model
whole, since the stack has one thread, and `Lose` drops a message; delivery in
any order is the choice of the message.  `Replies` builds the answer and the
publication of `xradio_vendor_model_receive` from the one buffer that the code
uses for both.  `StatusOf` is the status of the on/off server, whose destination
the code leaves unset: it goes to any node or to none.

`mesh_net` has three nodes, of which one has an operator and publishes to the
second, the second to the third; the second may be enabled twice, and its stack
refuses what it likes.  Names of 32
and 257 bytes are the first too long for the array and one whose length is 1 in
eight bits.  Two commands make messages that overtake each other.  Fairness: every
message is delivered or lost.  Publications must make no circle for
`AirFallsSilent`: `SET_UNACK` is published as `SET_UNACK`, and nodes that publish
to each other would do so for ever.

## 6. The Bluetooth demo

`BtShell` runs one command at a time, from `StatelessCommand` (those that keep
nothing: `BtCommands`) or from the three stateful parts, while streaming threads
and library callbacks go on.  A command that blocks (`joining`) or is half done
(`step`) keeps the console from the next.

- `A2dpSource`: `at` is the place of each thread in `_a2dp_source_thread_func`,
  with a step at each access to a flag; `SrcStop` ends in `pthread_join`, which
  `JoinReturns` ends.  `handle` is the one thread identifier, overwritten by each
  start.
- `GattClient`: `notify_id_save` with its one slot too many, `gattc_cn_handle`,
  and the library's connections and registrations (external).  With a handle that
  names no connection the library may return any identifier.
- `GattServer`: the calls of `bt_gatt_server_init` one by one, each with the
  callback that the library makes inside it; what a peer reads may be asked in
  between.  `start_svc` is never given a value: any service starts, or none.
- `BtCommands`: the guards of the other commands.  `args[]` is not cleared here
  either, so a handler that reads past `argc` finds any word (`Arg`).

`bt_shell` checks the four together: two threads, two connection handles, two
identifiers for a table of two visited slots and one more, handles for two services.
Four commands (those of the GATT server count for two) are a start, a stop and a start
again with one to spare; registrations before and after a connect, with which the
table fills up and then overflows; a registration on each of two connections, the
first of them dead; or two set-ups of the server.  One
stateless command is given before the others, because it touches nothing they
use.  At most one call that could succeed fails in each `bt_gatt_server_init`.
`HSP_AG` and `PROFILE_MAX` are constants because their header is not in the
repository.  Fairness: each streaming thread goes on, and `pthread_join` returns
once its thread has ended; an error of `read` and the return of a second join,
which is undefined, are not relied on.

`LoopMeansThread` and `StopReturns` carry their exceptions: `a2dp_src_start` is
refused for good after a thread has ended on an error of `read`, and a stop is
only sure to return when its thread was playing and alone.  `NothingLeftRegistered`
is about the connection in use; the registrations made while the table was full
(`lost`) are the only ones out of reach.  `NameIsRead` is about the service of the
last set-up that has added its name (`named`), whichever other calls failed; a
service before it answers with a counter from then on.  `Stated` is every range that a
usage line states; `Untested` is `debug`, the one of them that no handler tests.

## 7. Mesh and Bluetooth runs

| Run | What it asks |
|---|---|
| `mesh_console` | the terminal and the fifo implement `CommandQueue`; a signal ends the program; a typed line is read, unless writers that come and go starve both; the last turn runs a typed line and a line of the fifo at most |
| `mesh_commands` | no handler uses more than its arguments; a command and the one that undoes it name the same object |
| `mesh_net` | each vendor model registered once; names fit; only the addressed node takes a name; no more answers than questions; silence in the end |
| `bt_shell` | the flags of the source; a stop returns; unregistering reaches every registration; the name is read where it should be; what a usage line states is what reaches the library, `debug` excepted |

### Theorems

`MeshConsoleProofs`, for any lines, table of commands and bounds under
`MeshConsoleAssumption`:

- `ConsoleTypeCorrect` (`ConsoleTypeOK`) and `LastTurn` (`OneOfEachAfterQuit`).
  `ConsoleInv` adds what a turn relies on: what `poll` reported of the terminal still
  holds when the handler runs, and a turn that goes on after the end was decided has
  seen the signal.
- `TerminalIsAQueue` (`TypedInOrder`): with the mapping of `MeshConsole`, an initial
  state is one of `CommandQueue`, and each step one of its steps or a stutter.
- `FifoIsALossyQueue` (`PipedInOrder`): the same for the fifo, whose reads take all
  lines that wait at once, for any lines with `LinesAreWhole` and `NumbersEnd`.  A
  step of `FifoReadHandler` is a step of the queue that drops or takes: the command
  that runs is the first line's, and it is accepted with exactly that line's arguments
  or refused, whatever is joined behind it (`AllArgsOfFirst`, `FusedIsFirst`).  That
  the function `AllArgs` exists is `JoinsUpTo`, by induction over the number of lines.
  `FifoWaits`, a part of `ConsoleInv`, says that what `poll` reported of the fifo still
  holds when its handler runs.

`MeshCommandsProofs`, for any meaning of the words, any address of the node and any
number of lines:

- `HandlersReadTheirLine` (`RequestIsOfItsLine`).  `RequestOfLine` says of two lines
  that agree in the arguments which `cmd_table` counts that they make the same
  request.  It needs each command to have one row (`Arities`) and one handler
  (`OneHandler`, `EveryCommandHandled`), and there is a lemma for each group of
  handlers.
- `PairsNameTheSame` (`UndoNamesTheSame`).  `NamesItsObjects` is stronger than the
  property: of each command whose usage line names a key, an element or a model it
  says what its request is about, and so of any two of them.  `CommandsInv` keeps
  that for the last two lines.

`MeshNetProofs`, for any set of nodes, subscribers, elements and lengths that
satisfy `MeshDeviceAssumption` and `MeshNetAssumption`:

- `RegisteredOnce` (`VendorModelsOnce`).  `DeviceInv` adds that a list of vendor
  models has as many entries as members: `vendor_model_reg` appends only what it
  does not hold, which `Append` keeps so (`AppendListed`, `RegLists`).
- `NamesFit` (`NameFits`) and `NamedByItsOwn` (`OnlyTheTargetTakesTheName`).
  Neither follows from the state of the nodes alone: `NetInv` says of every
  message under way that a published name starts with the byte of a status, so
  that its receiver takes the empty name, and that any other name was given to
  the node it goes to.  Losing messages only shrinks the air; there is a lemma for
  each receive handler and each command.
- `AnswersAsked` (`AnswersAreAsked`).  Answers under way are counted with their
  copies (`Copies`), since the air is a bag.  `AnswerInv` is stronger than the
  property: it also counts, as owed to a node, the GETs and SETs of its own that nobody
  has answered yet, and adds the answers it has heard, so that delivering a question
  replaces one by the other, a loss only takes away, and a publication, which reuses
  the buffer of the answer, is owed to nobody (`OneMore`, `OneLess`, `RepliesOwe`).
- `MeshTypeCorrect` (`MeshTypeOK`) follows from `DeviceInv` and `NetInv`.

`BtShellProofs`, for any number of threads, connections, identifiers and
commands, and any length of the table, under `A2dpAssumption` and
`GattClientAssumption`:

- `RefusedOnlyWhileStreaming` (`LoopMeansThread`).  `A2dpInv` adds the types and
  `HasHandle`: a thread that was created, or a set `enable`, comes with a handle,
  so that a stop has a thread to join.
- `UnregisterReachesAll` (`NothingLeftRegistered`).  `GattcInv` adds the types (a
  registration is of a connection that stands, so a new connection starts with
  none) and `NoHole`: the identifiers fill the visited slots from the first on.
  The loops that stop at an empty slot thus miss nothing, and the first free slot
  is the one after the last (`FilledSlots`).

- `NameReadRight` (`NameIsRead`).  `GattsInv` says that services lie apart by the
  handles that each asked for and that attributes follow their service without a gap,
  so that no handle is given twice (`ServicesOK`, `AttrsOK`), and that the service in the
  making gets its name once, where `dev_name_char_handle` says (`NameKnown`), whichever
  of the other calls fail.
- `ShellTypeCorrect` (`ShellTypeOK`) collects the types of the parts and, for the
  stateless commands, the ranges: a guard keeps a value in range whatever words
  `args[]` holds.

## 8. The NFC program

`Pn532` is a call of the driver over the serial line.  `at` and `call` say where
`PN532_CallFunction` is; `wire` and `fifo` are the bytes under way and arrived,
with their values and, as history, whether they belong to the call under way.
`BeginCall` clears the FIFO and writes the command, `TimedOut` is either
`wait_ready`, `Needed` is how many bytes `PN532_UART_ReadData` decides to wait
for, `FrameIn` is the decoder.  A call that gives up leaves its command with the
chip (`todo`, `doing`), which acknowledges and answers when it likes: a card that
comes between the time-out of a poll and the next call puts an answer in front of
the acknowledgement of that call.  `PN532_UART_Wakeup` leaves such an answer too.

`NfcProvision` is `main`: `NextCall` gives its calls in order, `ReadFails` and
`ReadSucceeds` are the two ends of `PN532_MifareClassicReadBlock`, where -1
(`Leftover`) stands for a byte that nobody has written.  `WifiOn` and `ConnectAp`
keep of `WifiManager` only what `main` asks.

`QuietCallReturns`: a call that begins when the chip owes nothing comes back,
unless a byte is lost.  Without that condition it does not hold; see section 9.
`CredentialsAreTheCards`: what `connect_ap` is given is the card's, or the zeroes
that a refused read leaves, unless a call of the turn failed or took the answer of
another.  Without the exception leftovers of the stack are given as the name.

`nfc` checks both with one card of a four-byte identifier, two blocks, one byte
lost in the first turn, frames whole or cut after five bytes, and two turns of the
loop, of which the second never reaches `connect_ap`.  Bounds: a command waits
until the chip has taken up the one before, and the chip sends when the line is
idle.  Fairness: `main` runs, bytes on the line arrive, and the chip answers what it
can; that a card is presented is not assumed.  CHECK_DEADLOCK is off because `main`
ends.

`NfcProvisionProofs` proves `CardsCredentials`: while the line has lost nothing,
`CredentialsAreTheCards` holds for every card, every identifier of four or seven
bytes, bytes that arrive in pieces of any size, and any number of turns.  The
inductive invariant `NfcOK` follows the bytes of the call under way: the stream
(the FIFO, then the wire) is bytes of earlier calls, none of them own, and behind
them what the chip has sent so far for this call, which is nothing, the ACK, or the
ACK and a frame (`Stands`).  It is needed because the property speaks of buffers
that a long exchange has filled.  Reading an ACK leaves one of three streams
(`AckRead`): the frame alone; the whole, when the ACK was an earlier call's; or the
whole without its first byte.  `OwnFrame` then shows that a frame that is accepted
and begins with an own byte is the frame that was sent: from the other two the driver
waits for more bytes than there are, or sees a length whose complement is wrong.  The
checksum is not needed there, since it can only refuse.  That the buffers of a second
turn are never used comes from `on`, which a first `connect_ap` presupposes.
The theorem assumes a line that loses nothing.  With losses a block could contain
a frame of its own, and it would be false for some cards; the run covers one lost
byte.  `TakesForeign` looks at the first byte of an answer alone, which is enough
because earlier bytes come first; that is `Stands` again.  `QuietCallReturns` is
liveness and stays with TLC.

Two theorems are about the decoder by itself, for every payload.  `FrameDecodes`: the
decoder finds in a right frame its payload and nothing else, up to 254 bytes, beyond
which the checksum loop of the code never ends (`pn532.c` 85).  `OneWrongByte`: of a
frame with one wrong byte the decoder makes the payload that was sent or none.  The
line of `Pn532` loses bytes but never alters one, so the runs do not ask this.  A wrong
length or complement fails against the other, a wrong byte of the payload changes the
sum (`SumTells`, by induction over the bytes behind it), and a wrong byte in front of
them moves the place where the decoder looks to one where it finds no length.  The
frames are those of the chip, with the two bytes that `PN532_CallFunction` looks at:
one of a single byte would look like the start of one of 255 bytes, were the second
zero to come as 255.

## 9. Findings

`wifi_auto`: `connect_ap_auto` does not clear the socket before its attempt, so
the DISCONNECTED byte that `disconnect_ap` (or an earlier loss) left there
decides it.  The trace is: turn on, connected, `disconnect_ap`, the event thread
writes a byte and sets DISCONNECTED, `connect_ap_auto`, RECONNECT, and
`wait_event` reads the byte at once.

`ble_torn`: the write callback and `connect_ap` share the buffers with no lock,
and a write does not clear what the one before left.  The repository's README
(`src/README.md` 122-133) prescribes a mutex for what the threads share; the
program uses it for `running` alone.

`ble_wait`: `aw_wifi_on` sets CONNECTING when it finds a handshake under way and
returns.  The event thread takes CONNECTING for an attempt that somebody waits
for and writes the CONNECTED report to the socket; nobody reads it, the state
stays CONNECTING, and the loop at `ConnectWifiByBT.c` 296 never ends.

### Seen while modelling, without a run of their own

These are in the models as the code has them, or lie outside; the statements of
the properties except them where they must.

Bluetooth demo:
- `a2dp_src_stop` between the start of the thread and its `a2dp_src_loop = true`
  (`bt_cmd.c` 375) has its reset overwritten, and `pthread_join` never returns.  A
  second `a2dp_src_start` in that window makes a second thread and loses the
  identifier of the first; another stop may join a thread twice.  At the end of the
  file the thread rewinds to byte 0 and plays the header.
- `unregister-notify` visits one slot fewer than the table has and only the
  connection in use (`bt_gatt_client_app.c` 490).
- Guards of the form `argc != 1 && strlen(...) != 17` refuse a line only when both
  are wrong; with no argument they read a word that was never set.
- `debug` does not test the range 0 to 5 that its help states, and `profile_dis` lets
  `PROFILE_MAX` itself through.
- `bt_test.c` in the background calls `_bt_deinit` in its signal handler and does not
  heed POLLHUP on its fifo; in the foreground a signal leaves without `_bt_deinit`.

NFC program:
- A card presented between the time-out of a poll and the next call shifts every
  answer by one call: the acknowledgement that stands where a frame is expected has
  a zero as its fourth byte, so `PN532_UART_ReadData` (`pn532_nezha.c` 202) waits for
  the 28 bytes of the caller's buffer, and with a four-byte identifier only 25 come.
  A frame that the clearing of the FIFO cuts may have 255 there, and 262 bytes are
  awaited.  There is no time limit.
- The answer to an authentication passes for the answer to the read that follows
  (`pn532.c` 154), whose 16 bytes are then what the stack held.
- The second turn of the loop gets NULL from `aw_wifi_on` and calls through it
  (`ConnectWifiByNFC.c` 139), unless Wi-Fi has connected by then.
- `FrameIn` takes a frame that ends behind what was read for an error.  The code reads on
  in the bytes its stack happens to hold (`pn532.c` 79-86) and would accept it if they
  completed the sum.  A fourth byte of 249 or more where the ACK is read makes the line
  write past the driver's buffer (`pn532.c` 124, 140); the model leaves that out.

Mesh demo:
- A vendor payload that `str2hex` refuses (`cmd.c` 191) is not sent; the lines of the
  model have digits only.
- `setAdvPara` takes three arguments by the table and uses two;
  `unprov_scan` reads its duration in base 16, divides by 16 and multiplies by 10;
  the vendor payload's length is kept in eight bits, its message's is not.
- An end of file at the terminal is sticky: no typed line is read afterwards, and
  the loop spins.  When the terminal hangs up, `main` returns without
  `aw_mesh_deinit`.
- A name that is published carries the byte of a status first; a subscriber takes
  it for the empty name.  The meta data of the publication copy themselves before
  they are set (`aw_mesh_vnd_mdl.c` 211), and `on_off_value_publish` leaves the destination unset.

## 10. Not modelled

- Of the PN532 driver: block writes, the NTAG and GPIO calls, the SPI and I2C
  transports, which are not built, and the samples `readInfo.c`, `writeInfo.c` and
  `test.c`, which make the same calls once.
- `bt_test.c` outside the prompt: its start, its poll loop, its lists of devices
  and its callbacks, which print.
- The BLE provisioning stub (an older program without Wi-Fi) and the Windows
  client, whose write is the environment of `BleProvision`.
- Failures of `malloc` in the mesh and Bluetooth demos; the values of keys,
  labels and characteristics; what commands print.
- The vendored wiringPi library and its examples, device trees, init scripts and
  binaries, `uart_*`, `hello_world` and `test/driver/key.c`: no logic of this program.
