---------------------------- MODULE BleProvision ----------------------------
(***************************************************************************)
(* Provisioning over BLE (btmanager/demo/ConnectWifiByBT.c) on top of the  *)
(* Wi-Fi manager.  A phone writes the name and the password of a network   *)
(* to a GATT characteristic; the GATT thread copies them, byte by byte,    *)
(* into two static buffers and clears running; main polls running under a  *)
(* mutex, turns Wi-Fi on, waits while the station is connecting, and calls *)
(* connect_ap with the addresses of the buffers.                           *)
(***************************************************************************)
EXTENDS WifiManager

CONSTANTS
  Writes,      \* the writes of the phone, in order: how long name and password are
  BufLen       \* how many bytes a buffer holds before its last NUL

ASSUME WritesAssumption ==
  /\ BufLen \in Nat
  /\ Writes \in Seq([name: 1..BufLen, word: 0..BufLen])

VARIABLES
  running,           \* static char running
  ssidBuf, pwdBuf,   \* static char ssid[], pwd[]
  mutex,             \* the thread that holds the mutex, or "none"
  main,              \* where main is
  gatt               \* the write callback: step, write, and its locals i, j, k, flag

bleVars == <<running, ssidBuf, pwdBuf, mutex, main, gatt>>
allVars == <<vars, bleVars>>

(***************************************************************************)
(* Bytes: a character is the number of the write it came with.             *)
(***************************************************************************)

NUL == 0
Newline == -1

Copies(n, c) == [x \in 1..n |-> c]
Name(w) == Copies(Writes[w].name, w)
Word(w) == Copies(Writes[w].word, w)
Value(w) == Name(w) \o <<Newline>> \o Word(w)

\* The string a buffer holds: what comes before the first NUL.
Text(buf) ==
  LET len == CHOOSE n \in 0..BufLen :
               /\ \A x \in 1..n : buf[x] # NUL
               /\ n = BufLen \/ buf[n + 1] = NUL
  IN  [x \in 1..len |-> buf[x]]

PasswordOf(buf) == IF Text(buf) = <<>> THEN "" ELSE "formed"

(***************************************************************************)
(* bt_test_gatt_char_write_request_cb2, in the GATT thread.                *)
(***************************************************************************)

ClearsFirst ==           \* mutant: running is cleared before the bytes are there
  <<"lock", "clear", "copy", "again">>

HandlerSteps == <<"copy", "lock", "clear", "again">>

InHandler(step) == gatt.at # 0 /\ HandlerSteps[gatt.at] = step
NextStep == IF gatt.at = Len(HandlerSteps) THEN 0 ELSE gatt.at + 1

WriteRequest ==
  /\ gatt.at = 0 /\ gatt.w < Len(Writes)
  /\ gatt' = [at |-> 1, w |-> gatt.w + 1, i |-> 1, j |-> 0, k |-> 0, flag |-> TRUE]
  /\ UNCHANGED <<vars, running, ssidBuf, pwdBuf, mutex, main>>

KeepsNewline(c) == FALSE    \* mutant: the newline is copied like any byte

IsSeparator(c) == c = Newline

Byte == Value(gatt.w)[gatt.i]

Store ==
  CASE IsSeparator(Byte) ->
         /\ gatt' = [gatt EXCEPT !.i = @ + 1, !.flag = FALSE]
         /\ UNCHANGED <<ssidBuf, pwdBuf>>
    [] ~IsSeparator(Byte) /\ gatt.flag ->
         /\ gatt' = [gatt EXCEPT !.i = @ + 1, !.j = @ + 1]
         /\ ssidBuf' = [ssidBuf EXCEPT ![gatt.j + 1] = Byte]
         /\ UNCHANGED pwdBuf
    [] OTHER ->
         /\ gatt' = [gatt EXCEPT !.i = @ + 1, !.k = @ + 1]
         /\ pwdBuf' = [pwdBuf EXCEPT ![gatt.k + 1] = Byte]
         /\ UNCHANGED ssidBuf

\* connect_ap was given the buffers themselves: a call under way sees the byte.
CopyByte ==
  /\ InHandler("copy")
  /\ IF gatt.i <= Len(Value(gatt.w))
       THEN /\ Store
            /\ call' = IF call.op = "connect_ap"
                         THEN [call EXCEPT !.ssid = Text(ssidBuf'),
                                           !.pass = PasswordOf(pwdBuf')]
                         ELSE call
       ELSE gatt' = [gatt EXCEPT !.at = NextStep] /\ UNCHANGED <<ssidBuf, pwdBuf, call>>
  /\ UNCHANGED <<mgr, pc, cb, listening, evtq, link, conf, hist, running, mutex, main>>

LockForClear ==
  /\ InHandler("lock") /\ mutex = "none"
  /\ mutex' = "gatt"
  /\ gatt' = [gatt EXCEPT !.at = NextStep]
  /\ UNCHANGED <<vars, running, ssidBuf, pwdBuf, main>>

\* running = 0, unlock.
ClearRunning ==
  /\ InHandler("clear")
  /\ running' = FALSE
  /\ mutex' = "none"
  /\ gatt' = [gatt EXCEPT !.at = NextStep]
  /\ UNCHANGED <<vars, ssidBuf, pwdBuf, main>>

\* running = 0 once more, with no lock; then the response, and the end.
ClearAgain ==
  /\ InHandler("again")
  /\ running' = FALSE
  /\ gatt' = [gatt EXCEPT !.at = NextStep]
  /\ UNCHANGED <<vars, ssidBuf, pwdBuf, mutex, main>>

(***************************************************************************)
(* main.                                                                   *)
(***************************************************************************)

Lock ==
  /\ main = "lock" /\ mutex = "none"
  /\ mutex' = "main"
  /\ main' = "read"
  /\ UNCHANGED <<vars, running, ssidBuf, pwdBuf, gatt>>

BreaksLocked ==          \* mutant: the loop is left with the mutex locked
  mutex' = IF running THEN "none" ELSE "main"

Unlock == mutex' = "none"

ReadRunning ==
  /\ main = "read"
  /\ Unlock
  /\ main' = IF running THEN "lock" ELSE "on"
  /\ UNCHANGED <<vars, running, ssidBuf, pwdBuf, gatt>>

WifiOn ==
  /\ main = "on"
  /\ TurnOn
  /\ main' = "starting"
  /\ UNCHANGED <<running, ssidBuf, pwdBuf, mutex, gatt>>

\* aw_wifi_on has returned; NULL ends the loop.
WifiIsOn ==
  /\ main = "starting" /\ At("idle")
  /\ main' = IF handle THEN "spin" ELSE "quit"
  /\ UNCHANGED <<vars, running, ssidBuf, pwdBuf, mutex, gatt>>

WaitsUntilUp ==          \* mutant: waits for the network, not for the attempt
  state # "NETWORK_CONNECTED"

Waits == state = "CONNECTING"

LeaveSpin ==
  /\ main = "spin" /\ At("idle") /\ ~Waits
  /\ main' = "connect"
  /\ UNCHANGED <<vars, running, ssidBuf, pwdBuf, mutex, gatt>>

\* Every write carries a name, so connect_ap does not refuse it.
Connect ==
  /\ main = "connect"
  /\ \/ /\ ConnectAp(Text(ssidBuf), PasswordOf(pwdBuf))
        /\ call'.ret = 0
        /\ main' = "connecting"
     \/ /\ ~enable /\ At("idle")
        /\ main' = "done"
        /\ UNCHANGED vars
  /\ UNCHANGED <<running, ssidBuf, pwdBuf, mutex, gatt>>

\* connect_ap has returned: success or failure, retry is down to 0.
Finish ==
  /\ main = "connecting" /\ At("idle")
  /\ main' = "done"
  /\ UNCHANGED <<vars, running, ssidBuf, pwdBuf, mutex, gatt>>

(***************************************************************************)
(* The specification.                                                      *)
(***************************************************************************)

\* wifi_state_handle clears running when the network is there.
WithManager(step) ==
  /\ step
  /\ running' = (running /\ ~(\E t \in Threads : /\ cb[t] = "call" /\ cb'[t] = "off"
                                                  /\ state = "NETWORK_CONNECTED"))
  /\ UNCHANGED <<ssidBuf, pwdBuf, mutex, main, gatt>>

MainStep ==
  \/ Lock \/ ReadRunning \/ WifiOn \/ WifiIsOn \/ LeaveSpin \/ Connect \/ Finish

GattStep ==
  \/ CopyByte \/ LockForClear \/ ClearRunning \/ ClearAgain

BleInit ==
  /\ Init
  /\ running = TRUE
  /\ ssidBuf = [x \in 1..BufLen |-> NUL]
  /\ pwdBuf = [x \in 1..BufLen |-> NUL]
  /\ mutex = "none"
  /\ main = "lock"
  /\ gatt = [at |-> 0, w |-> 0, i |-> 0, j |-> 0, k |-> 0, flag |-> FALSE]

BleNext ==
  \/ MainStep \/ WriteRequest \/ GattStep
  \/ WithManager(ApiStep) \/ WithManager(EvtStep) \/ WithManager(Supplicant)
  \/ \E t \in Threads : WithManager(CallbackStep(t))

\* The threads run.  The GATT thread gets a mutex that main keeps taking and
\* giving back; POSIX leaves that to the scheduler.
BleFairness ==
  /\ WF_allVars(MainStep) /\ SF_allVars(GattStep)
  /\ WF_allVars(WithManager(ApiStep)) /\ WF_allVars(WithManager(EvtStep))
  /\ \A t \in Threads : WF_allVars(WithManager(CallbackStep(t)))

BleSpec == BleInit /\ [][BleNext]_allVars /\ BleFairness

(***************************************************************************)
(* Properties.                                                             *)
(***************************************************************************)

MainPlaces == {"lock", "read", "on", "starting", "spin", "connect", "connecting",
               "done", "quit"}

Bytes == {NUL, Newline} \cup 1..Len(Writes)

BleTypeOK ==
  /\ running \in BOOLEAN
  /\ ssidBuf \in [1..BufLen -> Bytes] /\ pwdBuf \in [1..BufLen -> Bytes]
  /\ mutex \in {"none", "main", "gatt"}
  /\ main \in MainPlaces
  /\ gatt \in [at: 0..Len(HandlerSteps), w: 0..Len(Writes), i: Nat,
               j: 0..BufLen, k: 0..BufLen, flag: BOOLEAN]

\* main does not go on before a write has come, and after the first one the
\* buffers hold its name and its password, whole, until the phone writes again.
WholeWriteBeforeWifi ==
  main \notin {"lock", "read"} =>
    /\ gatt.w >= 1
    /\ gatt.w = 1 => Text(ssidBuf) = Name(1) /\ Text(pwdBuf) = Word(1)

\* With one write, the network that connect_ap adds has the name the phone sent,
\* and the two buffers, which connect_ap reads the name and the password from when
\* it comes to its SET_NETWORK commands, hold what was sent until it returns.
AddsWhatWasSent ==
  gatt.w <= 1 =>
    /\ \A n \in net : n.id \notin Ids(KnownNets) => gatt.w = 1 /\ n.ssid = Name(1)
    /\ call.op = "connect_ap" =>
         gatt.w = 1 /\ call.ssid = Name(1) /\ Text(pwdBuf) = Word(1)

\* A network that connect_ap adds has the name of one write, never of two.
NameOfOneWrite ==
  \A n \in net :
    n.id \notin Ids(KnownNets) => \E w \in 1..gatt.w : n.ssid = Name(w)

\* Every write is answered, the mutex notwithstanding.
WriteIsAnswered == gatt.at # 0 ~> gatt.at = 0

\* A write makes main run to its end, except that it waits for ever for a
\* station that aw_wifi_on found in a handshake of another process.
WriteIsServed ==
  gatt.w > 0 ~> main \in {"done", "quit"} \/ (main = "spin" /\ stuck)

\* main does not go on waiting for a station that has connected.
WaitEnds ==
  main = "spin" /\ wpa = "up" ~> main # "spin" \/ wpa # "up"

=============================================================================
