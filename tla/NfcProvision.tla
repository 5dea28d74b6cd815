---------------------------- MODULE NfcProvision ----------------------------
(***************************************************************************)
(* Provisioning from an NFC card (test/project/ConnectWifiByNFC.c): main   *)
(* polls for a card, reads the name and the password of a network from two *)
(* blocks of it, turns Wi-Fi on and connects, and if that fails begins     *)
(* again with the blocks.  No result of a read is looked at.               *)
(***************************************************************************)
EXTENDS Pn532

CONSTANT Retries     \* how many turns the loop makes

ASSUME NfcAssumption == Retries \in Nat \ {0}

VARIABLES
  main,         \* where main is
  block,        \* the block that readBlock is at
  ssid, pwd,    \* the buffers of main
  retry,        \* turns left
  on,           \* w->enable of the Wi-Fi manager
  mixed         \* history: a call of this turn failed or took another's answer

nfcVars == <<main, block, ssid, pwd, retry, on, mixed>>
vars == <<driverVars, nfcVars>>

Zeros == [i \in 1..16 |-> 0]

\* The calls of main, one after the other.
NextCall ==
  CASE main = "poll" -> ListTargets
    [] main = "auth" -> Authenticate(block)
    [] main = "read" -> ReadOf(block)

Call ==
  /\ main \in {"poll", "auth", "read"}
  /\ BeginCall(NextCall)
  /\ UNCHANGED nfcVars

Wait == DriverStep /\ UNCHANGED nfcVars

(***************************************************************************)
(* PN532_ReadPassiveTarget: one card with an identifier of at most seven   *)
(* bytes, or main polls on.                                                *)
(***************************************************************************)

StartTurn == main' = "auth" /\ block' = 1 /\ mixed' = FALSE

PollFails ==
  /\ main = "poll" /\ CallFails
  /\ UNCHANGED nfcVars

FindCard ==
  /\ main = "poll" /\ CallSucceeds
  /\ \E p \in Payloads :
       LET r == Response(p)
       IN  IF r[1] = 1 /\ r[6] <= 7 THEN StartTurn ELSE UNCHANGED <<main, block, mixed>>
  /\ UNCHANGED <<ssid, pwd, retry, on>>

(***************************************************************************)
(* readBlock                                                               *)
(***************************************************************************)

\* The result of PN532_MifareClassicAuthenticateBlock is only printed.
Authenticated ==
  /\ main = "auth"
  /\ \/ CallFails /\ mixed' = TRUE
     \/ CallSucceeds /\ mixed' = (mixed \/ TakesForeign)
  /\ main' = "read"
  /\ UNCHANGED <<block, ssid, pwd, retry, on>>

AfterBlock ==
  IF block = 1 THEN main' = "auth" /\ block' = 2 ELSE main' = "wifi" /\ UNCHANGED block

Fill(data) ==
  IF block = 1 THEN ssid' = data /\ UNCHANGED pwd ELSE pwd' = data /\ UNCHANGED ssid

WithStatus(r) == SubSeq(r, 1, 16)     \* mutant: the byte of the status is copied along

BlockIn(r) == SubSeq(r, 2, 17)

\* PN532_MifareClassicReadBlock.  When the call fails the status is what the
\* stack held: it may be zero, and what lies behind it is then copied.
ReadFails ==
  /\ main = "read" /\ CallFails
  /\ mixed' = TRUE
  /\ \/ Fill([i \in 1..16 |-> Leftover])
     \/ UNCHANGED <<ssid, pwd>>
  /\ AfterBlock
  /\ UNCHANGED <<retry, on>>

ReadSucceeds ==
  /\ main = "read" /\ CallSucceeds
  /\ mixed' = (mixed \/ TakesForeign)
  /\ \E p \in Payloads :
       LET r == Response(p)
       IN  IF r[1] = 0 THEN Fill(BlockIn(r)) ELSE UNCHANGED <<ssid, pwd>>
  /\ AfterBlock
  /\ UNCHANGED <<retry, on>>

(***************************************************************************)
(* Wi-Fi, as WifiManager has it.  aw_wifi_on gives nothing when Wi-Fi is   *)
(* on, and may fail before it is or after; main goes on either way.        *)
(***************************************************************************)

WifiOn ==
  /\ main = "wifi"
  /\ on' \in {on, TRUE}
  /\ \E given \in {~on /\ on', FALSE}, connected \in {on', FALSE} :
       main' = IF connected THEN "done"
               ELSE IF given THEN "connect" ELSE "dead"   \* a call through NULL
  /\ UNCHANGED <<driverVars, block, ssid, pwd, retry, mixed>>

ConnectAp ==
  /\ main = "connect"
  /\ \/ main' = "done" /\ UNCHANGED <<retry, block, mixed>>
     \/ /\ retry' = retry - 1
        /\ IF retry = 1 THEN main' = "done" /\ UNCHANGED <<block, mixed>> ELSE StartTurn
  /\ UNCHANGED <<driverVars, ssid, pwd, on>>

Init ==
  /\ DriverInit
  /\ main = "poll" /\ block = 1
  /\ ssid = Zeros /\ pwd = Zeros
  /\ retry = Retries /\ on = FALSE /\ mixed = FALSE

Main ==
  \/ Call \/ Wait \/ PollFails \/ FindCard
  \/ Authenticated \/ ReadFails \/ ReadSucceeds
  \/ WifiOn \/ ConnectAp

Ended == main \in {"done", "dead"}

\* Bound: bytes are lost in the first turn only.
LineFails == retry = Retries /\ LoseByte

Next == Main \/ (~Ended /\ (Outside \/ LineFails) /\ UNCHANGED nfcVars)

\* main runs, the line delivers what is on it and the chip goes on.
Spec ==
  /\ Init /\ [][Next]_vars
  /\ WF_vars(Main)
  /\ WF_vars(Arrive /\ UNCHANGED nfcVars)
  /\ WF_vars((ChipAck \/ ChipAnswer) /\ UNCHANGED nfcVars)

(***************************************************************************)
(* Properties.                                                             *)
(***************************************************************************)

\* connect_ap gets nothing but what the card holds, or the zeroes that a refused
\* read leaves, unless a call of the turn failed or took the answer of another:
\* then the leftovers of a buffer may be the name (readBlock, main).
CredentialsAreTheCards ==
  main = "connect" /\ ~mixed => ssid \in {Zeros, Block[1]} /\ pwd \in {Zeros, Block[2]}
=============================================================================
