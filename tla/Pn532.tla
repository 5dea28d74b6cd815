------------------------------- MODULE Pn532 -------------------------------
(***************************************************************************)
(* The PN532 driver on its serial line (test/project/pn532.c and the UART  *)
(* part of pn532_nezha.c).  A call writes a command, waits for an ACK, and *)
(* waits for the answer; each wait may time out, and what the chip sends   *)
(* afterwards is met by the next call.  Bytes have their values.           *)
(***************************************************************************)
EXTENDS Integers, Sequences, FiniteSets

CONSTANTS
  Uid,       \* the bytes of the card's identifier
  Block,     \* the 16 bytes of each block of the card
  Cuts,      \* bound: how many bytes may come and leave the rest behind
  MaxLost    \* bound: how many bytes the line loses

ASSUME Pn532Assumption ==
  /\ Uid \in Seq(0..255) /\ Len(Uid) \in {4, 7}
  /\ \A b \in {1, 2} : Block[b] \in [1..16 -> 0..255]
  /\ Cuts \subseteq Nat \ {0}
  /\ MaxLost \in Nat

VARIABLES
  at,       \* where the call under way is, or "idle"
  call,     \* that call: the command with its parameters, or NoCall
  fifo,     \* bytes that have come and are not read: [byte, own]
  wire,     \* bytes that the chip has sent and that are under way
  todo,     \* chip: commands written to it and not acknowledged, at most one
  doing,    \* chip: commands acknowledged and not answered, at most one
  card,     \* whether a card is in the field
  authed,   \* chip: whether it is authenticated to the card's first sector
  lost,     \* how many bytes have been lost (for the bound)
  quiet     \* history: nothing was under way when the call began, and no byte
            \* has been lost since

lineVars == <<fifo, wire, lost>>
chipVars == <<todo, doing, card, authed>>
driverVars == <<at, call, quiet, lineVars, chipVars>>

InListPassiveTarget == 74      \* PN532_COMMAND_INLISTPASSIVETARGET
InDataExchange == 64           \* PN532_COMMAND_INDATAEXCHANGE
Pn532ToHost == 213
AuthError == 20                \* PN532_ERROR_MIFARE_AUTH

\* The calls of the driver that the programs make; the size is response_length.
ListTargets == [cmd |-> InListPassiveTarget, op |-> "list", block |-> 0, size |-> 19]
Authenticate(b) == [cmd |-> InDataExchange, op |-> "auth", block |-> b, size |-> 1]
ReadOf(b) == [cmd |-> InDataExchange, op |-> "read", block |-> b, size |-> 17]
NoCall == [op |-> "none"]

\* The command that PN532_UART_Wakeup writes and waits for no answer to.
Wakeup == [cmd |-> 20, op |-> "wakeup", block |-> 0, size |-> 0]

\* Commands and bytes are own, of the call under way, until the next call begins.
Disowned(seq) == [i \in DOMAIN seq |-> [seq[i] EXCEPT !.own = FALSE]]

(***************************************************************************)
(* Frames.                                                                 *)
(***************************************************************************)

Ack == <<0, 0, 255, 0, 255, 0>>
Sum(bytes) ==
  LET upTo[n \in 0..Len(bytes)] == IF n = 0 THEN 0 ELSE (upTo[n - 1] + bytes[n]) % 256
  IN  upTo[Len(bytes)]
Negated(n) == (256 - n) % 256
Frame(payload) ==
  <<0, 0, 255, Len(payload), Negated(Len(payload))>> \o payload
    \o <<Negated(Sum(payload)), 0>>

\* PN532_ReadFrame on the bytes it has read: the set of payloads, with one member
\* or, for any of the errors, none.  The code does not compare the length with what
\* it has read, and takes what its stack holds there for the rest of the frame;
\* here that is an error, as it is unless those bytes happen to complete the sum.
FrameIn(buff) ==
  LET starts == {i \in DOMAIN buff : buff[i] # 0 /\ \A j \in 1..(i - 1) : buff[j] = 0}
      ok(i) == /\ buff[i] = 255 /\ i + 2 <= Len(buff)
               /\ (buff[i + 1] + buff[i + 2]) % 256 = 0
               /\ i + 3 + buff[i + 1] <= Len(buff)
               /\ Sum(SubSeq(buff, i + 3, i + 3 + buff[i + 1])) = 0
  IN  {SubSeq(buff, i + 3, i + 2 + buff[i + 1]) : i \in {i \in starts : ok(i)}}

(***************************************************************************)
(* The chip and the line (external).  The chip takes a command up before   *)
(* the next or drops it for the next; its answer to InListPassiveTarget    *)
(* waits for a card.  Bytes arrive in chunks.                              *)
(***************************************************************************)

Send(bytes, own) ==
  wire' = wire \o [i \in DOMAIN bytes |-> [byte |-> bytes[i], own |-> own]]

\* Bound: the chip sends when the line is idle.
ChipAck ==
  /\ todo # <<>> /\ wire = <<>>
  /\ Send(Ack, Head(todo).own)
  /\ doing' = <<Head(todo)>>
  /\ todo' = Tail(todo)
  /\ UNCHANGED <<at, call, quiet, fifo, lost, card, authed>>

Target == <<1, 1, 0, 4, 8, Len(Uid)>> \o Uid

\* What the chip answers, and whether the card is authenticated then.
Answer(c) ==
  CASE c.op = "wakeup" -> [data |-> <<>>, authed |-> FALSE]
    [] c.op = "list" -> [data |-> Target, authed |-> FALSE]
    [] c.op = "auth" -> [data |-> <<IF card THEN 0 ELSE AuthError>>, authed |-> card]
    [] c.op = "read" -> [data |-> IF card /\ authed THEN <<0>> \o Block[c.block]
                                  ELSE <<AuthError>>,
                         authed |-> card /\ authed]

ChipAnswer ==
  /\ doing # <<>> /\ wire = <<>>
  /\ LET c == Head(doing).call
     IN  /\ c.op = "list" => card
         /\ Send(Frame(<<Pn532ToHost, c.cmd + 1>> \o Answer(c).data), Head(doing).own)
         /\ authed' = Answer(c).authed
  /\ doing' = <<>>
  /\ UNCHANGED <<at, call, quiet, fifo, lost, todo, card>>

Arrive ==
  /\ \E n \in DOMAIN wire \cap (Cuts \cup {Len(wire)}) :
       /\ fifo' = fifo \o SubSeq(wire, 1, n)
       /\ wire' = SubSeq(wire, n + 1, Len(wire))
  /\ UNCHANGED <<at, call, quiet, lost, chipVars>>

LoseByte ==
  /\ wire # <<>> /\ lost < MaxLost
  /\ wire' = Tail(wire)
  /\ lost' = lost + 1
  /\ quiet' = FALSE
  /\ UNCHANGED <<at, call, fifo, chipVars>>

MoveCard ==
  /\ card' = ~card
  /\ authed' = FALSE
  /\ UNCHANGED <<at, call, quiet, lineVars, todo, doing>>

(***************************************************************************)
(* PN532_CallFunction over PN532_UART_WriteData, PN532_UART_WaitReady and  *)
(* PN532_UART_ReadData.                                                    *)
(***************************************************************************)

\* Bound: a command waits until the chip has taken up the one before.
BeginCall(c) ==
  /\ at = "idle" /\ todo = <<>>
  /\ at' = "ackReady" /\ call' = c
  /\ quiet' = (doing = <<>> /\ wire = <<>>)
  /\ fifo' = <<>> /\ wire' = Disowned(wire)
  /\ todo' = <<[call |-> c, own |-> TRUE]>>
  /\ doing' = Disowned(doing)
  /\ UNCHANGED <<lost, card, authed>>

Ready ==
  /\ at \in {"ackReady", "frameReady"} /\ fifo # <<>>
  /\ at' = IF at = "ackReady" THEN "ack" ELSE "frame"
  /\ UNCHANGED <<call, quiet, lineVars, chipVars>>

\* wait_ready gives up, and the call with it.
TimedOut == at \in {"ackReady", "frameReady"} /\ fifo = <<>>

CountsOnly(count) == count   \* mutant: the length in the frame is not heeded

\* PN532_UART_ReadData: the fourth byte says how long a frame is, unless it is zero.
Needed(count) == IF fifo[4].byte # 0 THEN fifo[4].byte + 7 ELSE count
CanRead(count) == Len(fifo) >= 4 /\ Len(fifo) >= Needed(count)
ReadData(count) == SubSeq(fifo, 1, Needed(count))
Rest(count) == SubSeq(fifo, Needed(count) + 1, Len(fifo))
Bytes(data) == [i \in DOMAIN data |-> data[i].byte]

\* PN532_ACK against the first bytes of what is read, which is six or more.
IsAck == Bytes(SubSeq(fifo, 1, Len(Ack))) = Ack

ReadAck ==
  /\ at = "ack" /\ CanRead(Len(Ack)) /\ IsAck
  /\ at' = "frameReady"
  /\ fifo' = Rest(Len(Ack))
  /\ UNCHANGED <<call, quiet, wire, lost, chipVars>>

\* What is read for the ACK is none.  A fourth byte of 249 or more asks for more bytes
\* than the buffer of the call has room for; what they overwrite is left out.
BadAck == at = "ack" /\ CanRead(Len(Ack)) /\ ~IsAck

FrameCount == call.size + 2 + 7
Payloads ==
  {p \in FrameIn(Bytes(ReadData(FrameCount))) :
     Len(p) >= 2 /\ p[1] = Pn532ToHost /\ p[2] = call.cmd + 1}

GoodFrame == at = "frame" /\ CanRead(FrameCount) /\ Payloads # {}
BadFrame == at = "frame" /\ CanRead(FrameCount) /\ Payloads = {}

\* response[i] of a payload; past its end stands what was in the buffer before.
Leftover == -1
Response(p) == [i \in 1..call.size |-> IF i + 2 <= Len(p) THEN p[i + 2] ELSE Leftover]

EndCall ==
  /\ at' = "idle" /\ call' = NoCall /\ quiet' = FALSE
  /\ UNCHANGED <<wire, lost, chipVars>>

\* The call ends with an error; what it has read is gone.
CallFails ==
  /\ \/ TimedOut /\ UNCHANGED fifo
     \/ BadAck /\ fifo' = Rest(Len(Ack))
     \/ BadFrame /\ fifo' = Rest(FrameCount)
  /\ EndCall

CallSucceeds ==
  /\ GoodFrame
  /\ fifo' = Rest(FrameCount)
  /\ EndCall

\* Some byte of the answer is of an earlier call: then the first one is, for the
\* bytes of earlier calls come first.
TakesForeign == ~Head(fifo).own

DriverInit ==
  /\ at = "idle" /\ call = NoCall /\ quiet = FALSE
  /\ fifo = <<>> /\ wire = <<>> /\ lost = 0
  /\ todo \in {<<>>, <<[call |-> Wakeup, own |-> FALSE]>>}    \* the chip has it, or not
  /\ doing = <<>> /\ card \in BOOLEAN /\ authed = FALSE

DriverStep == Ready \/ ReadAck
Outside == ChipAck \/ ChipAnswer \/ Arrive \/ MoveCard

(***************************************************************************)
(* Properties.                                                             *)
(***************************************************************************)

\* A call that begins when the chip owes nothing comes back, unless a byte is lost
\* meanwhile: whatever earlier calls left in the FIFO, no read waits for more bytes
\* than the chip sends (PN532_UART_WriteData, PN532_UART_ReadData).
QuietCallReturns == quiet ~> ~quiet
=============================================================================
