------------------------------ MODULE BtShell ------------------------------
(***************************************************************************)
(* The Bluetooth demo as a whole: one console thread runs the commands of  *)
(* the A2DP source, of the GATT client and of the GATT server, one after   *)
(* another, while the streaming threads and the library's callbacks go on  *)
(* by themselves.  A command that blocks keeps all the others out.         *)
(***************************************************************************)
EXTENDS A2dpSource, GattClient, GattServer, BtCommands

CONSTANT MaxCommands   \* bound: how much is given of the commands that change state

ASSUME BtShellAssumption == MaxCommands \in Nat

VARIABLES
  asked,      \* what the last stateless command asked of the library
  commands,   \* how much has been given of the commands that change state (for the bound)
  left        \* the shell has left its loop (quit)

shellVars == <<asked, commands, left>>
vars == <<a2dpVars, gattcVars, gattsVars, shellVars>>

\* The console is back at its prompt.
Free == ~left /\ ~joining /\ step = "idle"

\* No more than two arguments matter to any handler.
ArgLists == {<<>>} \cup {<<w>> : w \in Word} \cup {<<v, w>> : v \in Word, w \in Word}

\* Bound: one of these is given, before the others, for they touch nothing that
\* the others use.
GiveStateless ==
  /\ Free /\ commands = 0 /\ asked = Nothing
  /\ \E cmd \in StatelessTable, args \in ArgLists : asked' \in StatelessCommand(cmd, args)
  /\ UNCHANGED <<a2dpVars, gattcVars, gattsVars, commands, left>>

\* Bound: all commands count, and those of the GATT server, of many calls, for two.
Give(weight) ==
  /\ Free /\ commands + weight <= MaxCommands
  /\ commands' = commands + weight
  /\ asked' = Nothing

GiveA2dp ==
  /\ Give(1)
  /\ SrcStart \/ SrcStop
  /\ UNCHANGED <<gattcVars, gattsVars, left>>

GiveGattc ==
  /\ Give(1)
  /\ GattcInit \/ GattcDeinit \/ GattcConnect \/ RegisterNotify \/ UnregisterNotify
  /\ UNCHANGED <<a2dpVars, gattsVars, left>>

GiveGatts ==
  /\ Give(2)
  /\ GattsInit \/ GattsDeinit
  /\ UNCHANGED <<a2dpVars, gattcVars, left>>

\* quit, _bt_deinit
GiveQuit ==
  /\ Free
  /\ left' = TRUE
  /\ GattsDeinit /\ GattcDeinit
  /\ UNCHANGED <<a2dpVars, asked, commands>>

\* What the console does inside a command.
Continue ==
  /\ ~left
  /\ \/ (JoinReturns \/ JoinAgain) /\ UNCHANGED gattsVars
     \/ GattsInitStep /\ UNCHANGED a2dpVars
  /\ UNCHANGED <<gattcVars, shellVars>>

Stream(t) ==
  /\ ~left
  /\ Runs(t) \/ ReadError(t)
  /\ UNCHANGED <<gattcVars, gattsVars, shellVars>>

Library ==
  /\ ~left
  /\ GattcLibrary
  /\ UNCHANGED <<a2dpVars, gattsVars, shellVars>>

Init ==
  /\ A2dpInit /\ GattcStart /\ GattsStart
  /\ asked = Nothing /\ commands = 0 /\ left = FALSE

Next ==
  \/ GiveStateless \/ GiveA2dp \/ GiveGattc \/ GiveGatts \/ GiveQuit
  \/ Continue \/ Library
  \/ \E t \in Thread : Stream(t)

\* A thread that can go on does, and so does pthread_join.
Fairness ==
  /\ \A t \in Thread :
       WF_vars(~left /\ Runs(t) /\ UNCHANGED <<gattcVars, gattsVars, shellVars>>)
  /\ WF_vars(~left /\ JoinReturns /\ UNCHANGED <<gattcVars, gattsVars, shellVars>>)

Spec == Init /\ [][Next]_vars /\ Fairness

(***************************************************************************)
(* Properties.                                                             *)
(***************************************************************************)

\* Every part keeps its types, the library is asked at most one thing by a line,
\* and no value outside the range that the help or a message of a command states
\* reaches it, whatever words args[] holds (bt_cmd.c); of debug alone, whose help
\* states 0~5, this is not so and not said.
ShellTypeOK ==
  /\ A2dpTypeOK /\ GattcTypeOK /\ GattsTypeOK
  /\ Cardinality(asked) <= 1
  /\ \A r \in asked : r.call \in DOMAIN Stated \ Untested => r.value \in Stated[r.call]
  /\ commands \in 0..MaxCommands /\ left \in BOOLEAN
=============================================================================
