----------------------------- MODULE MeshConsole -----------------------------
(***************************************************************************)
(* The console of the mesh demo (mesh/aw_mesh_app.c): one thread that      *)
(* polls a signal descriptor, the terminal and the fifo /tmp/mesh_io, and  *)
(* runs the commands it reads from the last two.  The terminal gives one   *)
(* line for each read; the fifo gives whatever its writers have put there. *)
(* A fifo whose writers have all closed it reports a hang-up, and the      *)
(* console then closes and opens it again.                                 *)
(***************************************************************************)
EXTENDS Naturals, Sequences

CONSTANTS
  Lines,       \* the command lines a user may give: records [cmd, args]
  ArgCount,    \* cmd_table: the number of arguments of each command
  RunOn(_, _), \* what an argument reads as with a name written right behind it
  Newline,     \* whether those who write to the fifo end a line with \n (echo)
  MaxTyped,    \* bound: how many lines are typed
  MaxPiped,    \* bound: how many lines are written to the fifo
  MaxWriters   \* bound: how many have the fifo open for writing at a time

CtrlD == [cmd |-> "^D", args |-> <<>>]   \* end of file typed at the terminal
Typable == Lines \cup {CtrlD}

AnyCount(line) ==        \* mutant: arguments are not counted
  line.cmd \in DOMAIN ArgCount

\* A line that the table accepts: process_cmdline runs it.
WellFormed(line) ==
  /\ line.cmd \in DOMAIN ArgCount
  /\ Len(line.args) = ArgCount[line.cmd]

ASSUME MeshConsoleAssumption ==
  /\ Lines \subseteq [cmd : STRING, args : Seq(Nat)]
  /\ "^D" \notin DOMAIN ArgCount
  /\ Newline \in BOOLEAN
  /\ MaxTyped \in Nat /\ MaxPiped \in Nat /\ MaxWriters \in Nat

VARIABLES
  pc,           \* where main is in its loop
  terminated,   \* __main_terminated
  exit,         \* how main has returned: "no", "deinit" or "error"
  revents,      \* what poll has reported in this turn
  signal,       \* SIGINT or SIGTERM waits in the signal descriptor
  tty,          \* lines typed and not yet read
  hungUp,       \* the terminal has gone
  atEof,        \* stdin's end-of-file indicator, which getline never clears
  fifo,         \* lines in the pipe
  writers,      \* how many have the fifo open for writing
  hadWriter,    \* some writer has opened it since the console did
  typed, piped, \* how many lines have been given to each source
  ranTyped, ranPiped   \* history: the lines run from each source

loopVars == <<pc, terminated, exit, revents, atEof>>
ttyVars == <<tty, hungUp, typed, ranTyped>>
fifoVars == <<fifo, writers, hadWriter, piped, ranPiped>>
vars == <<loopVars, ttyVars, fifoVars, signal>>

(***************************************************************************)
(* process_cmdline.  Lines that wait in the fifo together are read as one: *)
(* the command is that of the first, the name of each later line is glued  *)
(* to the argument before it (a newline still ends the number there, and   *)
(* without one a hexadecimal number may run on into the name), and the     *)
(* arguments of all of them are counted.  With no argument to be glued to, *)
(* a newline or a second line spoils the name of the command itself.       *)
(***************************************************************************)

NameSurvives(batch) ==
  /\ Head(batch).cmd \in DOMAIN ArgCount
  /\ Len(Head(batch).args) > 0 \/ (Len(batch) = 1 /\ ~Newline)

Glue(args, name) ==
  IF Newline \/ args = <<>> THEN args ELSE [args EXCEPT ![Len(args)] = RunOn(@, name)]

AllArgs(batch) ==
  LET upTo[n \in 1..Len(batch)] ==
        IF n = 1 THEN batch[1].args ELSE Glue(upTo[n - 1], batch[n].cmd) \o batch[n].args
  IN  upTo[Len(batch)]

\* What is run of the lines read together, when anything is.
Fused(batch) == [cmd |-> Head(batch).cmd, args |-> AllArgs(batch)]
Accepted(batch) == NameSurvives(batch) /\ WellFormed(Fused(batch))

\* cmd_quit_app sets __main_terminated; other commands leave the loop alone.
AfterRunning(line) == terminated \/ line.cmd = "quit_app"

(***************************************************************************)
(* The users.                                                              *)
(***************************************************************************)

Type ==
  /\ pc # "left" /\ ~hungUp /\ typed < MaxTyped
  /\ \E line \in Typable : tty' = Append(tty, line)
  /\ typed' = typed + 1
  /\ UNCHANGED <<loopVars, fifoVars, signal, hungUp, ranTyped>>

HangUp ==
  /\ pc # "left" /\ ~hungUp
  /\ hungUp' = TRUE
  /\ UNCHANGED <<loopVars, fifoVars, signal, tty, typed, ranTyped>>

Signal ==
  /\ pc # "left" /\ ~signal
  /\ signal' = TRUE
  /\ UNCHANGED <<loopVars, ttyVars, fifoVars>>

OpenFifo ==
  /\ pc # "left" /\ writers < MaxWriters
  /\ writers' = writers + 1
  /\ hadWriter' = TRUE
  /\ UNCHANGED <<loopVars, ttyVars, signal, fifo, piped, ranPiped>>

WriteFifo ==
  /\ pc # "left" /\ writers > 0 /\ piped < MaxPiped
  /\ \E line \in Lines : fifo' = Append(fifo, line)
  /\ piped' = piped + 1
  /\ UNCHANGED <<loopVars, ttyVars, signal, writers, hadWriter, ranPiped>>

CloseFifo ==
  /\ pc # "left" /\ writers > 0
  /\ writers' = writers - 1
  /\ UNCHANGED <<loopVars, ttyVars, signal, fifo, hadWriter, piped, ranPiped>>

(***************************************************************************)
(* The loop of main.                                                       *)
(***************************************************************************)

DeafTerminal ==          \* mutant: of the terminal only the hang-up is polled
  {e \in {"signal", "stdin", "stdinHup", "fifo", "fifoHup"} :
     \/ e = "signal"   /\ signal
     \/ e \in {"stdin", "stdinHup"} /\ hungUp
     \/ e = "fifo"     /\ fifo # <<>>
     \/ e = "fifoHup"  /\ hadWriter /\ writers = 0}

Ready ==
  {e \in {"signal", "stdin", "stdinHup", "fifo", "fifoHup"} :
     \/ e = "signal"   /\ signal
     \/ e = "stdin"    /\ (tty # <<>> \/ hungUp)
     \/ e = "stdinHup" /\ hungUp
     \/ e = "fifo"     /\ fifo # <<>>
     \/ e = "fifoHup"  /\ hadWriter /\ writers = 0}

Leave ==
  /\ pc = "poll" /\ terminated
  /\ pc' = "left" /\ exit' = "deinit"
  /\ UNCHANGED <<terminated, revents, atEof, ttyVars, fifoVars, signal>>

PollsForEver ==          \* mutant: the loop does not test __main_terminated
  /\ pc = "poll" /\ Ready # {}
  /\ revents' = Ready
  /\ pc' = "woken"
  /\ UNCHANGED <<terminated, exit, atEof, ttyVars, fifoVars, signal>>

Poll ==
  /\ pc = "poll" /\ ~terminated
  /\ Ready # {}
  /\ revents' = Ready
  /\ pc' = "woken"
  /\ UNCHANGED <<terminated, exit, atEof, ttyVars, fifoVars, signal>>

StdinGone ==
  /\ pc = "woken" /\ "stdinHup" \in revents
  /\ pc' = "left" /\ exit' = "error"
  /\ UNCHANGED <<terminated, revents, atEof, ttyVars, fifoVars, signal>>

\* The console is the only reader: when nobody has the fifo open for writing,
\* closing it discards what nobody has read.
ReopenFifo ==
  /\ pc = "woken" /\ "stdinHup" \notin revents /\ "fifoHup" \in revents
  /\ fifo' = IF writers = 0 THEN <<>> ELSE fifo
  /\ hadWriter' = (writers > 0)
  /\ pc' = "poll" /\ revents' = {}
  /\ UNCHANGED <<terminated, exit, atEof, ttyVars, signal,
                 writers, piped, ranPiped>>

SignalIsOnlyRead ==      \* mutant: the signal is read and nothing set
  /\ pc = "woken" /\ revents \cap {"stdinHup", "fifoHup"} = {}
  /\ signal' = IF "signal" \in revents THEN FALSE ELSE signal
  /\ pc' = "stdin"
  /\ UNCHANGED <<terminated, exit, revents, atEof, ttyVars, fifoVars>>

TakeSignal ==
  /\ pc = "woken" /\ revents \cap {"stdinHup", "fifoHup"} = {}
  /\ IF "signal" \in revents
     THEN signal' = FALSE /\ terminated' = TRUE
     ELSE UNCHANGED <<signal, terminated>>
  /\ pc' = "stdin"
  /\ UNCHANGED <<exit, revents, atEof, ttyVars, fifoVars>>

\* getline returns at once when the end of file has been seen before.
ReadNothing ==
  /\ "stdin" \notin revents \/ atEof
  /\ UNCHANGED <<terminated, atEof, tty, ranTyped>>

ReadEof ==
  /\ "stdin" \in revents /\ ~atEof /\ Head(tty) = CtrlD
  /\ tty' = Tail(tty)
  /\ atEof' = TRUE
  /\ UNCHANGED <<terminated, ranTyped>>

ReadsToTheEnd ==         \* mutant: a turn takes all lines typed and runs the last
  /\ "stdin" \in revents /\ ~atEof /\ Head(tty) # CtrlD
  /\ tty' = <<>>
  /\ IF WellFormed(tty[Len(tty)])
     THEN /\ ranTyped' = Append(ranTyped, tty[Len(tty)])
          /\ terminated' = AfterRunning(tty[Len(tty)])
     ELSE UNCHANGED <<ranTyped, terminated>>
  /\ UNCHANGED atEof

ReadLine ==
  /\ "stdin" \in revents /\ ~atEof /\ Head(tty) # CtrlD
  /\ tty' = Tail(tty)
  /\ IF WellFormed(Head(tty))
     THEN /\ ranTyped' = Append(ranTyped, Head(tty))
          /\ terminated' = AfterRunning(Head(tty))
     ELSE UNCHANGED <<ranTyped, terminated>>
  /\ UNCHANGED atEof

StdinReadHandler ==
  /\ pc = "stdin"
  /\ ReadNothing \/ ReadEof \/ ReadLine
  /\ pc' = "fifo"
  /\ UNCHANGED <<exit, revents, hungUp, typed, fifoVars, signal>>

PeeksFifo ==             \* mutant: what has been run stays in the fifo
  /\ "fifo" \in revents
  /\ fifo' = IF Accepted(fifo) THEN fifo ELSE <<>>
  /\ IF Accepted(fifo)
     THEN /\ ranPiped' = Append(ranPiped, Fused(fifo))
          /\ terminated' = AfterRunning(Head(fifo))
     ELSE UNCHANGED <<ranPiped, terminated>>

ReadFifo ==
  /\ "fifo" \in revents
  /\ fifo' = <<>>
  /\ IF Accepted(fifo)
     THEN /\ ranPiped' = Append(ranPiped, Fused(fifo))
          /\ terminated' = AfterRunning(Head(fifo))
     ELSE UNCHANGED <<ranPiped, terminated>>

FifoReadHandler ==
  /\ pc = "fifo"
  /\ ReadFifo \/ ("fifo" \notin revents /\ UNCHANGED <<fifo, ranPiped, terminated>>)
  /\ pc' = "poll" /\ revents' = {}
  /\ UNCHANGED <<exit, atEof, ttyVars, signal, writers, hadWriter, piped>>

Init ==
  /\ pc = "poll" /\ terminated = FALSE /\ exit = "no" /\ revents = {}
  /\ signal = FALSE
  /\ tty = <<>> /\ hungUp = FALSE /\ atEof = FALSE
  /\ fifo = <<>> /\ writers = 0 /\ hadWriter = FALSE
  /\ typed = 0 /\ piped = 0 /\ ranTyped = <<>> /\ ranPiped = <<>>

Users == Type \/ HangUp \/ Signal \/ OpenFifo \/ WriteFifo \/ CloseFifo

Loop ==
  \/ Leave \/ Poll
  \/ StdinGone \/ ReopenFifo \/ TakeSignal
  \/ StdinReadHandler \/ FifoReadHandler

Next == Users \/ Loop

\* The thread is never stopped for ever by anything but poll.
Spec == Init /\ [][Next]_vars /\ WF_vars(Loop)

(***************************************************************************)
(* Properties.                                                             *)
(***************************************************************************)

\* The state of main and of the two sources has the right shape, and a handler
\* only ever runs with the number of arguments its row of the table states.
ConsoleTypeOK ==
  /\ pc \in {"poll", "woken", "stdin", "fifo", "left"}
  /\ terminated \in BOOLEAN /\ signal \in BOOLEAN
  /\ hungUp \in BOOLEAN /\ atEof \in BOOLEAN
  /\ exit \in {"no", "deinit", "error"}
  /\ revents \subseteq {"signal", "stdin", "stdinHup", "fifo", "fifoHup"}
  /\ tty \in Seq(Typable) /\ fifo \in Seq(Lines)
  /\ typed \in Nat /\ piped \in Nat
  /\ \A ran \in {ranTyped, ranPiped} :
       \A n \in DOMAIN ran : Len(ran[n].args) = ArgCount[ran[n].cmd]
  /\ writers \in 0..MaxWriters /\ hadWriter \in BOOLEAN

\* The terminal loses nothing: what is typed is run or refused in order, each
\* line once (stdin_read_handler, process_cmdline).
TypedQueue == INSTANCE CommandQueue WITH
  Item <- Typable, Good <- {line \in Lines : WellFormed(line)}, MayLose <- FALSE,
  pending <- tty, done <- ranTyped
TypedInOrder == TypedQueue!Spec

\* No line is the beginning of a command: it has all of its arguments or none.
LinesAreWhole ==
  \A line \in Lines :
    line.cmd \in DOMAIN ArgCount /\ line.args # <<>> => Len(line.args) >= ArgCount[line.cmd]

\* The last number of a line ends where it did, whichever line follows it.
NumbersEnd ==
  \/ Newline
  \/ \A line, later \in Lines :
       line.args # <<>> => RunOn(line.args[Len(line.args)], later.cmd) = line.args[Len(line.args)]

\* The fifo may lose lines, those read together with another and those not read
\* when the last writer closes it.  Where LinesAreWhole and NumbersEnd hold, no
\* line runs twice, out of order or changed (fifo_read_handler and the reopening
\* in main).  Halves of commands that wait together do run as one: Fused is why
\* the rest is assumed.
PipedQueue == INSTANCE CommandQueue WITH
  Item <- Lines, Good <- {line \in Lines : WellFormed(line)}, MayLose <- TRUE,
  pending <- fifo, done <- ranPiped
PipedInOrder == PipedQueue!Spec

\* The program turns for ever, and from some time on every turn finds the fifo
\* hung up: writers come and go between two calls of poll.  Such a turn reopens
\* the fifo and looks at nothing else (main).
FifoStarvesTheRest ==
  []<>(pc = "woken") /\ <>[](pc = "woken" => "fifoHup" \in revents)

\* A signal ends the program unless FifoStarvesTheRest: a single turn without a
\* hang-up is enough, whatever else poll reports with it (main).
SignalEndsIt == FifoStarvesTheRest \/ (signal ~> pc = "left")

\* A typed line is read in the end, unless FifoStarvesTheRest, an end of file was
\* typed before it, or the program returns first (stdin_read_handler, main).
TypedIsTaken ==
  \/ FifoStarvesTheRest
  \/ \A n \in 1..MaxTyped :
       typed >= n ~> (typed - Len(tty) >= n \/ atEof \/ pc = "left")

\* Once the end is decided main only finishes its turn.  In it one typed line may
\* still run, if a signal decided and poll reported both, and after that one
\* command from the fifo, if poll reported that too; the turn is the last (main).
OneOfEachAfterQuit ==
  [][terminated =>
       /\ pc' # pc => <<pc, pc'>> \in {<<"stdin", "fifo">>, <<"fifo", "poll">>, <<"poll", "left">>}
       /\ ranTyped' # ranTyped =>
            /\ pc = "stdin" /\ pc' = "fifo" /\ {"signal", "stdin"} \subseteq revents
            /\ Len(ranTyped') = Len(ranTyped) + 1
       /\ ranPiped' # ranPiped =>
            /\ pc = "fifo" /\ pc' = "poll" /\ "fifo" \in revents
            /\ Len(ranPiped') = Len(ranPiped) + 1]_vars
=============================================================================
