------------------------- MODULE MeshConsoleProofs -------------------------
(***************************************************************************)
(* Theorems about MeshConsole, for any command lines and table and for     *)
(* every bound.                                                            *)
(*                                                                         *)
(* ConsoleInv adds to the types what a turn of the loop relies on: getline *)
(* is called only when the terminal has a line, unless its end of file was *)
(* seen; and a turn that goes on after the end was decided has seen the    *)
(* signal, for poll is not called again once __main_terminated is set.     *)
(***************************************************************************)
EXTENDS MeshConsole, SequenceTheorems, WellFoundedInduction, TLAPS

Events == {"signal", "stdin", "stdinHup", "fifo", "fifoHup"}

\* What poll reported of the terminal still holds when the handlers run.
LineWaits ==
  /\ pc = "woken" /\ "stdin" \in revents => tty # <<>> \/ "stdinHup" \in revents
  /\ pc = "stdin" /\ "stdin" \in revents => tty # <<>>

\* So does what it reported of the fifo: only the console reads from it.
FifoWaits == pc \in {"woken", "stdin", "fifo"} /\ "fifo" \in revents => fifo # <<>>

\* When __main_terminated can be set before the loop has come round.
EndIsSignalled ==
  /\ pc = "woken" => ~terminated
  /\ pc = "stdin" /\ terminated => "signal" \in revents

IsASequence(s) == s \in Seq({s[n] : n \in DOMAIN s})

ConsoleInv ==
  /\ ConsoleTypeOK /\ IsASequence(ranTyped) /\ IsASequence(ranPiped)
  /\ LineWaits /\ FifoWaits /\ EndIsSignalled

(***************************************************************************)
(* The types.  Of the lines that have run it is said that each had the     *)
(* number of arguments that its row of the table states.                   *)
(***************************************************************************)

Counted(ran) == \A n \in DOMAIN ran : Len(ran[n].args) = ArgCount[ran[n].cmd]

\* One more line of the right number of arguments.
LEMMA AppendCounted ==
  ASSUME NEW ran, IsASequence(ran), Counted(ran), NEW line, WellFormed(line)
  PROVE  IsASequence(Append(ran, line)) /\ Counted(Append(ran, line))
<1> DEFINE old == {ran[n] : n \in DOMAIN ran}
           next == Append(ran, line)
<1>1. ran \in Seq(old \cup {line})
  BY DEF IsASequence
<1>2. /\ next \in Seq(old \cup {line}) /\ Len(next) = Len(ran) + 1
      /\ DOMAIN ran = 1..Len(ran) /\ DOMAIN next = 1..(Len(ran) + 1) /\ Len(ran) \in Nat
      /\ \A n \in DOMAIN ran : next[n] = ran[n]
      /\ next[Len(ran) + 1] = line
  BY <1>1
<1> HIDE DEF old, next
<1>3. next \in Seq({next[n] : n \in DOMAIN next})
  <2>1. \A n \in 1..Len(next) : next[n] \in {next[k] : k \in DOMAIN next}
    BY <1>2
  <2> QED BY <1>2, <2>1
<1>4. Counted(next)
  BY <1>2 DEF Counted, WellFormed
<1> QED BY <1>3, <1>4 DEF IsASequence, next

\* The first of the lines and the rest.
LEMMA HeadAndTail ==
  ASSUME NEW S, NEW q \in Seq(S), q # <<>>
  PROVE  Head(q) \in S /\ Tail(q) \in Seq(S)
OBVIOUS

\* The users.
LEMMA UsersInv ==
  ASSUME ConsoleInv, Users
  PROVE  ConsoleInv'
<1> USE DEF ConsoleInv, ConsoleTypeOK, LineWaits, FifoWaits, EndIsSignalled, loopVars, ttyVars, fifoVars
<1>1. CASE Type
  <2>1. PICK line \in Typable : tty' = Append(tty, line)
    BY <1>1 DEF Type
  <2>2. tty' \in Seq(Typable) /\ tty' # <<>>
    BY <2>1
  <2> QED BY <1>1, <2>2 DEF Type
<1>2. CASE HangUp
  BY <1>2 DEF HangUp
<1>3. CASE Signal
  BY <1>3 DEF Signal
<1>4. CASE OpenFifo
  BY <1>4, MeshConsoleAssumption DEF OpenFifo
<1>5. CASE WriteFifo
  <2>1. fifo' \in Seq(Lines) /\ fifo' # <<>>
    BY <1>5 DEF WriteFifo
  <2> QED BY <1>5, <2>1 DEF WriteFifo
<1>6. CASE CloseFifo
  BY <1>6, MeshConsoleAssumption DEF CloseFifo
<1> QED BY <1>1, <1>2, <1>3, <1>4, <1>5, <1>6 DEF Users

\* The turn of the loop up to its read handlers.
LEMMA TurnInv ==
  ASSUME ConsoleInv, Leave \/ Poll \/ StdinGone \/ ReopenFifo \/ TakeSignal
  PROVE  ConsoleInv'
<1> USE DEF ConsoleInv, ConsoleTypeOK, LineWaits, FifoWaits, EndIsSignalled, ttyVars, fifoVars
<1>1. CASE Leave
  BY <1>1 DEF Leave
<1>2. CASE Poll
  <2>1. /\ Ready \subseteq Events /\ ("fifo" \in Ready => fifo # <<>>)
        /\ "stdin" \in Ready => tty # <<>> \/ "stdinHup" \in Ready
    BY DEF Ready, Events
  <2> QED BY <1>2, <2>1 DEF Poll, Events
<1>3. CASE StdinGone
  BY <1>3 DEF StdinGone
<1>4. CASE ReopenFifo
  BY <1>4 DEF ReopenFifo
<1>5. CASE TakeSignal
  BY <1>5 DEF TakeSignal
<1> QED BY <1>1, <1>2, <1>3, <1>4, <1>5

\* stdin_read_handler.
LEMMA StdinReadInv ==
  ASSUME ConsoleInv, StdinReadHandler
  PROVE  ConsoleInv'
<1> USE DEF StdinReadHandler
<1>1. tty' \in Seq(Typable) /\ terminated' \in BOOLEAN /\ atEof' \in BOOLEAN
  <2>1. CASE ReadNothing
    BY <2>1 DEF ReadNothing, ConsoleInv, ConsoleTypeOK
  <2>2. CASE ReadEof
    BY <2>2, HeadAndTail DEF ReadEof, ConsoleInv, ConsoleTypeOK, LineWaits
  <2>3. CASE ReadLine
    BY <2>3, HeadAndTail DEF ReadLine, ConsoleInv, ConsoleTypeOK, LineWaits, AfterRunning
  <2> QED BY <2>1, <2>2, <2>3
<1>2. IsASequence(ranTyped') /\ Counted(ranTyped')
  <2>1. CASE ranTyped' = ranTyped
    BY <2>1 DEF ConsoleInv, ConsoleTypeOK, Counted
  <2>2. CASE ReadLine /\ WellFormed(Head(tty)) /\ ranTyped' = Append(ranTyped, Head(tty))
    BY <2>2, AppendCounted DEF ConsoleInv, ConsoleTypeOK, Counted
  <2> QED BY <2>1, <2>2 DEF ReadNothing, ReadEof, ReadLine
<1> QED BY <1>1, <1>2 DEF ConsoleInv, ConsoleTypeOK, LineWaits, FifoWaits, EndIsSignalled, Counted, fifoVars

\* fifo_read_handler.
LEMMA FifoReadInv ==
  ASSUME ConsoleInv, FifoReadHandler
  PROVE  ConsoleInv'
<1> USE DEF FifoReadHandler, ReadFifo
<1>1. fifo' \in Seq(Lines) /\ terminated' \in BOOLEAN
  <2>1. terminated' = AfterRunning(Head(fifo)) \/ terminated' = terminated
    OBVIOUS
  <2>2. fifo' = <<>> \/ fifo' = fifo
    OBVIOUS
  <2>3. AfterRunning(Head(fifo)) \in BOOLEAN
    BY Zenon DEF AfterRunning
  <2>4. fifo \in Seq(Lines) /\ terminated \in BOOLEAN
    BY DEF ConsoleInv, ConsoleTypeOK
  <2>5. <<>> \in Seq(Lines)
    OBVIOUS
  <2> HIDE DEF FifoReadHandler, ReadFifo
  <2> QED BY <2>1, <2>2, <2>3, <2>4, <2>5, Zenon
<1>2. IsASequence(ranPiped') /\ Counted(ranPiped')
  <2>1. CASE ranPiped' = ranPiped
    BY <2>1 DEF ConsoleInv, ConsoleTypeOK, Counted
  <2>2. CASE Accepted(fifo) /\ ranPiped' = Append(ranPiped, Fused(fifo))
    BY <2>2, AppendCounted DEF ConsoleInv, ConsoleTypeOK, Counted, Accepted
  <2> QED BY <2>1, <2>2
<1> QED BY <1>1, <1>2 DEF ConsoleInv, ConsoleTypeOK, LineWaits, FifoWaits, EndIsSignalled, Counted, ttyVars

\* Every step keeps ConsoleInv.
LEMMA ConsoleStep ==
  ASSUME ConsoleInv, [Next]_vars
  PROVE  ConsoleInv'
<1>1. CASE UNCHANGED vars
  BY <1>1 DEF vars, loopVars, ttyVars, fifoVars, ConsoleInv, ConsoleTypeOK, LineWaits, FifoWaits, EndIsSignalled
<1> QED BY <1>1, UsersInv, TurnInv, StdinReadInv, FifoReadInv DEF Next, Loop

LEMMA Invariant == Spec => []ConsoleInv
<1>1. Init => ConsoleInv
  <2>1. IsASequence(<<>>)
    BY DEF IsASequence
  <2>2. ASSUME Init PROVE ConsoleTypeOK
    <3>1. tty \in Seq(Typable) /\ fifo \in Seq(Lines)
      BY <2>2 DEF Init
    <3>2. Counted(ranTyped) /\ Counted(ranPiped)
      <4>1. DOMAIN <<>> = {}
        OBVIOUS
      <4> QED BY <2>2, <4>1, Zenon DEF Init, Counted
    <3>3. /\ pc = "poll" /\ exit = "no" /\ revents = {} /\ ~terminated /\ ~signal
          /\ terminated \in BOOLEAN /\ signal \in BOOLEAN /\ hungUp \in BOOLEAN
          /\ atEof \in BOOLEAN /\ hadWriter \in BOOLEAN
      BY <2>2 DEF Init
    <3>4. typed \in Nat /\ piped \in Nat /\ writers \in 0..MaxWriters
      BY <2>2, MeshConsoleAssumption DEF Init
    <3> QED BY <3>1, <3>2, <3>3, <3>4 DEF ConsoleTypeOK, Counted
  <2> QED BY <2>1, <2>2 DEF Init, ConsoleInv, LineWaits, FifoWaits, EndIsSignalled
<1> QED BY <1>1, ConsoleStep, PTL DEF Spec

\* Every variable keeps its type, and a handler of the table only ever runs with the
\* number of arguments of its row, whichever lines the fifo hands over together
\* (process_cmdline).
THEOREM ConsoleTypeCorrect == Spec => []ConsoleTypeOK
<1>1. ConsoleInv => ConsoleTypeOK
  BY DEF ConsoleInv
<1> QED BY <1>1, Invariant, PTL

\* After the end is decided main only finishes its turn, in which one typed line, if
\* a signal decided, and one command from the fifo may still run; both must have been
\* reported by the poll of that turn (main).
THEOREM LastTurn == Spec => OneOfEachAfterQuit
<1> DEFINE Finishes ==
      pc' # pc => <<pc, pc'>> \in {<<"stdin", "fifo">>, <<"fifo", "poll">>, <<"poll", "left">>}
    OneTyped ==
      ranTyped' # ranTyped =>
        /\ pc = "stdin" /\ pc' = "fifo" /\ {"signal", "stdin"} \subseteq revents
        /\ Len(ranTyped') = Len(ranTyped) + 1
    OnePiped ==
      ranPiped' # ranPiped =>
        /\ pc = "fifo" /\ pc' = "poll" /\ "fifo" \in revents
        /\ Len(ranPiped') = Len(ranPiped) + 1
<1>1. ASSUME ConsoleInv, [Next]_vars, terminated PROVE Finishes /\ OneTyped /\ OnePiped
  <2>1. \A ran, line : IsASequence(ran) => Len(Append(ran, line)) = Len(ran) + 1
    BY DEF IsASequence
  <2>2. IsASequence(ranTyped) /\ IsASequence(ranPiped)
    BY <1>1 DEF ConsoleInv
  <2>3. CASE StdinReadHandler
    <3>1. OneTyped
      BY <1>1, <2>1, <2>2, <2>3 DEF StdinReadHandler, ReadNothing, ReadEof, ReadLine,
                                    ConsoleInv, EndIsSignalled
    <3> QED BY <2>3, <3>1 DEF StdinReadHandler, fifoVars
  <2>4. CASE FifoReadHandler
    <3>1. OnePiped
      BY <2>1, <2>2, <2>4 DEF FifoReadHandler, ReadFifo
    <3> QED BY <2>4, <3>1 DEF FifoReadHandler, ttyVars
  <2>5. CASE Users \/ Leave \/ Poll \/ StdinGone \/ ReopenFifo \/ TakeSignal
    BY <1>1, <2>5 DEF Users, Type, HangUp, Signal, OpenFifo, WriteFifo, CloseFifo,
                Leave, Poll, StdinGone, ReopenFifo, TakeSignal, loopVars, ttyVars, fifoVars,
                ConsoleInv, EndIsSignalled
  <2>6. CASE UNCHANGED vars
    BY <2>6 DEF vars, loopVars, ttyVars, fifoVars
  <2> QED BY <1>1, <2>3, <2>4, <2>5, <2>6 DEF Next, Loop
<1>2. ASSUME ConsoleInv, [Next]_vars
      PROVE  [terminated => Finishes /\ OneTyped /\ OnePiped]_vars
  BY <1>1, <1>2
<1> QED BY <1>2, Invariant, PTL DEF Spec, OneOfEachAfterQuit

(***************************************************************************)
(* The terminal implements CommandQueue: typing gives an item, a read runs *)
(* or refuses the one at the head, and nothing else touches them.          *)
(***************************************************************************)

\* stdin_read_handler takes the line that was typed first.
LEMMA ReadTakesTheHead ==
  ASSUME ConsoleInv, StdinReadHandler
  PROVE  [TypedQueue!Next]_(TypedQueue!queueVars)
<1>1. CASE ReadNothing
  BY <1>1 DEF ReadNothing, TypedQueue!queueVars
<1>2. CASE ReadEof
  <2>1. tty # <<>> /\ Head(tty) \notin {line \in Lines : WellFormed(line)}
    BY <1>2, MeshConsoleAssumption DEF StdinReadHandler, ReadEof, ConsoleInv, LineWaits, CtrlD, WellFormed
  <2>2. TypedQueue!Refuse
    BY <1>2, <2>1 DEF ReadEof, TypedQueue!Refuse
  <2> QED BY <2>2 DEF TypedQueue!Next
<1>3. CASE ReadLine
  <2>1. tty # <<>> /\ Head(tty) \in Lines
    BY <1>3, HeadAndTail DEF StdinReadHandler, ReadLine, ConsoleInv, ConsoleTypeOK, LineWaits, Typable
  <2>2. TypedQueue!Run \/ TypedQueue!Refuse
    BY <1>3, <2>1 DEF ReadLine, TypedQueue!Run, TypedQueue!Refuse
  <2> QED BY <2>2 DEF TypedQueue!Next
<1> QED BY <1>1, <1>2, <1>3 DEF StdinReadHandler

\* Every step of the console is one of the queue, or none.
LEMMA TypedStep ==
  ASSUME ConsoleInv, [Next]_vars
  PROVE  [TypedQueue!Next]_(TypedQueue!queueVars)
<1>1. CASE Type
  BY <1>1 DEF Type, TypedQueue!Next, TypedQueue!Give
<1>2. CASE StdinReadHandler
  BY <1>2, ReadTakesTheHead
<1>3. CASE \/ HangUp \/ Signal \/ OpenFifo \/ WriteFifo \/ CloseFifo \/ UNCHANGED vars
           \/ Leave \/ Poll \/ StdinGone \/ ReopenFifo \/ TakeSignal \/ FifoReadHandler
  <2>1. UNCHANGED <<tty, ranTyped>>
    BY <1>3 DEF HangUp, Signal, OpenFifo, WriteFifo, CloseFifo, vars,
                Leave, Poll, StdinGone, ReopenFifo, TakeSignal, FifoReadHandler, ttyVars
  <2> QED BY <2>1 DEF TypedQueue!queueVars
<1> QED BY <1>1, <1>2, <1>3 DEF Next, Users, Loop

\* What is typed is run or refused in order, each line once, and none is lost
\* (stdin_read_handler, process_cmdline).
THEOREM TerminalIsAQueue == Spec => TypedInOrder
<1>1. Init => TypedQueue!Init
  BY DEF Init, TypedQueue!Init
<1> QED BY <1>1, TypedStep, Invariant, PTL DEF Spec, TypedInOrder, TypedQueue!Spec

(***************************************************************************)
(* Induction.  A set of naturals has a least element, for < is well        *)
(* founded on Nat; so a set that holds 0 and, with a number, the next one  *)
(* holds them all.                                                         *)
(***************************************************************************)

LEMMA LeastElement ==
  ASSUME NEW T \in SUBSET Nat, T # {}
  PROVE  \E n \in T : \A m \in T : n <= m
<1> DEFINE R == OpToRel(<, Nat)
<1>1. IsWellFoundedOn(R, Nat)
  BY NatLessThanWellFounded
<1>2. \A x, y \in Nat : <<y, x>> \in R <=> y < x
  BY DEF OpToRel
<1> HIDE DEF R
<1>3. PICK n \in T : \A m \in T : <<m, n>> \notin R
  BY <1>1, WFMin
<1>4. \A m \in T : ~(m < n)
  BY <1>2, <1>3
<1> QED BY <1>4

LEMMA AllNumbers ==
  ASSUME NEW S \in SUBSET Nat, 0 \in S, \A n \in S : n + 1 \in S
  PROVE  S = Nat
<1> SUFFICES ASSUME NEW n \in Nat, n \notin S PROVE FALSE
  OBVIOUS
<1>1. PICK k \in Nat \ S : \A m \in Nat \ S : k <= m
  <2>1. Nat \ S \in SUBSET Nat /\ Nat \ S # {}
    OBVIOUS
  <2> QED BY <2>1, LeastElement
<1>2. k # 0 /\ k - 1 \in Nat
  BY <1>1
<1>3. k - 1 \in S
  BY <1>1, <1>2
<1> QED BY <1>1, <1>3

(***************************************************************************)
(* AllArgs, for as many lines as wait together: the function that it is    *)
(* defined by exists and joins the arguments line by line.                 *)
(***************************************************************************)

Joins(batch, f, n) ==
  IF n = 1 THEN batch[1].args ELSE Glue(f[n - 1], batch[n].cmd) \o batch[n].args

\* There is such a function on the first k lines, whatever k.
LEMMA JoinsUpTo ==
  ASSUME NEW batch, NEW k \in Nat
  PROVE  \E f : f = [n \in 1..k |-> Joins(batch, f, n)]
<1> DEFINE S == {m \in Nat : \E f : f = [n \in 1..m |-> Joins(batch, f, n)]}
<1>1. 0 \in S
  <2>1. 1..0 = {} /\ DOMAIN <<>> = {}
    OBVIOUS
  <2>2. <<>> = [n \in 1..0 |-> Joins(batch, <<>>, n)]
    BY <2>1
  <2> QED BY <2>2
<1>2. ASSUME NEW m \in S PROVE m + 1 \in S
  <2>1. PICK f : f = [n \in 1..m |-> Joins(batch, f, n)]
    OBVIOUS
  <2> DEFINE g == [n \in 1..(m + 1) |-> IF n <= m THEN f[n] ELSE Joins(batch, f, n)]
  <2>2. \A n \in 1..m : g[n] = f[n] /\ f[n] = Joins(batch, f, n)
    <3>1. \A n \in 1..m : n \in 1..(m + 1) /\ n <= m
      OBVIOUS
    <3> QED BY <2>1, <3>1
  <2>3. \A n \in 1..(m + 1) : g[n] = Joins(batch, f, n)
    <3>1. \A n \in 1..(m + 1) : n <= m => n \in 1..m
      OBVIOUS
    <3> QED BY <2>2, <3>1
  <2> HIDE DEF g
  <2>4. \A n \in 1..(m + 1) : Joins(batch, g, n) = Joins(batch, f, n)
    <3>1. \A n \in 1..(m + 1) : n # 1 => n - 1 \in 1..m
      OBVIOUS
    <3> QED BY <2>2, <3>1 DEF Joins
  <2>5. g = [n \in 1..(m + 1) |-> Joins(batch, g, n)]
    <3>1. g = [n \in 1..(m + 1) |-> g[n]]
      BY DEF g
    <3> QED BY <2>3, <2>4, <3>1
  <2> QED BY <2>5
<1>3. S = Nat
  <2>1. S \in SUBSET Nat
    OBVIOUS
  <2> HIDE DEF S
  <2> QED BY <1>1, <1>2, <2>1, AllNumbers
<1> QED BY <1>3

LEMMA AllArgsJoins ==
  ASSUME NEW batch, Len(batch) \in Nat
  PROVE  \E f : /\ f = [n \in 1..Len(batch) |-> Joins(batch, f, n)]
                /\ AllArgs(batch) = f[Len(batch)]
<1> DEFINE f == CHOOSE h : h = [n \in 1..Len(batch) |-> Joins(batch, h, n)]
<1>1. AllArgs(batch) = f[Len(batch)]
  BY DEF AllArgs, Joins
<1>2. f = [n \in 1..Len(batch) |-> Joins(batch, f, n)]
  BY JoinsUpTo, Zenon
<1> QED BY <1>1, <1>2

\* What has been joined when the first line is complete: its arguments, or more
\* numbers than it has.
FirstOrMore(first, args) ==
  IsASequence(args) /\ (args = first \/ Len(args) > Len(first))

\* Gluing a name on changes no number of arguments.
LEMMA GlueLength ==
  ASSUME NEW args, IsASequence(args), NEW cmd
  PROVE  IsASequence(Glue(args, cmd)) /\ Len(Glue(args, cmd)) = Len(args)
<1> DEFINE glued == Glue(args, cmd)
<1>1. CASE Newline \/ args = <<>>
  BY <1>1 DEF Glue
<1>2. CASE ~(Newline \/ args = <<>>)
  <2> DEFINE last == RunOn(args[Len(args)], cmd)
             A == {args[n] : n \in DOMAIN args} \cup {last}
  <2>1. args \in Seq(A)
    <3>1. args \in Seq({args[n] : n \in DOMAIN args})
      BY DEF IsASequence
    <3> QED BY <3>1, SeqMonotonic
  <2>2. glued = [args EXCEPT ![Len(args)] = last]
    BY <1>2 DEF Glue
  <2>3. last \in A
    OBVIOUS
  <2> HIDE DEF last, A, glued
  <2>4. glued \in Seq(A) /\ Len(glued) = Len(args)
    <3>1. args \in [1..Len(args) -> A] /\ Len(args) \in Nat
      BY <2>1
    <3>2. glued \in [1..Len(args) -> A]
      BY <2>2, <2>3, <3>1
    <3> QED BY <3>1, <3>2
  <2>5. glued \in Seq({glued[n] : n \in DOMAIN glued})
    <3>1. \A n \in 1..Len(glued) : glued[n] \in {glued[k] : k \in DOMAIN glued}
      BY <2>4
    <3> QED BY <2>4, <3>1
  <2> QED BY <2>4, <2>5 DEF IsASequence, glued
<1> QED BY <1>1, <1>2

\* Where numbers end with their line, gluing leaves the arguments of a line.
LEMMA GlueKeeps ==
  ASSUME NumbersEnd, NEW line \in Lines, NEW later \in Lines
  PROVE  Glue(line.args, later.cmd) = line.args
<1>1. line.args \in Seq(Nat)
  BY MeshConsoleAssumption
<1>2. CASE Newline \/ line.args = <<>>
  BY <1>2 DEF Glue
<1>3. CASE ~(Newline \/ line.args = <<>>)
  <2>1. RunOn(line.args[Len(line.args)], later.cmd) = line.args[Len(line.args)]
    BY <1>3 DEF NumbersEnd
  <2>2. Glue(line.args, later.cmd) = [line.args EXCEPT ![Len(line.args)] = line.args[Len(line.args)]]
    BY <1>3, <2>1 DEF Glue
  <2> QED BY <1>1, <2>2
<1> QED BY <1>2, <1>3

\* One more line.
LEMMA JoinOne ==
  ASSUME NumbersEnd, NEW line \in Lines, NEW later \in Lines, NEW args,
         FirstOrMore(line.args, args)
  PROVE  FirstOrMore(line.args, Glue(args, later.cmd) \o later.args)
<1> DEFINE glued == Glue(args, later.cmd)
           joined == glued \o later.args
           A == {glued[n] : n \in DOMAIN glued} \cup Nat
<1>1. line.args \in Seq(Nat) /\ later.args \in Seq(Nat)
  BY MeshConsoleAssumption
<1>2. IsASequence(glued) /\ Len(glued) = Len(args)
  BY GlueLength DEF FirstOrMore
<1>3. glued \in Seq(A) /\ later.args \in Seq(A)
  BY <1>1, <1>2, SeqMonotonic DEF IsASequence
<1>4. args = line.args => glued = line.args
  BY GlueKeeps
<1> HIDE DEF glued, A
<1>5. joined \in Seq(A) /\ Len(joined) = Len(glued) + Len(later.args)
      /\ (later.args = <<>> => joined = glued)
  BY <1>3, ConcatProperties, ConcatEmptySeq
<1>6. IsASequence(joined)
  <2>1. \A n \in 1..Len(joined) : joined[n] \in {joined[k] : k \in DOMAIN joined}
    BY <1>5
  <2> HIDE DEF joined
  <2> QED BY <1>5, <2>1 DEF IsASequence
<1>7. joined = line.args \/ Len(joined) > Len(line.args)
  <2> HIDE DEF joined
  <2>1. Len(later.args) \in Nat /\ (Len(later.args) = 0 => later.args = <<>>)
        /\ Len(glued) \in Nat /\ Len(line.args) \in Nat
    BY <1>1, <1>3
  <2>2. CASE Len(args) > Len(line.args)
    BY <1>2, <1>5, <2>1, <2>2
  <2>3. CASE args = line.args
    <3>1. glued = line.args /\ Len(glued) = Len(line.args)
      BY <1>2, <1>4, <2>3
    <3>2. CASE Len(later.args) = 0
      BY <1>5, <2>1, <3>1, <3>2
    <3>3. CASE Len(later.args) > 0
      <4>1. Len(joined) = Len(line.args) + Len(later.args)
        BY <1>5, <3>1
      <4>2. \A a, b \in Nat : b > 0 => a + b > a
        OBVIOUS
      <4> QED BY <2>1, <3>3, <4>1, <4>2, Zenon
    <3> QED BY <2>1, <3>2, <3>3
  <2> QED BY <2>2, <2>3 DEF FirstOrMore
<1> QED BY <1>6, <1>7 DEF FirstOrMore, glued

\* What the fifo hands over together.
LEMMA AllArgsOfFirst ==
  ASSUME NumbersEnd, NEW batch \in Seq(Lines), batch # <<>>
  PROVE  /\ FirstOrMore(batch[1].args, AllArgs(batch))
         /\ Len(batch) = 1 => AllArgs(batch) = batch[1].args
<1>1. /\ Len(batch) \in Nat /\ Len(batch) >= 1
      /\ \A n \in 1..Len(batch) : batch[n] \in Lines
  OBVIOUS
<1>2. PICK f : /\ f = [n \in 1..Len(batch) |-> Joins(batch, f, n)]
               /\ AllArgs(batch) = f[Len(batch)]
  BY <1>1, AllArgsJoins
<1>3. \A n \in 1..Len(batch) : f[n] = Joins(batch, f, n)
  BY <1>2
<1> DEFINE S == {n \in Nat : n + 1 \in 1..Len(batch) => FirstOrMore(batch[1].args, f[n + 1])}
<1>4. f[1] = batch[1].args
  BY <1>1, <1>3 DEF Joins
<1>5. 0 \in S
  <2>1. batch[1].args \in Seq(Nat)
    BY <1>1, MeshConsoleAssumption
  <2>2. IsASequence(batch[1].args)
    BY <2>1 DEF IsASequence
  <2> QED BY <1>4, <2>2 DEF FirstOrMore
<1>6. ASSUME NEW n \in S PROVE n + 1 \in S
  <2> SUFFICES ASSUME n + 2 \in 1..Len(batch)
               PROVE  FirstOrMore(batch[1].args, f[n + 2])
    OBVIOUS
  <2>1. n \in Nat /\ n + 1 \in 1..Len(batch) /\ n + 2 # 1 /\ (n + 2) - 1 = n + 1
    BY <1>1
  <2>2. f[n + 2] = Glue(f[n + 1], batch[n + 2].cmd) \o batch[n + 2].args
    BY <1>3, <2>1 DEF Joins
  <2>3. FirstOrMore(batch[1].args, f[n + 1])
    BY <2>1
  <2>4. batch[1] \in Lines /\ batch[n + 2] \in Lines
    BY <1>1
  <2> QED BY <2>2, <2>3, <2>4, JoinOne
<1>7. S = Nat
  <2>1. S \in SUBSET Nat
    OBVIOUS
  <2> HIDE DEF S
  <2> QED BY <1>5, <1>6, <2>1, AllNumbers
<1>8. FirstOrMore(batch[1].args, f[Len(batch)])
  <2>1. Len(batch) - 1 \in Nat /\ (Len(batch) - 1) + 1 = Len(batch)
    BY <1>1
  <2>2. Len(batch) - 1 \in S
    BY <1>7, <2>1
  <2> QED BY <1>1, <2>1, <2>2
<1> QED BY <1>2, <1>4, <1>8

\* What is run of lines that were read together is the first of them, unchanged.
LEMMA FusedIsFirst ==
  ASSUME LinesAreWhole, NumbersEnd, NEW batch \in Seq(Lines), batch # <<>>, Accepted(batch)
  PROVE  Fused(batch) = Head(batch) /\ Head(batch) \in Lines /\ WellFormed(Head(batch))
<1> DEFINE first == batch[1]
<1>1. Head(batch) = first /\ first \in Lines /\ Len(batch) \in Nat
  OBVIOUS
<1>2. /\ first = [cmd |-> first.cmd, args |-> first.args]
      /\ first.args \in Seq(Nat) /\ Len(first.args) \in Nat
      /\ (Len(first.args) > 0 => first.args # <<>>)
  BY <1>1, MeshConsoleAssumption
<1>3. /\ first.cmd \in DOMAIN ArgCount
      /\ Len(AllArgs(batch)) = ArgCount[first.cmd]
      /\ Len(first.args) > 0 \/ Len(batch) = 1
  BY <1>1 DEF Accepted, NameSurvives, WellFormed, Fused
<1>4. AllArgs(batch) = first.args
  <2>1. CASE Len(batch) = 1
    BY <2>1, AllArgsOfFirst
  <2>2. CASE Len(first.args) > 0
    <3>1. first.args = AllArgs(batch) \/ Len(AllArgs(batch)) > Len(first.args)
      BY AllArgsOfFirst DEF FirstOrMore
    <3>2. Len(first.args) >= ArgCount[first.cmd]
      BY <1>1, <1>2, <1>3, <2>2 DEF LinesAreWhole
    <3>3. Len(AllArgs(batch)) \in Nat
      <4>1. IsASequence(AllArgs(batch))
        BY AllArgsOfFirst DEF FirstOrMore
      <4> QED BY <4>1 DEF IsASequence
    <3> QED BY <1>2, <1>3, <3>1, <3>2, <3>3
  <2> QED BY <1>3, <2>1, <2>2
<1>5. Fused(batch) = first
  BY <1>1, <1>2, <1>4 DEF Fused
<1>6. WellFormed(first)
  BY <1>3, <1>4 DEF WellFormed
<1> QED BY <1>1, <1>5, <1>6

(***************************************************************************)
(* The fifo implements CommandQueue, for lines of that kind: writing gives *)
(* an item, a read takes all that wait and runs at most the first of them, *)
(* and closing the fifo may lose them all.                                 *)
(***************************************************************************)

LEMMA PipedStep ==
  ASSUME LinesAreWhole, NumbersEnd, ConsoleInv, [Next]_vars
  PROVE  [PipedQueue!Next]_(PipedQueue!queueVars)
<1>1. CASE WriteFifo
  BY <1>1 DEF WriteFifo, PipedQueue!Next, PipedQueue!Give
<1>2. CASE FifoReadHandler
  <2>1. fifo \in Seq(Lines) /\ ("fifo" \in revents => fifo # <<>>)
    BY <1>2 DEF FifoReadHandler, ConsoleInv, ConsoleTypeOK, FifoWaits
  <2>2. CASE "fifo" \in revents /\ Accepted(fifo)
    <3>1. /\ fifo # <<>> /\ fifo' = <<>>
          /\ ranPiped' = Append(ranPiped, Fused(fifo))
      BY <1>2, <2>1, <2>2 DEF FifoReadHandler, ReadFifo
    <3>2. Fused(fifo) = Head(fifo) /\ Head(fifo) \in Lines /\ WellFormed(Head(fifo))
      BY <2>1, <2>2, FusedIsFirst
    <3>3. PipedQueue!Lose
      BY <3>1, <3>2 DEF PipedQueue!Lose
    <3> QED BY <3>3 DEF PipedQueue!Next
  <2>3. CASE "fifo" \in revents /\ ~Accepted(fifo)
    <3>1. fifo # <<>> /\ fifo' = <<>> /\ ranPiped' = ranPiped
      BY <1>2, <2>1, <2>3 DEF FifoReadHandler, ReadFifo
    <3>2. PipedQueue!Lose
      BY <3>1 DEF PipedQueue!Lose
    <3> QED BY <3>2 DEF PipedQueue!Next
  <2>4. CASE "fifo" \notin revents
    BY <1>2, <2>4 DEF FifoReadHandler, ReadFifo, PipedQueue!queueVars
  <2> QED BY <2>2, <2>3, <2>4
<1>3. CASE ReopenFifo
  <2>1. ranPiped' = ranPiped /\ (fifo' = <<>> \/ fifo' = fifo)
    BY <1>3 DEF ReopenFifo
  <2>2. PipedQueue!Lose \/ UNCHANGED PipedQueue!queueVars
    BY <2>1 DEF PipedQueue!Lose, PipedQueue!queueVars
  <2> QED BY <2>2 DEF PipedQueue!Next
<1>4. CASE \/ Type \/ HangUp \/ Signal \/ OpenFifo \/ CloseFifo \/ UNCHANGED vars
           \/ Leave \/ Poll \/ StdinGone \/ TakeSignal \/ StdinReadHandler
  <2>1. UNCHANGED <<fifo, ranPiped>>
    BY <1>4 DEF Type, HangUp, Signal, OpenFifo, CloseFifo, vars,
                Leave, Poll, StdinGone, TakeSignal, StdinReadHandler, fifoVars
  <2> QED BY <2>1 DEF PipedQueue!queueVars
<1> QED BY <1>1, <1>2, <1>3, <1>4 DEF Next, Users, Loop

\* Whatever the writers do and whenever the fifo is closed and opened again, no line
\* of it runs twice, out of order or changed, when each has all of its arguments or
\* none and its numbers end with it (fifo_read_handler, main).
THEOREM FifoIsALossyQueue ==
  ASSUME LinesAreWhole, NumbersEnd
  PROVE  Spec => PipedInOrder
<1>1. Init => PipedQueue!Init
  BY DEF Init, PipedQueue!Init
<1>2. ConsoleInv /\ [Next]_vars => [PipedQueue!Next]_(PipedQueue!queueVars)
  BY PipedStep
<1> QED BY <1>1, <1>2, Invariant, PTL DEF Spec, PipedInOrder, PipedQueue!Spec

=============================================================================
