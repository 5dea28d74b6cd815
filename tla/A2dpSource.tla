----------------------------- MODULE A2dpSource -----------------------------
(***************************************************************************)
(* The A2DP source of the Bluetooth demo (bt_cmd.c): the console starts a  *)
(* thread that streams a file, and stops it through a flag that the thread *)
(* itself sets once it is under way.  The two flags are plain variables    *)
(* and only the last thread created can be joined.                         *)
(***************************************************************************)
EXTENDS Naturals, FiniteSets

CONSTANTS
  Thread,    \* the threads that may be created
  NoThread   \* bt_test_a2dp_source_thread before the first

ASSUME A2dpAssumption == NoThread \notin Thread

VARIABLES
  loop,       \* a2dp_src_loop
  enable,     \* a2dp_src_enable
  handle,     \* bt_test_a2dp_source_thread
  at,         \* where each thread is in _a2dp_source_thread_func
  joining,    \* the console waits in pthread_join
  joined,     \* threads that have been joined: their handles name nothing
  calm,       \* history: the thread to be joined played, alone, when it was stopped
  readFailed  \* history: some thread ended on an error of read

a2dpVars == <<loop, enable, handle, at, joining, joined, calm, readFailed>>

Place == {"none", "new", "open", "stream", "arm", "play", "stop", "clear", "dead"}

Go(t, from, to) == at[t] = from /\ at' = [at EXCEPT ![t] = to]
Alive == {t \in Thread : at[t] \notin {"none", "dead"}}

(***************************************************************************)
(* _a2dp_source_thread_func                                                *)
(***************************************************************************)

Begin(t) ==
  /\ Go(t, "new", "open")
  /\ enable' = TRUE
  /\ UNCHANGED <<loop, handle, joining, joined, calm, readFailed>>

\* The file has a header, or the thread ends with a2dp_src_enable set.
OpenFile(t) ==
  /\ Go(t, "open", "stream") \/ Go(t, "open", "dead")
  /\ UNCHANGED <<loop, enable, handle, joining, joined, calm, readFailed>>

StartStream(t) ==
  /\ Go(t, "stream", "arm")
  /\ UNCHANGED <<loop, enable, handle, joining, joined, calm, readFailed>>

Arm(t) ==
  /\ Go(t, "arm", "play")
  /\ loop' = TRUE
  /\ UNCHANGED <<enable, handle, joining, joined, calm, readFailed>>

\* Reading, rewinding at the end of the file and sending change no flag.
Quit(t) ==
  /\ ~loop
  /\ Go(t, "play", "stop")
  /\ UNCHANGED <<loop, enable, handle, joining, joined, calm, readFailed>>

ReadError(t) ==
  /\ loop
  /\ Go(t, "play", "stop")
  /\ readFailed' = TRUE
  /\ UNCHANGED <<loop, enable, handle, joining, joined, calm>>

StopStream(t) ==
  /\ Go(t, "stop", "clear")
  /\ UNCHANGED <<loop, enable, handle, joining, joined, calm, readFailed>>

Finish(t) ==
  /\ Go(t, "clear", "dead")
  /\ enable' = FALSE
  /\ UNCHANGED <<loop, handle, joining, joined, calm, readFailed>>

\* What the thread does without an error of read, which nothing obliges to come.
Runs(t) ==
  \/ Begin(t) \/ OpenFile(t) \/ StartStream(t) \/ Arm(t)
  \/ Quit(t) \/ StopStream(t) \/ Finish(t)

(***************************************************************************)
(* The commands.                                                           *)
(***************************************************************************)

SetsLoopItself ==        \* mutant: the command sets the flag of the thread
  /\ IF loop THEN UNCHANGED <<loop, handle, at>>
     ELSE /\ \E t \in Thread : Go(t, "none", "new") /\ handle' = t
          /\ loop' = TRUE
  /\ UNCHANGED <<enable, joining, joined, calm, readFailed>>

\* cmd_bt_a2dp_src_start
SrcStart ==
  /\ IF loop THEN UNCHANGED <<handle, at>>
     ELSE \E t \in Thread : Go(t, "none", "new") /\ handle' = t
  /\ UNCHANGED <<loop, enable, joining, joined, calm, readFailed>>

LoopGoesOn ==            \* mutant: the flag is not reset
  /\ IF enable
     THEN /\ joining' = TRUE
          /\ calm' = (Alive = {handle} /\ at[handle] = "play" /\ handle \notin joined)
     ELSE UNCHANGED <<joining, calm>>
  /\ UNCHANGED <<loop, enable, handle, at, joined, readFailed>>

\* cmd_bt_a2dp_src_stop
SrcStop ==
  /\ IF enable
     THEN /\ loop' = FALSE
          /\ joining' = TRUE
          /\ calm' = (Alive = {handle} /\ at[handle] = "play" /\ handle \notin joined)
     ELSE UNCHANGED <<loop, joining, calm>>
  /\ UNCHANGED <<enable, handle, at, joined, readFailed>>

JoinReturns ==
  /\ joining /\ handle \notin joined /\ at[handle] = "dead"
  /\ joining' = FALSE
  /\ joined' = joined \cup {handle}
  /\ UNCHANGED <<loop, enable, handle, at, calm, readFailed>>

\* Joining a thread again is undefined: the call may return, and need not.
JoinAgain ==
  /\ joining /\ handle \in joined
  /\ joining' = FALSE
  /\ UNCHANGED <<loop, enable, handle, at, joined, calm, readFailed>>

A2dpInit ==
  /\ loop = FALSE /\ enable = FALSE /\ handle = NoThread
  /\ at = [t \in Thread |-> "none"]
  /\ joining = FALSE /\ joined = {} /\ calm = FALSE /\ readFailed = FALSE

(***************************************************************************)
(* Properties.                                                             *)
(***************************************************************************)

A2dpTypeOK ==
  /\ loop \in BOOLEAN /\ enable \in BOOLEAN /\ joining \in BOOLEAN
  /\ calm \in BOOLEAN /\ readFailed \in BOOLEAN
  /\ handle \in Thread \cup {NoThread}
  /\ at \in [Thread -> Place]
  /\ joined \subseteq Thread
  /\ \A t \in joined : at[t] = "dead"
  /\ joining => handle \in Thread

\* a2dp_src_start is only ever refused because some thread still streams, or
\* because one ended on an error of read, which leaves a2dp_src_loop set for good
\* (cmd_bt_a2dp_src_start, _a2dp_source_thread_func).
LoopMeansThread ==
  loop => readFailed \/ \E t \in Thread : at[t] = "play"

\* A stop returns when the thread it joins was streaming and no other was alive;
\* without that the thread sets the flag again after the stop has reset it, and
\* the console waits for ever (cmd_bt_a2dp_src_stop).
StopReturns == (joining /\ calm) ~> ~joining
=============================================================================
