-------------------------- MODULE UtilitiesProofs --------------------------
(***************************************************************************)
(* The safety of the command line tools for every count, every number of   *)
(* reads and every width of the loops' counter.                            *)
(***************************************************************************)
EXTENDS Utilities, TLAPS

(* Where main is tells what has become of the energymon.                   *)
Held ==
  /\ em # "misused"
  /\ pc = "start" => em = "none"
  /\ pc \notin {"start", "done", "killed"} => em = "up"
  /\ pc = "done" /\ em = "up" => util = "file-provider" /\ filename /\ n = 0 /\ ret = 1
  /\ pc \in {"start", "interval", "file"} => n = 0

IInv == TypeOK /\ Held

-----------------------------------------------------------------------------
(* The calls of the tools, and where main has the energymon.               *)
MidPlaces == {"interval", "file", "first", "command", "second", "check", "load", "store",
              "read", "write", "sleep", "finish"}

LEMMA FinitKeeps ==
  ASSUME IInv, NEW next \in MidPlaces, Finit(next) PROVE IInv'
  BY DEF IInv, TypeOK, Held, Finit, MidPlaces, options, output, sigint

LEMMA FinitFailsKeeps ==
  ASSUME IInv, FinitFails("done") PROVE IInv'
  BY DEF IInv, TypeOK, Held, FinitFails, options, output, sigint

LEMMA FreadKeeps ==
  ASSUME IInv, NEW from \in MidPlaces, NEW next \in MidPlaces \ {"interval", "file"},
         Fread(from, next)
  PROVE  IInv'
  BY DEF IInv, TypeOK, Held, Fread, AfterRead, MidPlaces, options, output, sigint

LEMMA QuitKeeps ==
  ASSUME IInv, NEW from \in MidPlaces, Quit(from) PROVE IInv'
  BY DEF IInv, TypeOK, Held, Quit, AfterFinish, MidPlaces, options, output, sigint

LEMMA FfinishKeeps ==
  ASSUME IInv, NEW results \in SUBSET {0, 1}, Ffinish(results) PROVE IInv'
  BY DEF IInv, TypeOK, Held, Ffinish, AfterFinish, options, output, sigint

LEMMA GotoKeeps ==
  ASSUME IInv, NEW from \in MidPlaces, NEW next \in MidPlaces, Goto(from, next),
         next \in {"interval", "file"} => n = 0
  PROVE  IInv'
  BY DEF IInv, TypeOK, Held, Goto, MidPlaces, options, output, sigint

LEMMA OneShotsKeep == IInv /\ (CmdProfile \/ IdlePower \/ Overhead \/ Info) => IInv'
  <1> SUFFICES ASSUME IInv, CmdProfile \/ IdlePower \/ Overhead \/ Info PROVE IInv'
    OBVIOUS
  <1>1. ret \in {0, 1} /\ {ret} \subseteq {0, 1} /\ {ret, 1} \subseteq {0, 1}
    BY DEF IInv, TypeOK
  <1> USE FinitKeeps, FinitFailsKeeps, FreadKeeps, QuitKeeps, FfinishKeeps, GotoKeeps
        DEF MidPlaces
  <1>2. CASE CmdProfile
    BY <1>1, <1>2 DEF CmdProfile
  <1>3. CASE IdlePower
    BY <1>1, <1>3 DEF IdlePower
  <1>4. CASE Overhead
    BY <1>1, <1>4 DEF Overhead
  <1>5. CASE Info
    BY <1>1, <1>5 DEF Info, InfoAfterFailure
  <1>6. QED BY <1>2, <1>3, <1>4, <1>5

-----------------------------------------------------------------------------
(* The loops.                                                              *)

LEMMA CheckKeeps == IInv /\ Check => IInv'
  BY GotoKeeps DEF Check, MidPlaces

LEMMA LoadKeeps == IInv /\ LoadRunning => IInv'
  BY DEF IInv, TypeOK, Held, LoadRunning, options, output, sigint

(* The decrement wraps: it stays in the range of the counter.              *)
LEMMA StoreKeeps == IInv /\ StoreRunning => IInv'
  <1> SUFFICES ASSUME IInv, StoreRunning PROVE IInv'
    OBVIOUS
  <1>1. running' \in 0..(Word - 1)
    BY UtilitiesAssumption DEF IInv, TypeOK, StoreRunning, OneLess
  <1>2. QED BY <1>1 DEF IInv, TypeOK, Held, StoreRunning, options, output, sigint

LEMMA WriteKeeps ==
  ASSUME IInv, NEW over \in BOOLEAN, Write(over) PROVE IInv'
  <1>1. n' \in 0..MaxReads /\ lines' \in 0..MaxReads /\ after' \in 0..MaxReads
    BY UtilitiesAssumption DEF IInv, TypeOK, Write, Capped
  <1>2. pc' \in {"sleep", "check"} /\ pc = "write"
    BY DEF Write
  <1>3. QED BY <1>1, <1>2 DEF IInv, TypeOK, Held, Write, options

LEMMA WriteFailsKeeps == IInv /\ WriteFails => IInv'
  BY DEF IInv, TypeOK, Held, WriteFails, options, output, sigint

LEMMA LoopsKeep == IInv /\ (PowerPoller \/ FileProvider) => IInv'
  <1> SUFFICES ASSUME IInv, PowerPoller \/ FileProvider PROVE IInv'
    OBVIOUS
  <1>1. {ret} \subseteq {0, 1}
    BY DEF IInv, TypeOK
  <1>2. is_rewind \in BOOLEAN /\ FALSE \in BOOLEAN
    BY DEF IInv, TypeOK
  <1>3. pc = "interval" => n = 0
    BY DEF IInv, Held
  <1>4. ASSUME Goto("interval", "file") PROVE IInv'
    BY <1>3, <1>4, GotoKeeps DEF Goto, MidPlaces
  <1>5. ASSUME Goto("file", "first") \/ Goto("sleep", "check") \/ Goto("file", "check")
        PROVE  IInv'
    BY <1>5, GotoKeeps DEF MidPlaces
  <1>6. ASSUME NoFile, util = "file-provider" PROVE IInv'
    BY <1>6 DEF NoFile, IInv, TypeOK, Held, options, output, sigint
  <1>7. ASSUME ReopenFails PROVE IInv'
    BY <1>7 DEF ReopenFails, IInv, TypeOK, Held, options, output, sigint
  <1>8. CASE PowerPoller
    BY <1>1, <1>2, <1>4, <1>5, <1>8, FinitKeeps, FinitFailsKeeps, FreadKeeps, QuitKeeps,
       FfinishKeeps, CheckKeeps, LoadKeeps, StoreKeeps, WriteKeeps, WriteFailsKeeps
       DEF PowerPoller, MidPlaces
  <1>9. CASE FileProvider
    BY <1>1, <1>2, <1>4, <1>5, <1>6, <1>7, <1>9, FinitKeeps, FinitFailsKeeps, FreadKeeps,
       QuitKeeps, FfinishKeeps, CheckKeeps, LoadKeeps, StoreKeeps, WriteKeeps, WriteFailsKeeps
       DEF FileProvider, MidPlaces
  <1>10. QED BY <1>8, <1>9

-----------------------------------------------------------------------------
LEMMA InitEstablishes == Init => IInv
  <1> SUFFICES ASSUME Init PROVE IInv
    OBVIOUS
  <1>1. asked \in 0..(Word - 1) /\ 0 \in 0..(Word - 1) /\ 0 \in 0..MaxReads
    BY UtilitiesAssumption DEF Init
  <1>2. interrupted \in BOOLEAN /\ raced \in BOOLEAN /\ after \in 0..MaxReads
    BY Zenon, <1>1 DEF Init
  <1>3. QED BY <1>1, <1>2 DEF Init, IInv, TypeOK, Held

(* A SIGINT and the kill of a tool change nothing of the energymon.        *)
LEMMA StepPreserves == IInv /\ [Next]_vars => IInv'
  <1> SUFFICES ASSUME IInv, [Next]_vars PROVE IInv'
    OBVIOUS
  <1>1. CASE Tool
    BY <1>1, OneShotsKeep, LoopsKeep DEF Tool
  <1>2. CASE Signal
    <2>1. /\ running' \in 0..(Word - 1) /\ interrupted' \in BOOLEAN /\ raced' \in BOOLEAN
          /\ UNCHANGED <<options, pc, ret, em, loaded, n, lines, after>>
      BY <1>2, UtilitiesAssumption DEF Signal, RunningAfterSignal, output
    <2>2. QED BY <1>2, <2>1 DEF Signal, IInv, TypeOK, Held, options, output, sigint
  <1>3. CASE Killed
    BY <1>3 DEF Killed, IInv, TypeOK, Held, options, output, sigint
  <1>4. CASE Ended \/ UNCHANGED vars
    BY <1>4 DEF Ended, vars, IInv, TypeOK, Held, options, output, sigint
  <1>5. QED BY <1>1, <1>2, <1>3, <1>4 DEF Next

THEOREM Invariance == Spec => []IInv
  BY InitEstablishes, StepPreserves, PTL DEF Spec

(* Every variable keeps its type: the counter of the loops, too, which may *)
(* wrap.                                                                   *)
THEOREM TypeCorrect == Spec => []TypeOK
  <1>1. IInv => TypeOK
    BY DEF IInv
  <1>2. QED BY <1>1, Invariance, PTL

(* Each tool finishes what it initialised, once, on every way out but one. *)
THEOREM ToolsKeepTheLifeCycle == Spec => []LifeCycle
  <1>1. IInv => LifeCycle
    BY DEF IInv, Held, LifeCycle
  <1>2. QED BY <1>1, Invariance, PTL
-----------------------------------------------------------------------------
(* What the tools that loop do: they go to another place, ...              *)
Moves(from, next) ==
  /\ pc = from /\ pc' = next
  /\ UNCHANGED <<options, running, loaded, output, sigint>>

(* ... at the places that follow each other without a write, ...           *)
Ahead ==
  \/ /\ ret' = ret
     /\ \/ Moves("start", "interval") \/ Moves("interval", "file")
        \/ Moves("file", "first") \/ Moves("file", "check") \/ Moves("first", "sleep")
        \/ Moves("sleep", "check") \/ Moves("read", "write") \/ Moves("finish", "done")
        \/ (running = 0 /\ Moves("check", "finish"))
        \/ (running # 0 /\ count /\ Moves("check", "load"))
        \/ (running # 0 /\ ~count /\ Moves("check", "read"))
  \/ /\ ret' = 1
     /\ \/ Moves("start", "done") \/ Moves("interval", "done") \/ Moves("file", "done")
        \/ Moves("read", "finish") \/ Moves("write", "finish")

(* ... count down, or write.                                               *)
LoopStep ==
  /\ util \in Loops
  /\ Ahead \/ LoadRunning \/ StoreRunning \/ Write(util = "file-provider" /\ is_rewind)

LEMMA NextCases ==
  ASSUME IInv, [Next]_vars
  PROVE  \/ LoopStep \/ Signal \/ UNCHANGED vars
         \/ CmdProfile \/ IdlePower \/ Overhead \/ Info \/ Killed
  <1>1. CASE PowerPoller
    BY <1>1 DEF PowerPoller, Finit, FinitFails, Fread, Quit, Ffinish, Goto, Check, WriteFails,
                LoopStep, Ahead, Moves, Loops, Write
  <1>2. CASE FileProvider
    <2>1. is_rewind \in BOOLEAN
      BY DEF IInv, TypeOK
    <2>2. QED
      BY <1>2, <2>1 DEF FileProvider, Finit, FinitFails, Fread, Quit, Ffinish, Goto, Check,
                 WriteFails, NoFile, ReopenFails, LoopStep, Ahead, Moves, Loops, Write
  <1>3. QED BY <1>1, <1>2 DEF Next, Tool, Ended

LEMMA NextIsLoopStep ==
  ASSUME IInv, [Next]_vars
  PROVE  \/ LoopStep \/ Signal \/ UNCHANGED vars
         \/ util \in OneShots /\ UNCHANGED <<options, output, running, sigint>>
  <1>1. CASE CmdProfile \/ IdlePower \/ Overhead \/ Info \/ Killed
    <2>1. util \in OneShots
      BY <1>1 DEF CmdProfile, IdlePower, Overhead, Info, Killed, OneShots
    <2>2. UNCHANGED <<options, output, running, sigint>>
      BY <1>1 DEF CmdProfile, IdlePower, Overhead, Info, Killed, Finit, FinitFails, Fread,
                  Quit, Ffinish, Goto
    <2>3. QED BY <2>1, <2>2
  <1>2. QED BY <1>1, NextCases

-----------------------------------------------------------------------------
(* A reading that is taken and not yet written.                            *)
Pending == IF pc \in {"read", "write"} THEN 1 ELSE 0

(* Only running-- ever undoes what the handler did, and the one reading    *)
(* that may still be written is the one in progress when SIGINT came.      *)
SignalShape ==
  /\ interrupted => util \in Loops
  /\ ~count => pc \notin {"load", "store"} /\ ~raced
  /\ ~interrupted => after = 0 /\ ~raced
  /\ interrupted /\ ~raced =>
       running = 0 /\ pc \notin {"load", "store"} /\ after + Pending <= 1

Rank == CASE pc = "start" -> 7
          [] pc = "interval" -> 6
          [] pc = "file" -> 5
          [] pc \in {"first", "read"} -> 4
          [] pc \in {"sleep", "write"} -> 3
          [] pc = "check" -> 2
          [] pc = "finish" -> 1
          [] OTHER -> 0

LEMMA SignalShapeStep == IInv /\ SignalShape /\ [Next]_vars => SignalShape'
  <1> SUFFICES ASSUME IInv, SignalShape, [Next]_vars PROVE SignalShape'
    OBVIOUS
  <1>0. after \in Nat /\ MaxReads \in Nat \ {0}
    BY UtilitiesAssumption DEF IInv, TypeOK
  <1>1. CASE UNCHANGED vars
    BY <1>1 DEF vars, options, sigint, Pending, SignalShape
  <1>2. CASE Signal
    <2>1. /\ running' = 0 /\ interrupted' = TRUE /\ raced' = (pc \in {"load", "store"})
          /\ UNCHANGED <<util, count, pc, after>> /\ util \in Loops /\ ~interrupted
      BY <1>2 DEF Signal, RunningAfterSignal, options
    <2>2. after' = 0 /\ Pending' \in {0, 1}
      BY <2>1 DEF SignalShape, Pending
    <2>3. after' + Pending' <= 1
      BY <2>2 DEF Pending
    <2>4. /\ ~count => pc \notin {"load", "store"}
          /\ raced' => pc \in {"load", "store"}
          /\ ~raced' => pc' \notin {"load", "store"}
      BY <2>1, Zenon DEF SignalShape
    <2>5. QED BY <2>1, <2>3, <2>4 DEF SignalShape
  <1>3. CASE CmdProfile \/ IdlePower \/ Overhead \/ Info \/ Killed
    <2>1. util \in OneShots /\ UNCHANGED <<options, running, sigint>>
      BY <1>3 DEF CmdProfile, IdlePower, Overhead, Info, Killed, OneShots, Finit, FinitFails,
                  Fread, Quit, Ffinish, Goto
    <2>2. pc' \notin {"load", "store"}
      BY <1>3 DEF CmdProfile, IdlePower, Overhead, Info, InfoAfterFailure, Killed, Finit,
                  FinitFails, Fread, Quit, Ffinish, Goto
    <2>3. util \notin Loops
      BY <2>1 DEF Loops, OneShots
    <2>4. QED BY <2>1, <2>2, <2>3 DEF options, sigint, SignalShape
  <1>4. CASE LoopStep
    <2>1. UNCHANGED <<util, count, interrupted, raced>>
      BY <1>4 DEF LoopStep, Ahead, Moves, LoadRunning, StoreRunning, Write, options, sigint
    <2>2. /\ ~count => pc' \notin {"load", "store"}
          /\ ~interrupted => after' = after
      BY <1>4 DEF LoopStep, Ahead, Moves, LoadRunning, StoreRunning, Write, options, sigint,
                  SignalShape
    <2>3. ASSUME interrupted, ~raced
          PROVE  running' = 0 /\ pc' \notin {"load", "store"} /\ after' + Pending' <= 1
      <3>1. running = 0 /\ pc \notin {"load", "store"} /\ after + Pending <= 1
        BY <2>3 DEF SignalShape
      <3>2. CASE Ahead
        BY <1>0, <3>1, <3>2 DEF Ahead, Moves, sigint, Pending
      <3>3. CASE Write(util = "file-provider" /\ is_rewind)
        <4>1. after = 0 /\ Pending' = 0 /\ running' = running /\ pc' \in {"sleep", "check"}
          BY <1>0, <3>1, <3>3 DEF Write, Pending
        <4>2. after' = Capped(0 + 1) /\ Capped(0 + 1) = 1
          BY <1>0, <2>3, <3>3, <4>1 DEF Write, Capped
        <4>3. QED BY <3>1, <4>1, <4>2
      <3>4. QED BY <1>4, <3>1, <3>2, <3>3 DEF LoopStep, LoadRunning, StoreRunning
    <2>4. QED BY <2>1, <2>2, <2>3 DEF SignalShape
  <1>5. QED BY <1>1, <1>2, <1>3, <1>4, NextCases

(* SIGINT in a loop, with a count or without, that running-- does not      *)
(* overwrite: at most one more reading is written, and every step of the   *)
(* tool from then on is one towards its end, which is at most seven steps  *)
(* away, whichever step the signal fell in.  That these steps are taken is *)
(* InterruptEnds.                                                          *)
THEOREM InterruptIsShort ==
  Spec => /\ [](Rank \in 0..7)
          /\ [](interrupted /\ ~raced => after <= 1)
          /\ [][interrupted /\ ~raced => Rank' < Rank]_vars
  <1>1. Init => SignalShape
    BY DEF Init, SignalShape
  <1>2. ASSUME IInv, SignalShape, [Next]_vars, interrupted, ~raced
        PROVE  Rank' < Rank \/ UNCHANGED vars
    <2>1. util \in Loops /\ running = 0 /\ pc \notin {"load", "store"}
      BY <1>2 DEF SignalShape
    <2>2. ~(CmdProfile \/ IdlePower \/ Overhead \/ Info \/ Killed) /\ ~Signal
      BY <1>2, <2>1 DEF CmdProfile, IdlePower, Overhead, Info, Killed, Signal, OneShots, Loops
    <2>3. LoopStep => Rank' < Rank
      BY <2>1 DEF LoopStep, Ahead, Moves, LoadRunning, StoreRunning, Write, Rank
    <2>4. QED BY <1>2, <2>2, <2>3, NextCases
  <1>3. IInv /\ SignalShape /\ [Next]_vars => [interrupted /\ ~raced => Rank' < Rank]_vars
    BY <1>2
  <1>4. Rank \in 0..7
    BY DEF Rank
  <1>5. IInv /\ SignalShape => (interrupted /\ ~raced => after <= 1)
    BY DEF SignalShape, Pending, IInv, TypeOK
  <1>6. QED BY <1>1, <1>3, <1>4, <1>5, SignalShapeStep, Invariance, PTL DEF Spec

-----------------------------------------------------------------------------
(* The countdown of -c N, as long as no SIGINT comes in between: what was  *)
(* written, what is being written and what is left make up N.              *)
Countdown ==
  /\ pc \in {"load", "store"} => running > 0
  /\ pc = "store" => loaded = running
  /\ ret = 0 \/ pc \in {"finish", "done"}
  /\ running + Pending <= asked /\ n <= asked
  /\ ret = 0 => n = Capped(asked - running - Pending)
  /\ ret = 0 /\ pc \in {"finish", "done"} => running = 0

CountInv ==
  /\ count => util \in Loops
  /\ count /\ ~interrupted => Countdown
  /\ count /\ ~raced => n + Pending <= asked

LEMMA CountdownStep ==
  ASSUME IInv, CountInv, LoopStep, count, ~interrupted PROVE Countdown'
  <1>1. Countdown
    BY DEF CountInv
  <1>2. /\ running \in Nat /\ running < Word /\ asked \in Nat /\ n \in Nat /\ n <= MaxReads
        /\ MaxReads \in Nat \ {0} /\ Word \in Nat \ {0} /\ ret \in {0, 1}
    BY UtilitiesAssumption DEF IInv, TypeOK
  <1>3. CASE Ahead
    <2>1. UNCHANGED <<asked, running, loaded, n>>
      BY <1>3 DEF Ahead, Moves, options, output
    <2>2. QED BY <1>1, <1>2, <1>3, <2>1 DEF Ahead, Moves, Countdown, Pending, Capped
  <1>4. CASE LoadRunning
    BY <1>1, <1>2, <1>4 DEF LoadRunning, options, output, Countdown, Pending, Capped
  <1>5. CASE StoreRunning
    <2>1. running' = running - 1
      BY <1>1, <1>2, <1>5 DEF StoreRunning, OneLess, Countdown
    <2>2. QED
      BY <1>1, <1>2, <1>5, <2>1 DEF StoreRunning, options, output, Countdown, Pending, Capped
  <1>6. CASE pc = "write" /\ Write(util = "file-provider" /\ is_rewind)
    <2>1. /\ n' = Capped(n + 1) /\ pc' \in {"sleep", "check"}
          /\ UNCHANGED <<asked, running, loaded, ret>>
      BY <1>6 DEF Write, options
    <2>2. ret = 0 /\ running + 1 <= asked /\ n = Capped(asked - running - 1)
      BY <1>1, <1>2, <1>6 DEF Countdown, Pending
    <2>3. n' = Capped(asked - running) /\ n' <= asked
      BY <1>2, <2>1, <2>2 DEF Capped
    <2>4. QED BY <1>2, <2>1, <2>2, <2>3 DEF Countdown, Pending, Capped
  <1>7. QED BY <1>3, <1>4, <1>5, <1>6 DEF LoopStep, Write

(* What is written and being written fits what was asked for.              *)
LEMMA RoomIsLeft ==
  ASSUME MaxReads \in Nat, NEW written \in Nat, NEW N \in Nat, NEW left \in Nat,
         NEW taken \in 0..1, left + taken <= N, written <= N,
         written = Capped(N - left - taken) \/ taken = 0
  PROVE  written + taken <= N
  BY DEF Capped

LEMMA CountStep == IInv /\ SignalShape /\ CountInv /\ [Next]_vars => CountInv'
  <1> SUFFICES ASSUME IInv, SignalShape, CountInv, [Next]_vars PROVE CountInv'
    OBVIOUS
  <1>0. /\ n \in Nat /\ asked \in Nat /\ running \in Nat /\ MaxReads \in Nat \ {0}
        /\ Word \in Nat \ {0}
    BY UtilitiesAssumption DEF IInv, TypeOK
  <1>1. CASE UNCHANGED vars
    BY <1>1 DEF vars, options, output, sigint, CountInv, Countdown, Pending, Capped
  <1>2. CASE Signal
    BY <1>2 DEF Signal, options, output, Pending, SignalShape, CountInv
  <1>3. CASE util \in OneShots /\ UNCHANGED <<options, output, running, sigint>>
    BY <1>3 DEF options, CountInv, Loops, OneShots
  <1>4. CASE LoopStep
    <2>1. UNCHANGED <<count, asked, util, interrupted, raced>>
      BY <1>4 DEF LoopStep, Ahead, Moves, LoadRunning, StoreRunning, Write, options, sigint
    <2>2. count /\ ~interrupted => Countdown'
      BY <1>4, CountdownStep
    <2>3. ASSUME count, ~raced, interrupted PROVE n' + Pending' <= asked
      <3>1. running = 0 /\ pc \notin {"load", "store"} /\ n + Pending <= asked
        BY <2>3 DEF SignalShape, CountInv
      <3>2. CASE Ahead
        BY <1>0, <3>1, <3>2 DEF Ahead, Moves, output, Pending
      <3>3. CASE Write(util = "file-provider" /\ is_rewind)
        BY <1>0, <3>1, <3>3 DEF Write, Capped, Pending
      <3>4. QED BY <1>4, <3>1, <3>2, <3>3 DEF LoopStep, LoadRunning, StoreRunning
    <2>4. ASSUME count, ~interrupted PROVE n' + Pending' <= asked
      <3>1. IInv'
        BY StepPreserves
      <3>2. n' \in Nat /\ asked' \in Nat /\ running' \in Nat
        BY <3>1, UtilitiesAssumption DEF IInv, TypeOK
      <3>3. asked' = asked /\ Countdown' /\ Pending' \in {0, 1}
        BY <2>1, <2>2, <2>4 DEF Pending
      <3>4. /\ running' + Pending' <= asked /\ n' <= asked
            /\ ret' = 0 => n' = Capped(asked - running' - Pending')
            /\ ret' = 0 \/ pc' \in {"finish", "done"}
        BY <3>3 DEF Countdown
      <3>5. Pending' \in 0..1 /\ (pc' \in {"finish", "done"} => Pending' = 0)
        BY DEF Pending
      <3>6. MaxReads \in Nat
        BY <1>0
      <3>7. n' = Capped(asked - running' - Pending') \/ Pending' = 0
        BY <3>4, <3>5
      <3>8. QED BY <1>0, <3>2, <3>4, <3>5, <3>6, <3>7, RoomIsLeft
    <2>5. QED BY <2>1, <2>2, <2>3, <2>4 DEF CountInv
  <1>5. QED BY <1>1, <1>2, <1>3, <1>4, NextIsLoopStep

(* "Stop after N reads": a loop with -c N never writes more than N lines   *)
(* unless running-- overwrote a SIGINT, and one that ends well without a   *)
(* SIGINT has written N (up to where the history counts), for every N that *)
(* fits the counter.                                                       *)
THEOREM OnlyARaceExceedsTheCount ==
  Spec => [](/\ count /\ ~raced => n <= asked
             /\ count /\ ~interrupted /\ pc = "done" /\ ret = 0 => n = Capped(asked))
  <1>1. Init => SignalShape /\ CountInv
    <2>1. SUFFICES ASSUME Init PROVE SignalShape /\ CountInv
      OBVIOUS
    <2>2. asked \in Nat /\ MaxReads \in Nat
      BY <2>1, UtilitiesAssumption DEF Init
    <2>3. pc = "start" /\ ret = 0 /\ n = 0 /\ running = asked
      BY <2>1 DEF Init
    <2>4. count => util \in Loops
      BY <2>1, Zenon DEF Init
    <2>5. Pending = 0 /\ asked - running - 0 = 0 /\ running + 0 = asked /\ Capped(0) = 0
      BY <2>2, <2>3 DEF Pending, Capped
    <2>6. Countdown /\ n + Pending <= asked
      BY <2>2, <2>3, <2>5 DEF Countdown
    <2>7. SignalShape
      BY <2>1 DEF Init, SignalShape
    <2>8. QED BY <2>4, <2>6, <2>7 DEF CountInv
  <1>2. ASSUME IInv, CountInv
        PROVE  /\ count /\ ~raced => n <= asked
               /\ count /\ ~interrupted /\ pc = "done" /\ ret = 0 => n = Capped(asked)
    <2>1. asked \in Nat /\ running \in Nat /\ n \in Nat
      BY <1>2 DEF IInv, TypeOK
    <2>2. QED BY <1>2, <2>1 DEF CountInv, Countdown, Pending
  <1>3. QED BY <1>1, <1>2, CountStep, SignalShapeStep, Invariance, PTL DEF Spec

-----------------------------------------------------------------------------
(* What the output is for every option: the file provider with rewinding   *)
(* keeps the last line only, and everything else keeps them all.           *)
Lines == lines = IF util = "file-provider" /\ is_rewind THEN IF n = 0 THEN 0 ELSE 1 ELSE n

(* The power poller, and the file provider with -n, keep every sample they *)
(* wrote in the output; the file provider that rewinds keeps exactly the   *)
(* last one, also where it writes to standard output.                      *)
THEOREM OutputIsByTheOptions == Spec => []Lines
  <1>1. Init => Lines
    BY DEF Init, Lines
  <1>2. IInv /\ Lines /\ [Next]_vars => Lines'
    <2> SUFFICES ASSUME IInv, Lines, [Next]_vars PROVE Lines'
      OBVIOUS
    <2>1. n \in Nat /\ n <= MaxReads /\ MaxReads \in Nat \ {0}
      BY UtilitiesAssumption DEF IInv, TypeOK
    <2>2. CASE UNCHANGED <<options, output>>
      BY <2>2 DEF options, output, Lines
    <2>3. CASE Write(util = "file-provider" /\ is_rewind)
      BY <2>1, <2>3 DEF Write, Capped, options, Lines
    <2>4. UNCHANGED <<options, output>> \/ Write(util = "file-provider" /\ is_rewind)
      BY NextIsLoopStep DEF LoopStep, Ahead, Moves, LoadRunning, StoreRunning, Signal, vars,
                            output
    <2>5. QED BY <2>2, <2>3, <2>4
  <1>3. QED BY <1>1, <1>2, Invariance, PTL DEF Spec
=============================================================================
