------------------------------ MODULE Utilities ------------------------------
(***************************************************************************)
(* The command line tools of utils/, each the user of one energymon: two   *)
(* that read again and again until a count is reached or SIGINT arrives    *)
(* (energymon-power-poller, energymon-file-provider) and four that run     *)
(* once.  What they read is not modelled, only the calls they make of the  *)
(* energymon and their output.                                             *)
(***************************************************************************)
EXTENDS Integers

CONSTANTS
  MaxCount,   \* the greatest N of -c N that is tried
  MaxReads,   \* bound on what the histories n and lines count
  Word        \* running has the values below Word: 2^64 or, as an int, 2^32
              \* (whose -1 is Word - 1 here; the loops only compare it with 0)

ASSUME UtilitiesAssumption ==
  /\ MaxCount \in Nat /\ MaxReads \in Nat \ {0}
  /\ Word \in Nat \ {0} /\ MaxCount < Word

VARIABLES
  util, pc, ret,
  em,             \* the energymon: "none", "up", "down", or "misused"
  count, asked,   \* -c was given, and its N
  filename,       \* FILE was given
  is_rewind,      \* -n was not given
  running, loaded,  \* loaded: running--, between its read and its write
  n, lines,       \* history: readings written, and lines in the output
  \* history: SIGINT was handled; it was between the loop's test of running
  \* and the write of running--; the readings written since
  interrupted, raced, after

options == <<util, count, asked, filename, is_rewind>>
output == <<n, lines>>
sigint == <<interrupted, raced, after>>
vars == <<options, pc, ret, em, running, loaded, output, sigint>>

Loops == {"power-poller", "file-provider"}
OneShots == {"cmd-profile", "idle-power", "overhead", "info"}

(* parse_args has been called.                                             *)
Init ==
  /\ util \in Loops \cup OneShots
  /\ count \in BOOLEAN /\ asked \in 0..MaxCount
  /\ filename \in BOOLEAN /\ is_rewind \in BOOLEAN
  /\ util \in OneShots => ~count /\ ~filename
  /\ util # "file-provider" => ~is_rewind
  /\ ~count => asked = 1
  /\ running = asked
  /\ pc = "start" /\ ret = 0 /\ em = "none" /\ loaded = 0
  /\ n = 0 /\ lines = 0
  /\ interrupted = FALSE /\ raced = FALSE /\ after = 0

-----------------------------------------------------------------------------
(* The calls of the energymon, whose order is up to the tool.              *)

AfterRead == IF em = "up" THEN em ELSE "misused"
AfterFinish == IF em = "up" THEN "down" ELSE "misused"

Finit(next) ==
  /\ pc = "start" /\ em' = "up" /\ pc' = next
  /\ UNCHANGED <<options, ret, running, loaded, output, sigint>>

FinitFails(next) ==
  /\ pc = "start" /\ pc' = next /\ ret' = 1
  /\ UNCHANGED <<options, em, running, loaded, output, sigint>>

Fread(from, next) ==
  /\ pc = from /\ em' = AfterRead /\ pc' = next
  /\ UNCHANGED <<options, ret, running, loaded, output, sigint>>

(* Something fails: the energymon is finished and the tool ends.           *)
Quit(from) ==
  /\ pc = from /\ em' = AfterFinish /\ pc' = "done" /\ ret' = 1
  /\ UNCHANGED <<options, running, loaded, output, sigint>>

Ffinish(results) ==
  /\ pc = "finish" /\ em' = AfterFinish /\ pc' = "done" /\ ret' \in results
  /\ UNCHANGED <<options, running, loaded, output, sigint>>

Goto(from, next) ==
  /\ pc = from /\ pc' = next
  /\ UNCHANGED <<options, ret, em, running, loaded, output, sigint>>

-----------------------------------------------------------------------------
(* The tools that run once.                                                *)

CmdProfile ==
  /\ util = "cmd-profile"
  /\ \/ Finit("first") \/ FinitFails("done")
     \/ Fread("first", "command") \/ Quit("first")
     \/ Goto("command", "second")
     \/ Fread("second", "finish") \/ Quit("second")
     \/ Ffinish({ret})

IdlePower ==
  /\ util = "idle-power"
  /\ \/ Finit("first") \/ FinitFails("done")
     \/ Fread("first", "sleep") \/ Quit("first")
     \/ Goto("sleep", "second") \/ Quit("sleep")
     \/ Fread("second", "finish") \/ Quit("second")
     \/ Ffinish({ret})

(* It ends with an error if ffinish does.                                  *)
Overhead ==
  /\ util = "overhead"
  /\ \/ Finit("first") \/ FinitFails("done")
     \/ Fread("first", "finish") \/ Quit("first")
     \/ Ffinish({ret, 1})

(* A failed finit does not end it, but there is nothing to finish then; a  *)
(* version that finishes all the same.                                     *)
InfoFinishes == "finish"
InfoAfterFailure == "done"

Info ==
  /\ util = "info"
  /\ \/ Finit("first") \/ FinitFails(InfoAfterFailure)
     \/ Fread("first", "finish")
     \/ Ffinish({ret})

-----------------------------------------------------------------------------
(* The loops.                                                              *)

(* while (running) { if (count) running--; ... }                           *)
Check ==
  \/ running = 0 /\ Goto("check", "finish")
  \/ running # 0 /\ count /\ Goto("check", "load")
  \/ running # 0 /\ ~count /\ Goto("check", "read")

LoadRunning ==
  /\ pc = "load" /\ pc' = "store" /\ loaded' = running
  /\ UNCHANGED <<options, ret, em, running, output, sigint>>

(* Unsigned, and a version that is not.                                    *)
OneLessSigned(r) == r - 1
OneLess(r) == (r - 1) % Word

StoreRunning ==
  /\ pc = "store" /\ pc' = "read" /\ running' = OneLess(loaded)
  /\ UNCHANGED <<options, ret, em, loaded, output, sigint>>

Capped(k) == IF k > MaxReads THEN MaxReads ELSE k

(* A line is written; "over" what the output had before, or after it.  The *)
(* output is a regular file: one named FILE, or what the shell has         *)
(* redirected standard output to, which freopen(NULL, "w", ...) empties.   *)
Write(over) ==
  /\ pc = "write"
  /\ n' = Capped(n + 1) /\ lines' = IF over THEN 1 ELSE Capped(lines + 1)
  /\ after' = IF interrupted THEN Capped(after + 1) ELSE after
  /\ pc' = IF running # 0 THEN "sleep" ELSE "check"
  /\ UNCHANGED <<options, ret, em, running, loaded, interrupted, raced>>

WriteFails ==
  /\ pc = "write" /\ pc' = "finish" /\ ret' = 1
  /\ UNCHANGED <<options, em, running, loaded, output, sigint>>

(* The sleep ends when its time is over, or at a signal once running is 0. *)
PowerPoller ==
  /\ util = "power-poller"
  /\ \/ Finit("interval") \/ FinitFails("done")
     \/ Goto("interval", "file") \/ Quit("interval")
     \/ Goto("file", "first") \/ (filename /\ Quit("file"))
     \/ Fread("first", "sleep") \/ Goto("sleep", "check")
     \/ Check \/ LoadRunning \/ StoreRunning
     \/ Fread("read", "write") \/ Write(FALSE) \/ WriteFails
     \/ Ffinish({ret})

(* If FILE cannot be opened the energymon is not finished.                 *)
NoFile ==
  /\ pc = "file" /\ filename /\ pc' = "done" /\ ret' = 1
  /\ UNCHANGED <<options, em, running, loaded, output, sigint>>

(* freopen of the output, FILE or not, fails.                              *)
ReopenFails ==
  /\ pc = "read" /\ is_rewind /\ pc' = "finish" /\ ret' = 1
  /\ UNCHANGED <<options, em, running, loaded, output, sigint>>

FileProvider ==
  /\ util = "file-provider"
  /\ \/ Finit("interval") \/ FinitFails("done")
     \/ Goto("interval", "file") \/ Quit("interval")
     \/ Goto("file", "check") \/ NoFile
     \/ Check \/ LoadRunning \/ StoreRunning \/ ReopenFails
     \/ Fread("read", "write") \/ Write(is_rewind) \/ WriteFails
     \/ Goto("sleep", "check")
     \/ Ffinish({ret})

-----------------------------------------------------------------------------
(* shandle, and a version that does not touch running.                     *)
RunningKept == running
RunningAfterSignal == 0

Signal ==
  /\ util \in Loops /\ pc # "done" /\ ~interrupted
  /\ running' = RunningAfterSignal
  /\ interrupted' = TRUE /\ raced' = (pc \in {"load", "store"})
  /\ UNCHANGED <<options, pc, ret, em, loaded, output, after>>

(* The other tools have no handler; system ignores SIGINT meanwhile.       *)
Killed ==
  /\ util \in OneShots /\ pc \notin {"done", "killed", "command"}
  /\ pc' = "killed"
  /\ UNCHANGED <<options, ret, em, running, loaded, output, sigint>>

Ended == pc \in {"done", "killed"} /\ UNCHANGED vars

Tool == CmdProfile \/ IdlePower \/ Overhead \/ Info \/ PowerPoller \/ FileProvider

Next == Tool \/ Signal \/ Killed \/ Ended

(* A tool that can go on does: calls return and sleeps end.                *)
Spec == Init /\ [][Next]_vars /\ WF_vars(Tool)

-----------------------------------------------------------------------------
(* Every variable has its type.                                            *)
TypeOK ==
  /\ util \in Loops \cup OneShots
  /\ pc \in {"start", "interval", "file", "first", "command", "second", "check", "load",
             "store", "read", "write", "sleep", "finish", "done", "killed"}
  /\ ret \in {0, 1} /\ em \in {"none", "up", "down", "misused"}
  /\ count \in BOOLEAN /\ asked \in 0..MaxCount
  /\ filename \in BOOLEAN /\ is_rewind \in BOOLEAN
  /\ running \in 0..(Word - 1) /\ loaded \in 0..(Word - 1)
  /\ n \in 0..MaxReads /\ lines \in 0..MaxReads
  /\ interrupted \in BOOLEAN /\ raced \in BOOLEAN /\ after \in 0..MaxReads

(* Each tool reads and finishes its energymon only between a successful    *)
(* finit and ffinish, and on every way out of main, through any failure    *)
(* and any moment of a SIGINT, it has finished what it initialised; but    *)
(* energymon-file-provider forgets to where FILE cannot be opened.         *)
LifeCycle ==
  /\ em # "misused"
  /\ pc = "done" /\ em = "up" => util = "file-provider" /\ filename /\ n = 0 /\ ret = 1

(* "the program loops until interrupted with CTRL-C": SIGINT ends a loop,  *)
(* with a count or without, after at most one more reading, whichever step *)
(* it falls in, unless running-- overwrites it: between its test of        *)
(* running and its write of running-- a loop with a count misses it.       *)
InterruptEnds == interrupted /\ ~raced ~> pc = "done" /\ after <= 1

(* utils/energymon-file-provider.c, print_usage: a new line is written for *)
(* each sample with -n, and "This option is implied when using standard    *)
(* output by default."                                                     *)
OutputKept == util = "file-provider" /\ ~filename => lines = n

(* "Stop after N reads": not if SIGINT comes between the two halves of the *)
(* loop's while (running) and running--, which then wraps.                 *)
StopsAfterCount == count => n <= asked
=============================================================================
