----------------------- MODULE PollingMonitorsProofs -----------------------
(***************************************************************************)
(* The safety of the seven implementations of PollingMonitors, for every   *)
(* number of sensors, range of powers, set of boards and of timestamps.    *)
(***************************************************************************)
EXTENDS PollingMonitors, TLAPS

(* What the board of a Jetson has to do with it: the search for default    *)
(* rails ends at a family that is not complete.                            *)
NoRails == FamiliesSeen # {} /\ ~Complete(DefaultNames)
Lost == impl = "jetson" /\ NoRails /\ held = {}

(* Where finit or ffinish is tells what there is of the state, the thread  *)
(* and the pointer to the state.                                           *)
CallShape ==
  /\ pc # "idle" => allocated
  /\ pc = "idle" => published = allocated \/ impl = "osp3"
  /\ pc = "idle" /\ allocated => published
  /\ pc = "opening" /\ impl = "ibmpowernv" => published
  /\ ~allocated => held = {}
  /\ allocated => count \in Sensors

ThreadShape ==
  /\ tpc # "none" => allocated /\ pc \in {"idle", "stop", "cancel", "join"}
  /\ tpc # "abandoned"
  /\ pc = "idle" /\ allocated /\ impl # "ibmpowernv" => poll_sensors /\ tpc # "none"
  /\ pc = "stop" /\ tpc # "none" => poll_sensors
  /\ impl = "ibmpowernv" =>
       /\ tpc = "none" /\ ~poll_sensors
       /\ pc \in {"idle", "opening", "stop", "release"}
  /\ tpc = "read" => i \in 1..count

(* What an implementation can hold, so that its clean-up gives all back.   *)
HeldShape ==
  /\ impl \in {"zcu102", "odroid_ioctl"} => held \subseteq Sensors /\ (allocated => count = N)
  /\ impl \in {"ibmpowernv", "ibmpowernv_power", "osp_polling"} =>
       held \subseteq {0, 1} /\ (allocated => count = 1)
  /\ impl = "osp_polling" /\ allocated => 0 \in held
  /\ impl = "osp3" => held \subseteq {1} /\ (allocated => count = 1)
  /\ impl = "jetson" /\ allocated => held = 1..count \/ Lost

(* Everything is open once the thread is about to be made.                 *)
OpenShape ==
  allocated /\ (pc \in {"idle", "creating"} \/ tpc # "none") => AllOpen \/ Lost

SessionInv == SessionTypeOK /\ CallShape /\ ThreadShape /\ HeldShape /\ OpenShape
IInv == SessionInv /\ JetsonTypeOK /\ Osp3TypeOK

Shapes == CallShape /\ ThreadShape /\ HeldShape /\ OpenShape

-----------------------------------------------------------------------------
LEMMA BoardDecides == board' = board => (NoRails' <=> NoRails)
  BY Zenon DEF NoRails, FamiliesSeen, Complete, DefaultNames, RailsFound

(* What the search loops and the table of intervals choose from has a      *)
(* least element.                                                          *)
LEMMA LeastOfFew ==
  ASSUME NEW S, S \subseteq 1..6, S # {} PROVE \E n \in S : \A m \in S : n <= m
  <1>1. CASE 1 \in S
    BY <1>1
  <1>2. CASE 1 \notin S /\ 2 \in S
    BY <1>2
  <1>3. CASE 1 \notin S /\ 2 \notin S /\ 3 \in S
    BY <1>3
  <1>4. CASE 1 \notin S /\ 2 \notin S /\ 3 \notin S /\ 4 \in S
    BY <1>4
  <1>5. CASE S \subseteq {5, 6} /\ 5 \in S
    BY <1>5
  <1>6. CASE S = {6}
    BY <1>6
  <1>7. S \subseteq {1, 2, 3, 4, 5, 6}
    OBVIOUS
  <1>8. QED BY <1>1, <1>2, <1>3, <1>4, <1>5, <1>6, <1>7

(* The first family whose first rail is on the board has a list of rails.  *)
LEMMA DefaultNamesExist == FamiliesSeen # {} => Len(DefaultNames) \in Nat \ {0}
  <1>1. FamiliesSeen \subseteq 1..5 /\ FamiliesSeen \subseteq 1..6
    BY DEF FamiliesSeen, DEFAULT_RAIL_NAMES
  <1>2. FamiliesSeen # {} => \E g \in FamiliesSeen : \A h \in FamiliesSeen : g <= h
    BY <1>1, LeastOfFew
  <1>3. FamiliesSeen # {} => \E g \in 1..5 : DefaultNames = DEFAULT_RAIL_NAMES[g]
    <2>1. SUFFICES ASSUME FamiliesSeen # {}
                   PROVE  \E g \in 1..5 : DefaultNames = DEFAULT_RAIL_NAMES[g]
      OBVIOUS
    <2> DEFINE first == CHOOSE g \in FamiliesSeen : \A h \in FamiliesSeen : g <= h
    <2>2. \E g \in FamiliesSeen : \A h \in FamiliesSeen : g <= h
      BY <2>1, <1>2
    <2>3. first \in FamiliesSeen
      BY <2>2, Zenon
    <2>4. DefaultNames = DEFAULT_RAIL_NAMES[first]
      BY DEF DefaultNames
    <2>5. QED BY <2>3, <2>4, <1>1, Zenon
  <1>4. \A g \in 1..5 : Len(DEFAULT_RAIL_NAMES[g]) \in Nat \ {0}
    BY DEF DEFAULT_RAIL_NAMES
  <1>5. QED BY <1>3, <1>4

(* A step that leaves everything alone.                                    *)
LEMMA SessionStutters ==
  ASSUME SessionInv, UNCHANGED <<session, board>> PROVE SessionInv'
  <1> USE DEF SessionInv, session, call, pass, history
  <1>1. SessionTypeOK'
    BY DEF SessionTypeOK, Sensors, Library
  <1>2. Shapes'
    BY BoardDecides
       DEF Shapes, CallShape, ThreadShape, HeldShape, OpenShape, AllOpen, Lost, Sensors, Library
  <1>3. QED BY <1>1, <1>2 DEF Shapes

-----------------------------------------------------------------------------
(* The polling thread: each of its steps leaves the call alone and the     *)
(* thread running or at its end.                                           *)
LEMMA ThreadKeepsShapes ==
  ASSUME SessionInv, UNCHANGED <<call, board, poll_sensors>>,
         tpc \notin {"none", "exited"}, tpc' \notin {"none", "abandoned"},
         tpc' = "read" => i' \in 1..count
  PROVE  Shapes'
  <1> USE DEF SessionInv, call
  <1>1. CallShape' /\ HeldShape'
    BY BoardDecides DEF CallShape, HeldShape, Lost, Sensors
  <1>2. ThreadShape'
    BY DEF ThreadShape
  <1>3. OpenShape'
    BY BoardDecides DEF OpenShape, ThreadShape, AllOpen, Lost, Library
  <1>4. QED BY <1>1, <1>2, <1>3 DEF Shapes

LEMMA ThreadStartKeeps ==
  ASSUME SessionInv, UNCHANGED board, NEW next \in {"head", "sleep"}, ThreadStart(next)
  PROVE  SessionInv'
  <1> USE DEF SessionInv, ThreadStart, call, pass, history
  <1>1. SessionTypeOK'
    BY DEF SessionTypeOK, Sensors, Library
  <1>2. Shapes'
    BY ThreadKeepsShapes
  <1>3. QED BY <1>1, <1>2 DEF Shapes

LEMMA StartPassKeeps ==
  ASSUME SessionInv, UNCHANGED board, StartPass PROVE SessionInv'
  <1> USE PollingAssumption DEF SessionInv, StartPass, call, history
  <1>1. SessionTypeOK'
    BY DEF SessionTypeOK, Sensors, Library
  <1>2. 1 \in 1..count
    BY DEF ThreadShape, CallShape, Sensors
  <1>3. Shapes'
    BY <1>2, ThreadKeepsShapes
  <1>4. QED BY <1>1, <1>3 DEF Shapes

LEMMA LeaveLoopKeeps ==
  ASSUME SessionInv, UNCHANGED board, LeaveLoop PROVE SessionInv'
  <1> USE DEF SessionInv, LeaveLoop, call, pass, history
  <1>1. SessionTypeOK'
    BY DEF SessionTypeOK, Sensors, Library
  <1>2. Shapes'
    BY ThreadKeepsShapes
  <1>3. QED BY <1>1, <1>2 DEF Shapes

LEMMA ActOnCancelKeeps ==
  ASSUME SessionInv, UNCHANGED board, NEW points \in SUBSET {"sleep", "read"},
         ActOnCancel(points)
  PROVE  SessionInv'
  <1> USE DEF SessionInv, ActOnCancel, call, pass, history
  <1>1. SessionTypeOK'
    BY DEF SessionTypeOK, Sensors, Library
  <1>2. Shapes'
    BY ThreadKeepsShapes
  <1>3. QED BY <1>1, <1>2 DEF Shapes

(* A reading is a number, whether the file was open or not.                *)
LEMMA PowersAreNaturals == \A s : PowerOf(s) \subseteq Nat
  BY PollingAssumption DEF PowerOf

LEMMA ReadSensorKeeps ==
  ASSUME SessionInv, UNCHANGED board, NEW mayBeEmpty \in BOOLEAN, ReadSensor(mayBeEmpty)
  PROVE  SessionInv'
  <1> USE PollingAssumption DEF SessionInv, call, history
  <1>1. i \in 1..count /\ count \in 1..N /\ i \in Nat
    BY DEF ReadSensor, ThreadShape, CallShape, Sensors
  <1>2. /\ i' = i + 1 /\ i' \in 1..(N + 1)
        /\ sum_w' \in Nat /\ failed' \in {"no", "empty", "error"}
        /\ tpc = "read" /\ tpc' \in {"read", "account"}
        /\ tpc' = "read" => i' \in 1..count
    <2>1. sum_w' \in Nat
      BY PowersAreNaturals DEF ReadSensor, SessionTypeOK
    <2>2. failed' \in {"no", "empty", "error"}
      BY DEF ReadSensor, SessionTypeOK
    <2>3. QED BY <1>1, <2>1, <2>2 DEF ReadSensor
  <1>3. UNCHANGED <<call, poll_sensors, total_uj, cancelled, passes, history>>
    BY DEF ReadSensor
  <1>4. SessionTypeOK'
    BY <1>2, <1>3 DEF SessionTypeOK, Sensors, Library
  <1>5. Shapes'
    BY <1>2, <1>3, ThreadKeepsShapes
  <1>6. QED BY <1>4, <1>5 DEF Shapes

LEMMA AccountKeeps ==
  ASSUME SessionInv, UNCHANGED board, Account PROVE SessionInv'
  <1> USE PollingAssumption DEF SessionInv, call, pass, history
  <1>1. PICK exec_us \in 1..MaxInterval :
          /\ last_us' = last_us + exec_us
          /\ total_uj' = total_uj + EnergyOf(exec_us)
          /\ covered' = IF failed = "no" THEN covered + exec_us ELSE covered
          /\ partial' = IF failed = "empty" THEN partial + exec_us ELSE partial
          /\ skipped' = IF failed = "error" THEN skipped + exec_us ELSE skipped
    BY DEF Account
  <1>2. EnergyOf(exec_us) \in Nat
    BY DEF EnergyOf, SessionTypeOK
  <1>3. /\ last_us' \in Nat /\ total_uj' \in Nat
        /\ covered' \in Nat /\ partial' \in Nat /\ skipped' \in Nat
    BY <1>1, <1>2 DEF SessionTypeOK
  <1>4. /\ UNCHANGED <<call, poll_sensors, cancelled, pass, passes>>
        /\ tpc = "account" /\ tpc' \in {"sleep", "exited"}
    BY DEF Account
  <1>5. SessionTypeOK'
    BY <1>3, <1>4 DEF SessionTypeOK, Sensors, Library
  <1>6. Shapes'
    BY <1>4, ThreadKeepsShapes
  <1>7. QED BY <1>5, <1>6 DEF Shapes

-----------------------------------------------------------------------------
(* fread and ffinish, which all implementations share.                     *)

LEMMA ReadingKeeps ==
  ASSUME SessionInv, reading' \in Nat,
         UNCHANGED <<board, impl, hasCancel, pc, allocated, published, held, count,
                     poll_sensors, total_uj, tpc, cancelled, pass, passes, history>>
  PROVE  SessionInv'
  <1> USE DEF SessionInv, pass, history
  <1>1. SessionTypeOK'
    BY DEF SessionTypeOK, Sensors, Library
  <1>2. Shapes'
    BY BoardDecides
       DEF Shapes, CallShape, ThreadShape, HeldShape, OpenShape, AllOpen, Lost, Sensors, Library
  <1>3. QED BY <1>1, <1>2 DEF Shapes

LEMMA ReadTotalKeeps ==
  ASSUME SessionInv, UNCHANGED board, ReadTotal PROVE SessionInv'
  BY ReadingKeeps DEF ReadTotal, SessionInv, SessionTypeOK

(* A step of ffinish or of a failed finit moves on and leaves what the     *)
(* state holds as it is.                                                   *)
LEMMA MovingOnKeepsShapes ==
  ASSUME SessionInv,
         UNCHANGED <<board, impl, hasCancel, allocated, published, held, count, i>>,
         pc = "idle" => allocated, pc' \notin {"idle", "opening", "creating"},
         tpc' # "none" => tpc' = tpc /\ pc' \in {"stop", "cancel", "join"},
         pc' = "stop" /\ tpc' # "none" => poll_sensors',
         impl = "ibmpowernv" => ~poll_sensors' /\ pc' \in {"stop", "release"} /\ tpc' = tpc
  PROVE  Shapes'
  <1> USE DEF SessionInv
  <1>1. CallShape' /\ HeldShape'
    BY BoardDecides DEF CallShape, HeldShape, Lost, Sensors
  <1>2. ThreadShape'
    BY DEF ThreadShape, CallShape
  <1>3. OpenShape'
    BY BoardDecides DEF OpenShape, CallShape, ThreadShape, AllOpen, Lost, Library
  <1>4. QED BY <1>1, <1>2, <1>3 DEF Shapes

LEMMA FinishCallKeeps ==
  ASSUME SessionInv, UNCHANGED board, FinishCall PROVE SessionInv'
  <1> USE DEF SessionInv, FinishCall, pass, history
  <1>1. SessionTypeOK'
    BY DEF SessionTypeOK, Sensors, Library
  <1>2. Shapes'
    BY MovingOnKeepsShapes DEF ThreadShape
  <1>3. QED BY <1>1, <1>2 DEF Shapes

LEMMA StopPollingKeeps ==
  ASSUME SessionInv, UNCHANGED board, StopPolling PROVE SessionInv'
  <1> USE DEF SessionInv, StopPolling, pass, history
  <1>1. SessionTypeOK'
    BY DEF SessionTypeOK, Sensors, Library
  <1>2. Shapes'
    BY MovingOnKeepsShapes DEF ThreadShape
  <1>3. QED BY <1>1, <1>2 DEF Shapes

LEMMA CancelThreadKeeps ==
  ASSUME SessionInv, UNCHANGED board, CancelThread PROVE SessionInv'
  <1> USE DEF SessionInv, CancelThread, pass, history
  <1>1. SessionTypeOK'
    BY DEF SessionTypeOK, Sensors, Library
  <1>2. Shapes'
    BY MovingOnKeepsShapes DEF ThreadShape
  <1>3. QED BY <1>1, <1>2 DEF Shapes

LEMMA JoinThreadKeeps ==
  ASSUME SessionInv, UNCHANGED board, JoinThread PROVE SessionInv'
  <1> USE DEF SessionInv, JoinThread, pass, history
  <1>1. SessionTypeOK'
    BY DEF SessionTypeOK, Sensors, Library
  <1>2. tpc \in {"none", "exited"} /\ tpc' = "none"
    BY DEF ThreadEnded, Live, ThreadShape, SessionTypeOK
  <1>3. Shapes'
    BY <1>2, MovingOnKeepsShapes DEF ThreadShape
  <1>4. QED BY <1>1, <1>3 DEF Shapes

LEMMA StopThreadKeeps ==
  ASSUME SessionInv, UNCHANGED board, StopThread PROVE SessionInv'
  BY StopPollingKeeps, CancelThreadKeeps, JoinThreadKeeps DEF StopThread

-----------------------------------------------------------------------------
(* finit and the clean-ups, with what an implementation gives them.        *)

LEMMA InitCallKeeps ==
  ASSUME SessionInv, UNCHANGED board,
         NEW which \in Impls, NEW sensors \in Sensors, NEW publish \in BOOLEAN,
         NEW files \in SUBSET ({Library} \cup Sensors),
         InitCall(which, sensors, files, publish),
         which = "ibmpowernv" => publish, HeldShape'
  PROVE  SessionInv'
  <1> USE DEF SessionInv, InitCall, ClearTotals, pass
  <1>1. SessionTypeOK'
    <2>1. /\ count' \in 0..N /\ pc' = "opening" /\ published' \in BOOLEAN
          /\ held' \subseteq {Library} \cup Sensors
      BY PollingAssumption DEF Sensors
    <2>2. QED BY <2>1 DEF SessionTypeOK, Sensors
  <1>2. CallShape' /\ ThreadShape' /\ OpenShape'
    BY DEF CallShape, ThreadShape, OpenShape, Sensors
  <1>3. QED BY <1>1, <1>2

LEMMA OpenedKeeps ==
  ASSUME SessionInv, UNCHANGED board,
         NEW which, NEW next \in {"opening", "creating", "idle", "stop", "release"},
         NEW files \in SUBSET ({Library} \cup Sensors),
         Opened(which, files, next),
         next = "idle" <=> which = "ibmpowernv", HeldShape',
         next \in {"idle", "creating"} => AllOpen' \/ Lost'
  PROVE  SessionInv'
  <1> USE DEF SessionInv, Opened, pass, history
  <1>1. SessionTypeOK'
    BY DEF SessionTypeOK, Sensors, Library
  <1>2. CallShape' /\ ThreadShape'
    BY DEF CallShape, ThreadShape, Sensors
  <1>3. OpenShape'
    BY DEF OpenShape, ThreadShape
  <1>4. QED BY <1>1, <1>2, <1>3

LEMMA OpenFailsKeeps ==
  ASSUME SessionInv, UNCHANGED board,
         NEW which, NEW next \in {"stop", "release"}, OpenFails(which, next)
  PROVE  SessionInv'
  <1> USE DEF SessionInv, OpenFails, pass, history
  <1>1. SessionTypeOK'
    BY DEF SessionTypeOK, Sensors, Library
  <1>2. Shapes'
    BY MovingOnKeepsShapes DEF ThreadShape
  <1>3. QED BY <1>1, <1>2 DEF Shapes

LEMMA CreateThreadKeeps ==
  ASSUME SessionInv, UNCHANGED board, NEW which, which # "ibmpowernv", CreateThread(which)
  PROVE  SessionInv'
  <1> USE DEF SessionInv, CreateThread, pass, history
  <1>1. SessionTypeOK'
    BY DEF SessionTypeOK, Sensors, Library
  <1>2. CallShape' /\ ThreadShape' /\ HeldShape'
    BY BoardDecides DEF CallShape, ThreadShape, HeldShape, Lost, Sensors
  <1>3. OpenShape'
    BY BoardDecides DEF OpenShape, CallShape, AllOpen, Lost, Library
  <1>4. QED BY <1>1, <1>2, <1>3

LEMMA CreateFailsKeeps ==
  ASSUME SessionInv, UNCHANGED board, NEW which, which # "ibmpowernv",
         NEW polling \in BOOLEAN, NEW next \in {"stop", "release"},
         CreateFails(which, polling, next)
  PROVE  SessionInv'
  <1> USE DEF SessionInv, CreateFails, pass, history
  <1>1. SessionTypeOK'
    BY DEF SessionTypeOK, Sensors, Library
  <1>2. Shapes'
    BY MovingOnKeepsShapes DEF ThreadShape
  <1>3. QED BY <1>1, <1>2 DEF Shapes

LEMMA ReleaseKeeps ==
  ASSUME SessionInv, UNCHANGED board, NEW files, NEW pointer \in BOOLEAN,
         Release(files, pointer), held \subseteq files, pointer => impl = "osp3"
  PROVE  SessionInv'
  <1> USE DEF SessionInv, Release, ClearTotals, pass
  <1>1. held' = {}
    OBVIOUS
  <1>2. SessionTypeOK'
    <2>1. count' \in 0..N /\ pc' = "idle" /\ published' \in BOOLEAN
      BY PollingAssumption
    <2>2. QED BY <1>1, <2>1 DEF SessionTypeOK, Sensors
  <1>3. tpc' = "none"
    BY DEF ThreadShape
  <1>4. Shapes'
    BY <1>1, <1>3 DEF Shapes, CallShape, ThreadShape, HeldShape, OpenShape
  <1>5. QED BY <1>2, <1>4 DEF Shapes

-----------------------------------------------------------------------------
(* The implementations.                                                    *)

LEMMA ThreadKeeps ==
  ASSUME SessionInv, UNCHANGED board, NEW next \in {"head", "sleep"},
         NEW mayBeEmpty \in BOOLEAN, NEW points \in SUBSET {"sleep", "read"},
         \/ ThreadStart(next) \/ StartPass \/ LeaveLoop
         \/ ReadSensor(mayBeEmpty) \/ Account \/ ActOnCancel(points)
  PROVE  SessionInv'
  BY ThreadStartKeeps, StartPassKeeps, LeaveLoopKeeps, ReadSensorKeeps, AccountKeeps,
     ActOnCancelKeeps

LEMMA Zcu102Keeps ==
  ASSUME SessionInv, UNCHANGED board,
         \/ Zcu102InitCall \/ Zcu102Open \/ Zcu102Create
         \/ Zcu102Read \/ Zcu102Finish \/ Zcu102Poll
  PROVE  SessionInv'
  <1>1. CASE Zcu102InitCall
    <2>1. HeldShape'
      BY <1>1 DEF Zcu102InitCall, InitCall, HeldShape
    <2>2. N \in Sensors /\ "zcu102" \in Impls
      BY PollingAssumption DEF Sensors, Impls
    <2>3. QED BY <1>1, <2>1, <2>2, InitCallKeeps DEF Zcu102InitCall
  <1>2. CASE Zcu102Open
    <2>1. CASE OpenFails("zcu102", "stop")
      BY <2>1, OpenFailsKeeps
    <2>2. ASSUME NEW s \in Sensors \ held, \A t \in 1..(s - 1) : t \in held,
                 Opened("zcu102", {s}, IF s = N THEN "creating" ELSE "opening")
          PROVE  SessionInv'
      <3>1. HeldShape'
        BY <2>2 DEF Opened, HeldShape, SessionInv
      <3>2. s = N => AllOpen'
        BY <2>2, PollingAssumption
           DEF Opened, AllOpen, HeldShape, SessionInv, CallShape, Sensors, Library
      <3>3. QED BY <2>2, <3>1, <3>2, OpenedKeeps
    <2>3. QED BY <1>2, <2>1, <2>2 DEF Zcu102Open
  <1>3. CASE Zcu102Create
    BY <1>3, CreateThreadKeeps, CreateFailsKeeps DEF Zcu102Create
  <1>4. CASE Zcu102Read
    BY <1>4, ReadTotalKeeps DEF Zcu102Read
  <1>5. CASE Zcu102Finish
    <2>1. impl = "zcu102" => held \subseteq Zcu102Closes
      BY DEF Zcu102Closes, SessionInv, HeldShape
    <2>2. QED BY <1>5, <2>1, FinishCallKeeps, StopThreadKeeps, ReleaseKeeps DEF Zcu102Finish
  <1>6. CASE Zcu102Poll
    BY <1>6, ThreadKeeps DEF Zcu102Poll
  <1>7. QED BY <1>1, <1>2, <1>3, <1>4, <1>5, <1>6

LEMMA IoctlKeeps ==
  ASSUME SessionInv, UNCHANGED board,
         \/ IoctlInitCall \/ IoctlOpen \/ IoctlCreate
         \/ IoctlRead \/ IoctlFinish \/ IoctlCloseAll \/ IoctlPoll
  PROVE  SessionInv'
  <1>1. CASE IoctlInitCall
    <2>1. HeldShape'
      BY <1>1 DEF IoctlInitCall, InitCall, HeldShape
    <2>2. N \in Sensors /\ "odroid_ioctl" \in Impls
      BY PollingAssumption DEF Sensors, Impls
    <2>3. QED BY <1>1, <2>1, <2>2, InitCallKeeps DEF IoctlInitCall
  <1>2. CASE IoctlOpen
    <2>1. CASE OpenFails("odroid_ioctl", "release")
      BY <2>1, OpenFailsKeeps
    <2>2. ASSUME NEW s \in Sensors \ held, \A t \in 1..(s - 1) : t \in held,
                 Opened("odroid_ioctl", {s}, IF s = N THEN "creating" ELSE "opening")
          PROVE  SessionInv'
      <3>1. HeldShape'
        BY <2>2 DEF Opened, HeldShape, SessionInv
      <3>2. s = N => AllOpen'
        BY <2>2, PollingAssumption
           DEF Opened, AllOpen, HeldShape, SessionInv, CallShape, Sensors, Library
      <3>3. QED BY <2>2, <3>1, <3>2, OpenedKeeps
    <2>3. ASSUME NEW s \in Sensors \ held, Opened("odroid_ioctl", {s}, "release")
          PROVE  SessionInv'
      <3>1. HeldShape'
        BY <2>3 DEF Opened, HeldShape, SessionInv
      <3>2. QED BY <2>3, <3>1, OpenedKeeps
    <2>4. QED BY <1>2, <2>1, <2>2, <2>3 DEF IoctlOpen
  <1>3. CASE IoctlCreate
    BY <1>3, CreateThreadKeeps, CreateFailsKeeps DEF IoctlCreate
  <1>4. CASE IoctlRead
    BY <1>4, ReadTotalKeeps DEF IoctlRead
  <1>5. CASE IoctlFinish
    BY <1>5, FinishCallKeeps, StopThreadKeeps DEF IoctlFinish
  <1>6. CASE IoctlCloseAll
    <2>1. held \subseteq Sensors
      BY <1>6 DEF IoctlCloseAll, SessionInv, HeldShape
    <2>2. QED BY <1>6, <2>1, ReleaseKeeps DEF IoctlCloseAll
  <1>7. CASE IoctlPoll
    BY <1>7, ThreadKeeps DEF IoctlPoll
  <1>8. QED BY <1>1, <1>2, <1>3, <1>4, <1>5, <1>6, <1>7

LEMMA PowerNvKeeps ==
  ASSUME SessionInv, UNCHANGED board,
         \/ PowerNvInitCall \/ PowerNvOpen \/ PowerNvCreate
         \/ PowerNvRead \/ PowerNvFinish \/ PowerNvRelease \/ PowerNvPoll
  PROVE  SessionInv'
  <1> 1 \in Sensors /\ PowerNvs \subseteq Impls
    BY PollingAssumption DEF Sensors, PowerNvs, Impls
  <1>1. CASE PowerNvInitCall
    <2>1. PICK libs \in {{}, {Library}} :
            InitCall(impl, 1, libs, impl = "ibmpowernv") /\ IsPowerNv
      BY <1>1 DEF PowerNvInitCall
    <2>2. HeldShape'
      BY <2>1 DEF InitCall, HeldShape, IsPowerNv, PowerNvs, Library
    <2>3. QED BY <2>1, <2>2, InitCallKeeps DEF IsPowerNv
  <1>2. CASE PowerNvOpen
    <2>1. CASE OpenFails(impl, "release")
      BY <2>1, OpenFailsKeeps
    <2>2. ASSUME NEW which \in PowerNvs, NEW next \in {"idle", "creating"},
                 Opened(which, {1}, next), next = "idle" <=> which = "ibmpowernv"
          PROVE  SessionInv'
      <3>1. HeldShape'
        BY <2>2 DEF Opened, HeldShape, SessionInv, PowerNvs
      <3>2. AllOpen'
        BY <2>2 DEF Opened, AllOpen, HeldShape, SessionInv, CallShape, PowerNvs, Library
      <3>3. QED BY <2>2, <3>1, <3>2, OpenedKeeps
    <2>3. QED BY <1>2, <2>1, <2>2 DEF PowerNvOpen, PowerNvs
  <1>3. CASE PowerNvCreate
    BY <1>3, CreateThreadKeeps, CreateFailsKeeps DEF PowerNvCreate
  <1>4. CASE PowerNvRead
    <2>1. CASE PowerNvReadEnergy
      BY <2>1, PollingAssumption, ReadingKeeps DEF PowerNvReadEnergy
    <2>2. QED BY <1>4, <2>1, ReadTotalKeeps DEF PowerNvRead
  <1>5. CASE PowerNvFinish
    BY <1>5, FinishCallKeeps, StopThreadKeeps DEF PowerNvFinish
  <1>6. CASE PowerNvRelease
    <2>1. held \subseteq {Library, 1}
      BY <1>6 DEF PowerNvRelease, IsPowerNv, PowerNvs, Library, SessionInv, HeldShape
    <2>2. QED BY <1>6, <2>1, ReleaseKeeps DEF PowerNvRelease
  <1>7. CASE PowerNvPoll
    BY <1>7, ThreadKeeps DEF PowerNvPoll
  <1>8. QED BY <1>1, <1>2, <1>3, <1>4, <1>5, <1>6, <1>7

(* Cancelled only where it sleeps, the thread never leaves a transfer      *)
(* unfinished.                                                             *)
LEMMA OspKeeps ==
  ASSUME SessionInv, UNCHANGED board,
         OspInitCall \/ OspOpen \/ OspCreate \/ OspRead \/ OspFinish \/ OspPoll
  PROVE  SessionInv'
  <1> 1 \in Sensors /\ "osp_polling" \in Impls
    BY PollingAssumption DEF Sensors, Impls
  <1>1. CASE OspInitCall
    <2>1. HeldShape'
      BY <1>1 DEF OspInitCall, InitCall, HeldShape, Library
    <2>2. QED BY <1>1, <2>1, InitCallKeeps DEF OspInitCall
  <1>2. CASE OspOpen
    <2>1. CASE OpenFails("osp_polling", "stop")
      BY <2>1, OpenFailsKeeps
    <2>2. ASSUME NEW next \in {"creating", "stop"}, Opened("osp_polling", {1}, next)
          PROVE  SessionInv'
      <3>1. HeldShape'
        BY <2>2 DEF Opened, HeldShape, SessionInv
      <3>2. AllOpen'
        BY <2>2 DEF Opened, AllOpen, HeldShape, SessionInv, CallShape, Library
      <3>3. QED BY <2>2, <3>1, <3>2, OpenedKeeps
    <2>3. QED BY <1>2, <2>1, <2>2 DEF OspOpen
  <1>3. CASE OspCreate
    BY <1>3, CreateThreadKeeps, CreateFailsKeeps DEF OspCreate
  <1>4. CASE OspRead
    BY <1>4, ReadTotalKeeps DEF OspRead
  <1>5. CASE OspFinish
    <2>1. impl = "osp_polling" => held \subseteq {Library, 1}
      BY DEF Library, SessionInv, HeldShape
    <2>2. QED BY <1>5, <2>1, FinishCallKeeps, StopThreadKeeps, ReleaseKeeps DEF OspFinish
  <1>6. CASE OspPoll
    <2>1. OspCancelled => ActOnCancel({"sleep"})
      BY DEF OspCancelled, OspCancelledWhere, ActOnCancel
    <2>2. QED BY <1>6, <2>1, ThreadKeeps DEF OspPoll
  <1>7. QED BY <1>1, <1>2, <1>3, <1>4, <1>5, <1>6

(* The default rails are all open or none is, and a list of names is       *)
(* opened as a whole.                                                      *)
LEMMA JetsonKeeps ==
  ASSUME SessionInv,
         \/ JetsonInitCall \/ JetsonWalkFails \/ JetsonOpen \/ JetsonCreate
         \/ JetsonRead \/ JetsonFinish \/ JetsonRelease \/ JetsonPoll
  PROVE  SessionInv'
  <1> UNCHANGED board
    BY DEF JetsonInitCall, JetsonWalkFails, JetsonOpen, JetsonCreate, JetsonRead,
           JetsonFinish, JetsonRelease, JetsonPoll
  <1>1. CASE JetsonInitCall
    <2>1. ASSUME NEW n \in Sensors, NEW rails \in SUBSET (1..n),
                 InitCall("jetson", n, rails, FALSE), rails = 1..n \/ (NoRails /\ rails = {})
          PROVE  SessionInv'
      <3>1. HeldShape'
        BY <2>1, BoardDecides DEF InitCall, HeldShape, Lost
      <3>2. rails \in SUBSET ({Library} \cup Sensors) /\ "jetson" \in Impls
        BY <2>1, PollingAssumption DEF Sensors, Impls
      <3>3. QED BY <2>1, <3>1, <3>2, InitCallKeeps
    <2>2. CASE \E n \in Sensors : InitCall("jetson", n, 1..n, FALSE)
      BY <2>1, <2>2
    <2>3. CASE /\ FamiliesSeen # {} /\ Len(DefaultNames) <= N
               /\ InitCall("jetson", Len(DefaultNames), RailsKept(DefaultNames), FALSE)
      <3>1. Len(DefaultNames) \in Sensors
        BY <2>3, DefaultNamesExist DEF Sensors
      <3>2. /\ RailsKept(DefaultNames) \in SUBSET (1..Len(DefaultNames))
            /\ \/ RailsKept(DefaultNames) = 1..Len(DefaultNames)
               \/ NoRails /\ RailsKept(DefaultNames) = {}
        BY <2>3 DEF RailsKept, NoRails
      <3>3. QED BY <2>1, <2>3, <3>1, <3>2
    <2>4. QED BY <1>1, <2>2, <2>3 DEF JetsonInitCall
  <1>2. CASE JetsonWalkFails
    BY <1>2, OpenFailsKeeps DEF JetsonWalkFails
  <1>3. CASE JetsonOpen
    <2>1. PICK next \in {"creating", "stop"} : Opened("jetson", {}, next)
      BY <1>3 DEF JetsonOpen
    <2>2. HeldShape'
      BY <2>1, BoardDecides DEF Opened, HeldShape, Lost, SessionInv
    <2>3. AllOpen' \/ Lost'
      BY <2>1, BoardDecides
         DEF Opened, AllOpen, Lost, HeldShape, SessionInv, CallShape, Library, Sensors
    <2>4. QED BY <2>1, <2>2, <2>3, OpenedKeeps
  <1>4. CASE JetsonCreate
    BY <1>4, CreateThreadKeeps, CreateFailsKeeps DEF JetsonCreate
  <1>5. CASE JetsonRead
    BY <1>5, ReadTotalKeeps DEF JetsonRead
  <1>6. CASE JetsonFinish
    BY <1>6, FinishCallKeeps, StopThreadKeeps DEF JetsonFinish
  <1>7. CASE JetsonRelease
    <2>1. held \subseteq 1..count
      BY <1>7 DEF JetsonRelease, Release, SessionInv, CallShape, HeldShape, Lost
    <2>2. QED BY <1>7, <2>1, ReleaseKeeps DEF JetsonRelease
  <1>8. CASE JetsonPoll
    BY <1>8, ThreadKeeps DEF JetsonPoll
  <1>9. QED BY <1>1, <1>2, <1>3, <1>4, <1>5, <1>6, <1>7, <1>8

(* The total stays a number below Word although the device's clock may go  *)
(* back, and the interval is one of the device's or stays as it is.        *)
LEMMA EntriesAreNaturals ==
  ASSUME TypeOK, NEW ms \in Timestamps, NEW mw \in Lo..Hi
  PROVE  SinceLast(ms) \in Int /\ EntryTotal(mw, ms) \in Nat /\ IntervalFor(ms) \in Nat
  <1> ms \in Nat /\ ms_last \in Nat /\ mw \in Nat /\ total_uj \in Nat /\ Word \in Nat \ {0}
    BY Osp3Assumption, PollingAssumption DEF TypeOK, Osp3TypeOK, SessionTypeOK
  <1>1. SinceLast(ms) \in Int
    BY DEF SinceLast
  <1>2. EntryTotal(mw, ms) \in Nat
    <2>1. total_uj + mw * SinceLast(ms) \in Int
      BY <1>1
    <2>2. QED BY <2>1 DEF EntryTotal
  <1>3. IntervalFor(ms) \in Nat
    <2> DEFINE fits == {r \in DOMAIN Rounded : SinceLast(ms) <= Rounded[r][1]}
               closest == CHOOSE r \in fits : \A q \in fits : r <= q
    <2>1. fits \subseteq 1..6
      BY DEF Rounded
    <2>2. fits # {} => \E r \in fits : \A q \in fits : r <= q
      BY <2>1, LeastOfFew, Zenon
    <2>3. fits # {} => closest \in fits
      BY <2>2, Zenon
    <2>4. \A r \in 1..6 : Rounded[r][2] * 1000 \in Nat
      BY DEF Rounded
    <2>5. fits # {} => Rounded[closest][2] * 1000 \in Nat
      BY <2>1, <2>3, <2>4, Zenon
    <2>6. interval_us \in Nat
      BY DEF TypeOK, Osp3TypeOK
    <2> HIDE DEF closest, fits
    <2>7. IntervalFor(ms) = IF SinceLast(ms) <= 0 \/ fits = {} THEN interval_us
                            ELSE Rounded[closest][2] * 1000
      BY DEF IntervalFor, closest, fits
    <2>8. QED BY <2>5, <2>6, <2>7
  <1>4. QED BY <1>1, <1>2, <1>3

LEMMA Osp3Keeps ==
  ASSUME SessionInv, JetsonTypeOK, Osp3TypeOK, UNCHANGED board,
         \/ Osp3InitCall \/ Osp3Open \/ Osp3Create \/ Osp3InitRefused
         \/ Osp3Read \/ Osp3Finish \/ Osp3Poll
  PROVE  SessionInv' /\ Osp3TypeOK'
  <1> 1 \in Sensors /\ "osp3" \in Impls
    BY PollingAssumption DEF Sensors, Impls
  <1>1. CASE Osp3Entry /\ impl = "osp3"
    <2>1. PICK ms \in Timestamps, mw \in Lo..Hi :
            /\ total_uj' = EntryTotal(mw, ms)
            /\ interval_us' = IntervalFor(ms) /\ ms_last' = ms
            /\ rolled' = (rolled \/ SinceLast(ms) < 0)
            /\ covered' = IF SinceLast(ms) > 0 THEN covered + SinceLast(ms) ELSE covered
            /\ last_us' = covered'
      BY <1>1 DEF Osp3Entry
    <2>2. SinceLast(ms) \in Int /\ EntryTotal(mw, ms) \in Nat /\ IntervalFor(ms) \in Nat
      BY EntriesAreNaturals DEF TypeOK, SessionInv
    <2>3. total_uj' \in Nat /\ covered' \in Nat /\ last_us' \in Nat
      BY <2>1, <2>2 DEF SessionInv, SessionTypeOK
    <2>4. Osp3TypeOK'
      BY <2>1, <2>2 DEF Osp3TypeOK
    <2>5. /\ UNCHANGED <<call, poll_sensors, cancelled, pass, passes, partial, skipped>>
          /\ tpc = "read" /\ tpc' = "head"
      BY <1>1 DEF Osp3Entry
    <2>6. SessionTypeOK'
      BY <2>3, <2>5 DEF SessionInv, SessionTypeOK, call, pass, Sensors, Library
    <2>7. Shapes'
      BY <2>5, ThreadKeepsShapes DEF call
    <2>8. QED BY <2>4, <2>6, <2>7 DEF Shapes, SessionInv
  <1>2. CASE Osp3NoEntry
    <2>1. SessionTypeOK'
      BY <1>2 DEF Osp3NoEntry, SessionInv, SessionTypeOK, call, pass, history, Sensors, Library
    <2>2. Shapes'
      BY <1>2, ThreadKeepsShapes DEF Osp3NoEntry, call
    <2>3. QED BY <1>2, <2>1, <2>2 DEF Osp3NoEntry, Osp3TypeOK, osp3Vars, Shapes, SessionInv
  <1>3. CASE Osp3Poll /\ ~Osp3Entry /\ ~Osp3NoEntry
    <2>1. SessionInv'
      BY <1>3, ThreadKeeps DEF Osp3Poll
    <2>2. QED BY <1>3, <2>1 DEF Osp3Poll, Osp3TypeOK, osp3Vars
  <1>4. CASE Osp3InitCall
    <2>1. HeldShape'
      BY <1>4 DEF Osp3InitCall, InitCall, HeldShape
    <2>2. InitCall("osp3", 1, {}, FALSE)
      BY <1>4 DEF Osp3InitCall
    <2>3. {} \in SUBSET ({Library} \cup Sensors) /\ FALSE \in BOOLEAN
      OBVIOUS
    <2>4. SessionInv'
      BY <2>1, <2>2, <2>3, InitCallKeeps, Zenon
    <2>5. QED BY <1>4, <2>4 DEF Osp3InitCall, Osp3TypeOK, osp3Vars
  <1>5. CASE Osp3Open
    <2>1. ASSUME Opened("osp3", {1}, "creating") PROVE SessionInv'
      <3>1. HeldShape'
        BY <2>1 DEF Opened, HeldShape, SessionInv
      <3>2. AllOpen'
        BY <2>1 DEF Opened, AllOpen, HeldShape, SessionInv, CallShape, Library
      <3>3. QED BY <2>1, <3>1, <3>2, OpenedKeeps
    <2>2. SessionInv'
      BY <1>5, <2>1, OpenFailsKeeps DEF Osp3Open
    <2>3. QED BY <1>5, <2>2 DEF Osp3Open, Osp3TypeOK, osp3Vars
  <1>6. CASE Osp3Create
    <2>1. SessionInv'
      BY <1>6, CreateThreadKeeps, CreateFailsKeeps DEF Osp3Create
    <2>2. QED BY <1>6, <2>1 DEF Osp3Create, Osp3TypeOK, osp3Vars
  <1>7. CASE Osp3InitRefused
    BY <1>7, SessionStutters DEF Osp3InitRefused, Osp3TypeOK, osp3Vars
  <1>8. CASE Osp3Read
    BY <1>8, ReadTotalKeeps DEF Osp3Read, Osp3TypeOK, osp3Vars
  <1>9. CASE Osp3Finish
    <2>1. CASE (FinishCall \/ StopThread) /\ UNCHANGED osp3Vars
      BY <2>1, FinishCallKeeps, StopThreadKeeps DEF Osp3TypeOK, osp3Vars
    <2>2. CASE /\ Release({1}, 1 \in held) /\ impl = "osp3"
               /\ ms_last' = 0 /\ interval_us' = OSP3_INTERVAL_MS_DEFAULT * 1000
               /\ rolled' = FALSE
      <3>1. held \subseteq {1}
        BY <2>2 DEF SessionInv, HeldShape
      <3>2. SessionInv'
        <4>1. CASE Release({1}, TRUE)
          BY <2>2, <3>1, <4>1, ReleaseKeeps
        <4>2. CASE Release({1}, FALSE)
          BY <3>1, <4>2, ReleaseKeeps
        <4>3. (1 \in held) = TRUE \/ (1 \in held) = FALSE
          OBVIOUS
        <4>4. QED BY <2>2, <4>1, <4>2, <4>3, Zenon
      <3>3. OSP3_INTERVAL_MS_DEFAULT * 1000 \in Nat
        BY Osp3Assumption
      <3>4. QED BY <2>2, <3>2, <3>3 DEF Osp3TypeOK
    <2>3. QED BY <1>9, <2>1, <2>2 DEF Osp3Finish
  <1>10. QED
    BY <1>1, <1>2, <1>3, <1>4, <1>5, <1>6, <1>7, <1>8, <1>9 DEF Osp3Poll

-----------------------------------------------------------------------------
LEMMA InitEstablishes == Init => IInv
  <1> SUFFICES ASSUME Init PROVE IInv
    OBVIOUS
  <1> USE DEF Init, SessionInit, JetsonInit, Osp3Init
  <1>1. SessionTypeOK
    <2>1. 1 \in 1..(N + 1) /\ 0 \in 0..N
      BY PollingAssumption
    <2>2. QED BY <2>1 DEF SessionTypeOK, Sensors
  <1>2. Shapes
    BY DEF Shapes, CallShape, ThreadShape, HeldShape, OpenShape
  <1>3. JetsonTypeOK /\ Osp3TypeOK
    <2>1. OSP3_INTERVAL_MS_DEFAULT * 1000 \in Nat
      BY Osp3Assumption
    <2>2. QED BY <2>1 DEF JetsonTypeOK, Osp3TypeOK
  <1>4. QED BY <1>1, <1>2, <1>3 DEF IInv, SessionInv, Shapes

LEMMA StepPreserves == IInv /\ [Next]_vars => IInv'
  <1> SUFFICES ASSUME IInv, [Next]_vars PROVE IInv'
    OBVIOUS
  <1> USE DEF IInv
  <1>1. ASSUME UNCHANGED <<board, osp3Vars>>, SessionInv' PROVE IInv'
    BY <1>1 DEF JetsonTypeOK, Osp3TypeOK, osp3Vars
  <1>2. CASE (OpenMonitor \/ Read \/ FinishMonitor \/ Poll) /\ UNCHANGED <<board, osp3Vars>>
    <2>1. SessionInv'
      BY <1>2, Zcu102Keeps, IoctlKeeps, PowerNvKeeps, OspKeeps
         DEF OpenMonitor, Read, FinishMonitor, Poll
    <2>2. QED BY <1>1, <1>2, <2>1
  <1>3. CASE /\ \/ JetsonInitCall \/ JetsonWalkFails \/ JetsonOpen \/ JetsonCreate
                \/ JetsonRead \/ JetsonFinish \/ JetsonRelease \/ JetsonPoll
             /\ UNCHANGED osp3Vars
    <2>1. UNCHANGED board
      BY <1>3 DEF JetsonInitCall, JetsonWalkFails, JetsonOpen, JetsonCreate, JetsonRead,
                  JetsonFinish, JetsonRelease, JetsonPoll
    <2>2. SessionInv'
      BY <1>3, JetsonKeeps
    <2>3. QED BY <1>1, <1>3, <2>1, <2>2
  <1>4. CASE /\ \/ Osp3InitCall \/ Osp3Open \/ Osp3Create \/ Osp3InitRefused
                \/ Osp3Read \/ Osp3Finish \/ Osp3Poll
             /\ UNCHANGED board
    BY <1>4, Osp3Keeps DEF JetsonTypeOK
  <1>5. CASE UNCHANGED vars
    BY <1>1, <1>5, SessionStutters DEF vars
  <1>6. QED
    BY <1>2, <1>3, <1>4, <1>5 DEF Next, Finish, PollingThread, Stuck

(* Of each implementation: where finit or ffinish is determines what is    *)
(* allocated, what is held, and whether the thread lives.                  *)
THEOREM Invariance == Spec => []IInv
  BY InitEstablishes, StepPreserves, PTL DEF Spec

(* Every variable has its type, for any constants; the total of an osp3    *)
(* stays below 2^64 whatever its clock does.                               *)
THEOREM TypeCorrect == Spec => []TypeOK
  <1>1. IInv => TypeOK
    BY DEF IInv, SessionInv, TypeOK
  <1>2. QED BY <1>1, Invariance, PTL

(* In all seven the polling thread runs only while its state is allocated  *)
(* and everything it reads is open (but for the default rails of a Jetson  *)
(* that were lost), for any number of sensors: finish waits for its end    *)
(* before it closes and frees.                                             *)
THEOREM ThreadIsConfined == Spec => []ThreadConfined
  <1>1. IInv => ThreadConfined
    BY DEF IInv, SessionInv, ThreadShape, OpenShape, ThreadConfined, Live, Lost, NoRails, RailsLost
  <1>2. QED BY <1>1, Invariance, PTL

(* In all seven a failed finit and a finish leave nothing behind and a     *)
(* good finit leaves everything up, for any number of sensors and wherever *)
(* the failure was.                                                        *)
THEOREM InitAndFinishAreAllOrNothing == Spec => []AllOrNothing
  <1>1. IInv => AllOrNothing
    BY DEF IInv, SessionInv, CallShape, ThreadShape, OpenShape, AllOrNothing, Live,
           Lost, NoRails, RailsLost
  <1>2. QED BY <1>1, Invariance, PTL
-----------------------------------------------------------------------------
(* The energy.  What is wanted of the total follows from what is wanted of *)
(* the sum of a pass that is not finished: that it has a reading of each   *)
(* sensor up to the one whose turn it is.                                  *)

Fits == ~rolled /\ ~Lost /\ EnergyFits

Accounting ==
  /\ last_us = covered + partial + skipped
  /\ impl = "osp3" => partial = 0 /\ skipped = 0 /\ tpc # "account"

Envelope ==
  Fits => count * Lo * covered <= total_uj /\ total_uj <= count * Hi * (covered + partial)

(* The bounds of the sum of the readings of n sensors.                     *)
SumWithin(n) == sum_w <= n * Hi /\ (failed = "no" => n * Lo <= sum_w)

PassSum ==
  Fits /\ impl # "osp3" =>
    /\ tpc = "read" => failed # "error" /\ SumWithin(i - 1)
    /\ tpc = "account" /\ failed # "error" => SumWithin(count)

EnergyInv == Accounting /\ Envelope /\ PassSum

(* What a step can do to the energy: nothing; ...                          *)
Quiet ==
  /\ UNCHANGED <<board, impl, count, total_uj, history, rolled>>
  /\ held' = held \/ impl # "jetson"
  /\ tpc' \notin {"read", "account"} \/ UNCHANGED <<tpc, pass>>

(* ... start a session or end one; or be a step of the thread.             *)
Cleared ==
  /\ impl' = impl /\ tpc' \notin {"read", "account"}
  /\ total_uj' = 0 /\ last_us' = 0 /\ covered' = 0 /\ partial' = 0 /\ skipped' = 0

Polled ==
  /\ UNCHANGED <<board, rolled>>
  /\ \/ StartPass
     \/ impl # "osp3" /\ (Account \/ \E mayBeEmpty \in BOOLEAN : ReadSensor(mayBeEmpty))

EnergySteps == Quiet \/ Cleared \/ Polled \/ (impl = "osp3" /\ board' = board /\ Osp3Entry)

(* Multiplication is monotone and distributes over addition.               *)
LEMMA MulMonotone ==
  ASSUME NEW a \in Nat, NEW b \in Nat, NEW e \in Nat, a <= b
  PROVE  a * e <= b * e
  <1>1. PICK d \in Nat : b = a + d
    <2>1. b - a \in Nat /\ b = a + (b - a)
      OBVIOUS
    <2>2. QED BY <2>1
  <1>2. b * e = a * e + d * e
    BY <1>1
  <1>3. d * e \in Nat /\ a * e \in Nat
    OBVIOUS
  <1>4. QED BY <1>2, <1>3

LEMMA UpperStep ==
  ASSUME NEW p \in Nat, NEW c \in Nat, NEW e \in Nat, NEW total \in Nat, NEW sum \in Nat,
         total <= p * c, sum <= p
  PROVE  total + sum * e <= p * (c + e)
  <1>1. sum * e <= p * e
    BY MulMonotone
  <1>2. p * (c + e) = p * c + p * e
    OBVIOUS
  <1>3. p * c \in Nat /\ p * e \in Nat /\ sum * e \in Nat
    OBVIOUS
  <1>4. QED BY <1>1, <1>2, <1>3

LEMMA LowerStep ==
  ASSUME NEW p \in Nat, NEW c \in Nat, NEW e \in Nat, NEW total \in Nat, NEW sum \in Nat,
         p * c <= total, p <= sum
  PROVE  p * (c + e) <= total + sum * e
  <1>1. p * e <= sum * e
    BY MulMonotone
  <1>2. p * (c + e) = p * c + p * e
    OBVIOUS
  <1>3. p * c \in Nat /\ p * e \in Nat /\ sum * e \in Nat
    OBVIOUS
  <1>4. QED BY <1>1, <1>2, <1>3

LEMMA QuietKeepsEnergy == EnergyInv /\ Quiet => EnergyInv'
  <1> SUFFICES ASSUME EnergyInv, Quiet PROVE EnergyInv'
    OBVIOUS
  <1> USE DEF EnergyInv, Quiet, history, pass
  <1>1. Accounting'
    BY DEF Accounting
  <1>2. Fits' => Fits
    BY BoardDecides DEF Fits, Lost, EnergyFits
  <1>3. Envelope'
    BY <1>2 DEF Envelope
  <1>4. PassSum'
    BY <1>2 DEF PassSum, SumWithin
  <1>5. QED BY <1>1, <1>3, <1>4

LEMMA ClearedKeepsEnergy == IInv' /\ Cleared => EnergyInv'
  <1> SUFFICES ASSUME IInv', Cleared PROVE EnergyInv'
    OBVIOUS
  <1>1. PICK n \in Nat : n = count'
    BY PollingAssumption DEF IInv, SessionInv, SessionTypeOK
  <1>2. n * Lo * 0 = 0 /\ n * Hi * (0 + 0) = 0
    BY PollingAssumption
  <1>3. QED BY <1>1, <1>2 DEF Cleared, EnergyInv, Accounting, Envelope, PassSum

LEMMA StartPassKeepsEnergy ==
  ASSUME IInv, EnergyInv, UNCHANGED <<board, rolled>>, StartPass PROVE EnergyInv'
  <1> USE DEF EnergyInv, StartPass, call, history
  <1>1. Fits' => Fits
    BY BoardDecides DEF Fits, Lost, EnergyFits
  <1>2. Accounting' /\ Envelope'
    BY <1>1 DEF Accounting, Envelope
  <1>3. 0 * Hi = 0 /\ 0 * Lo = 0 /\ 1 - 1 = 0
    BY PollingAssumption
  <1>4. PassSum'
    BY <1>3 DEF PassSum, SumWithin
  <1>5. QED BY <1>2, <1>4

(* Everything is open, so a reading is one of a sensor.                    *)
LEMMA ReadSensorKeepsEnergy ==
  ASSUME IInv, EnergyInv, UNCHANGED <<board, rolled>>, impl # "osp3",
         NEW mayBeEmpty \in BOOLEAN, ReadSensor(mayBeEmpty)
  PROVE  EnergyInv'
  <1> USE PollingAssumption DEF EnergyInv, call, history
  <1>1. UNCHANGED <<impl, count, held, board, total_uj, history, rolled>> /\ tpc = "read"
    BY DEF ReadSensor
  <1>2. Fits' <=> Fits
    BY <1>1, BoardDecides DEF Fits, Lost, EnergyFits
  <1>3. Accounting' /\ Envelope'
    BY <1>1, <1>2 DEF Accounting, Envelope, ReadSensor
  <1>4. SUFFICES ASSUME Fits, Fits', impl' # "osp3" PROVE PassSum'
    BY <1>2, <1>3 DEF PassSum
  <1>5. PICK n \in 1..count : n = i
    BY <1>1 DEF IInv, SessionInv, ThreadShape
  <1>6. count \in Nat /\ n \in Nat /\ count \in 1..N
    BY <1>1, <1>5 DEF IInv, SessionInv, CallShape, ThreadShape, SessionTypeOK, Sensors
  <1>7. failed # "error" /\ SumWithin(n - 1) /\ sum_w \in Nat
    BY <1>1, <1>4, <1>5 DEF PassSum, SumWithin, IInv, SessionInv, SessionTypeOK
  <1>8. PowerOf(n) = Lo..Hi
    <2>1. AllOpen
      BY <1>1, <1>4 DEF IInv, SessionInv, OpenShape, ThreadShape, Fits
    <2>2. n \in held
      BY <2>1, <1>5 DEF AllOpen
    <2>3. QED BY <2>2 DEF PowerOf
  <1>9. n * Hi = (n - 1) * Hi + Hi /\ n * Lo = (n - 1) * Lo + Lo
    BY <1>6
  <1>10. (n - 1) * Hi \in Nat /\ (n - 1) * Lo \in Nat /\ n * Hi \in Nat /\ n * Lo \in Nat
    BY <1>6
  <1>11. failed' # "error" => sum_w' <= n * Hi /\ (failed' = "no" => n * Lo <= sum_w')
    <2>1. CASE \E w \in PowerOf(n) : sum_w' = sum_w + w /\ failed' = failed
      BY <2>1, <1>7, <1>8, <1>9, <1>10 DEF SumWithin
    <2>2. CASE failed' = "empty" /\ sum_w' = sum_w
      BY <2>2, <1>7, <1>9, <1>10 DEF SumWithin
    <2>3. QED BY <2>1, <2>2, <1>5 DEF ReadSensor
  <1>12. i' = n + 1 /\ (n + 1) - 1 = n /\ tpc' = IF n = count \/ failed' = "error" THEN "account" ELSE "read"
    BY <1>5, <1>6 DEF ReadSensor
  <1>13. CASE tpc' = "read"
    BY <1>11, <1>12, <1>13 DEF PassSum, SumWithin
  <1>14. CASE tpc' = "account"
    BY <1>1, <1>11, <1>12, <1>14 DEF PassSum, SumWithin
  <1>15. QED BY <1>12, <1>13, <1>14

LEMMA AccountKeepsEnergy ==
  ASSUME IInv, EnergyInv, UNCHANGED <<board, rolled>>, impl # "osp3", Account
  PROVE  EnergyInv'
  <1> USE PollingAssumption DEF EnergyInv, call, pass
  <1>1. UNCHANGED <<impl, count, held, board, pass, rolled>> /\ tpc = "account"
        /\ tpc' \in {"sleep", "exited"}
    BY DEF Account
  <1>2. Fits' <=> Fits
    BY <1>1, BoardDecides DEF Fits, Lost, EnergyFits
  <1>3. PassSum'
    BY <1>1 DEF PassSum
  <1>4. PICK e \in 1..MaxInterval :
          /\ last_us' = last_us + e
          /\ total_uj' = total_uj + EnergyOf(e)
          /\ covered' = IF failed = "no" THEN covered + e ELSE covered
          /\ partial' = IF failed = "empty" THEN partial + e ELSE partial
          /\ skipped' = IF failed = "error" THEN skipped + e ELSE skipped
    BY DEF Account
  <1>5. /\ e \in Nat /\ total_uj \in Nat /\ covered \in Nat /\ partial \in Nat
        /\ skipped \in Nat /\ sum_w \in Nat /\ count \in Nat
        /\ failed \in {"no", "empty", "error"}
    BY DEF IInv, SessionInv, SessionTypeOK
  <1>6. Accounting'
    BY <1>1, <1>4, <1>5 DEF Accounting
  <1>7. SUFFICES ASSUME Fits PROVE Envelope'
    BY <1>2, <1>3, <1>6 DEF Envelope
  <1>8. PICK p \in Nat, q \in Nat : p = count * Lo /\ q = count * Hi
    BY <1>5
  <1>9. p * covered <= total_uj /\ total_uj <= q * (covered + partial)
    BY <1>7, <1>8 DEF Envelope
  <1>10. failed # "error" => sum_w <= q /\ (failed = "no" => p <= sum_w)
    BY <1>1, <1>7, <1>8 DEF PassSum, SumWithin
  <1>11. p * covered' <= total_uj' /\ total_uj' <= q * (covered' + partial')
    <2>1. CASE failed = "error"
      BY <2>1, <1>4, <1>5, <1>9 DEF EnergyOf
    <2>2. CASE failed = "no"
      <3>1. p * (covered + e) <= total_uj + sum_w * e
        BY <2>2, <1>5, <1>9, <1>10, LowerStep
      <3>2. total_uj + sum_w * e <= q * ((covered + partial) + e)
        BY <2>2, <1>5, <1>9, <1>10, UpperStep
      <3>3. (covered + partial) + e = (covered + e) + partial
        BY <1>5
      <3>4. QED BY <2>2, <1>4, <3>1, <3>2, <3>3 DEF EnergyOf
    <2>3. CASE failed = "empty"
      <3>1. sum_w * e \in Nat /\ p * covered \in Nat
        BY <1>5
      <3>2. total_uj + sum_w * e <= q * ((covered + partial) + e)
        BY <2>3, <1>5, <1>9, <1>10, UpperStep
      <3>3. (covered + partial) + e = covered + (partial + e)
        BY <1>5
      <3>4. QED BY <2>3, <1>4, <1>5, <1>9, <3>1, <3>2, <3>3 DEF EnergyOf
    <2>4. QED BY <1>5, <2>1, <2>2, <2>3
  <1>12. QED BY <1>1, <1>8, <1>11 DEF Envelope

(* Below Word the total is the sum that the line was meant to give.        *)
LEMMA EntryKeepsEnergy ==
  ASSUME IInv, IInv', EnergyInv, board' = board, impl = "osp3", Osp3Entry PROVE EnergyInv'
  <1> USE PollingAssumption, Osp3Assumption DEF EnergyInv, call, pass
  <1>1. UNCHANGED <<impl, count, held, partial, skipped>> /\ tpc' = "head" /\ tpc = "read"
    BY DEF Osp3Entry
  <1>2. PICK ms \in Timestamps, mw \in Lo..Hi :
            /\ total_uj' = EntryTotal(mw, ms)
            /\ rolled' = (rolled \/ SinceLast(ms) < 0)
            /\ covered' = IF SinceLast(ms) > 0 THEN covered + SinceLast(ms) ELSE covered
            /\ last_us' = covered'
    BY DEF Osp3Entry
  <1>3. /\ total_uj \in Nat /\ covered \in Nat /\ count = 1 /\ partial = 0 /\ skipped = 0
        /\ covered' \in Nat /\ partial' = 0 /\ skipped' = 0
    BY <1>1 DEF IInv, SessionInv, SessionTypeOK, HeldShape, ThreadShape, Accounting
  <1>4. Accounting'
    BY <1>1, <1>2, <1>3 DEF Accounting
  <1>5. PassSum'
    BY <1>1 DEF PassSum
  <1>6. SUFFICES ASSUME Fits' PROVE Envelope'
    BY <1>4, <1>5 DEF Envelope
  <1>7. PICK d \in Int : d = SinceLast(ms)
    BY EntriesAreNaturals DEF IInv, SessionInv, TypeOK
  <1>8. d \in Nat /\ ~rolled
    <2>1. ~rolled'
      BY <1>6 DEF Fits
    <2>2. ~rolled /\ ~(SinceLast(ms) < 0)
      BY <1>2, <2>1, Zenon
    <2>3. QED BY <1>7, <2>2
  <1>9. covered' = covered + d
    BY <1>2, <1>3, <1>7, <1>8
  <1>10. Hi * covered' < Word
    BY <1>1, <1>6 DEF Fits, EnergyFits
  <1>11. Hi * (covered + d) = Hi * covered + Hi * d /\ Hi * d \in Nat /\ Hi * covered \in Nat
    BY <1>3, <1>8
  <1>12. Fits
    BY <1>1, <1>6, <1>8, <1>9, <1>10, <1>11 DEF Fits, EnergyFits, Lost
  <1>13. Lo * covered <= total_uj /\ total_uj <= Hi * covered
    BY <1>3, <1>12 DEF Envelope
  <1>14. mw \in Nat /\ Lo <= mw /\ mw <= Hi
    OBVIOUS
  <1>15. Lo * (covered + d) <= total_uj + mw * d
    BY <1>3, <1>8, <1>13, <1>14, LowerStep
  <1>16. total_uj + mw * d <= Hi * (covered + d)
    BY <1>3, <1>8, <1>13, <1>14, UpperStep
  <1>17. total_uj' = total_uj + mw * d
    <2>1. PICK z \in Nat : z = total_uj + mw * d
      BY <1>3, <1>8, <1>14
    <2>2. z < Word
      BY <2>1, <1>9, <1>10, <1>16, <1>11
    <2>3. z % Word = z
      BY <2>2
    <2>4. QED BY <1>2, <1>7, <2>1, <2>3 DEF EntryTotal
  <1>18. 1 * Lo = Lo /\ 1 * Hi = Hi
    OBVIOUS
  <1>19. (covered + d) + 0 = covered + d
    BY <1>3, <1>8
  <1>20. QED BY <1>1, <1>3, <1>9, <1>15, <1>16, <1>17, <1>18, <1>19 DEF Envelope
-----------------------------------------------------------------------------
(* Whatever the implementation, a step is one of these.                    *)

Opening ==
  \/ \E which, files, next :
       /\ Opened(which, files, next)
       /\ impl = "jetson" => files = {}
       /\ next \in {"opening", "creating", "stop", "release"}
            \/ (next = "idle" /\ impl = "ibmpowernv")
  \/ \E which, next : OpenFails(which, next) /\ next \in {"stop", "release"}

Creating ==
  /\ impl # "ibmpowernv"
  /\ \/ \E which : CreateThread(which)
     \/ \E which, polling, next :
          CreateFails(which, polling, next) /\ next \in {"stop", "release"}

Calling ==
  \/ ReadTotal /\ impl # "ibmpowernv"
  \/ PowerNvReadEnergy \/ FinishCall \/ StopThread

Moving ==
  \/ \E next \in {"head", "sleep"} : ThreadStart(next)
  \/ LeaveLoop \/ \E points \in SUBSET {"sleep", "read"} : ActOnCancel(points)
  \/ impl = "osp3" /\ Osp3NoEntry

Starting == \E which, n, files, pointer : InitCall(which, n, files, pointer)
Releasing == \E files, pointer : Release(files, pointer)

SharedSteps ==
  /\ board' = board
  /\ \/ Starting \/ Releasing
     \/ /\ rolled' = rolled
        /\ Opening \/ Creating \/ Calling \/ Moving \/ UNCHANGED session
     \/ Polled
     \/ impl = "osp3" /\ Osp3Entry

LEMMA InitCallIsShared ==
  ASSUME \/ Zcu102InitCall \/ IoctlInitCall \/ PowerNvInitCall \/ OspInitCall
         \/ JetsonInitCall \/ Osp3InitCall
  PROVE  Starting
  <1> USE DEF Starting
  <1>1. CASE Zcu102InitCall
    BY <1>1, Zenon DEF Zcu102InitCall
  <1>2. CASE IoctlInitCall
    BY <1>2, Zenon DEF IoctlInitCall
  <1>3. CASE PowerNvInitCall
    BY <1>3, Zenon DEF PowerNvInitCall
  <1>4. CASE OspInitCall
    BY <1>4, Zenon DEF OspInitCall
  <1>5. CASE JetsonInitCall
    BY <1>5, Zenon DEF JetsonInitCall
  <1>6. CASE Osp3InitCall
    BY <1>6, Zenon DEF Osp3InitCall
  <1>7. QED BY <1>1, <1>2, <1>3, <1>4, <1>5, <1>6

LEMMA ReleaseIsShared ==
  ASSUME \/ Release(Zcu102Closes, FALSE) \/ IoctlCloseAll \/ PowerNvRelease
         \/ Release({Library, 1}, FALSE) \/ JetsonRelease \/ Release({1}, 1 \in held)
  PROVE  Releasing
  BY Zenon DEF Releasing, IoctlCloseAll, PowerNvRelease, JetsonRelease

LEMMA OpenIsShared ==
  ASSUME \/ Zcu102Open \/ IoctlOpen \/ PowerNvOpen \/ OspOpen \/ JetsonOpen
         \/ JetsonWalkFails \/ Osp3Open
  PROVE  Opening
  <1>1. ASSUME NEW which, NEW files, NEW next, Opened(which, files, next),
               which = "jetson" => files = {},
               next \in {"opening", "creating", "stop", "release"}
                 \/ (next = "idle" /\ which = "ibmpowernv")
        PROVE  Opening
    <2>1. which = impl
      BY <1>1 DEF Opened
    <2>2. QED BY <1>1, <2>1, Zenon DEF Opening
  <1>2. ASSUME NEW which, NEW next, OpenFails(which, next), next \in {"stop", "release"}
        PROVE  Opening
    BY <1>2 DEF Opening
  <1>3. CASE Zcu102Open
    <2>1. ASSUME NEW s, Opened("zcu102", {s}, IF s = N THEN "creating" ELSE "opening")
          PROVE  Opening
      BY <1>1, <2>1
    <2>2. QED BY <1>2, <1>3, <2>1 DEF Zcu102Open
  <1>4. CASE IoctlOpen
    <2>1. ASSUME NEW s, \/ Opened("odroid_ioctl", {s}, IF s = N THEN "creating" ELSE "opening")
                        \/ Opened("odroid_ioctl", {s}, "release")
          PROVE  Opening
      BY <1>1, <2>1
    <2>2. QED BY <1>2, <1>4, <2>1 DEF IoctlOpen
  <1>5. CASE PowerNvOpen \/ OspOpen \/ Osp3Open
    BY <1>1, <1>2, <1>5 DEF PowerNvOpen, OspOpen, Osp3Open
  <1>6. CASE JetsonOpen \/ JetsonWalkFails
    BY <1>1, <1>2, <1>6 DEF JetsonOpen, JetsonWalkFails
  <1>7. QED BY <1>3, <1>4, <1>5, <1>6

LEMMA CreateIsShared ==
  ASSUME \/ Zcu102Create \/ IoctlCreate \/ PowerNvCreate \/ OspCreate
         \/ JetsonCreate \/ Osp3Create
  PROVE  Creating
  <1>1. impl # "ibmpowernv"
    BY DEF Zcu102Create, IoctlCreate, PowerNvCreate, OspCreate, JetsonCreate, Osp3Create,
           CreateThread, CreateFails
  <1>2. QED
    BY <1>1 DEF Creating, Zcu102Create, IoctlCreate, PowerNvCreate, OspCreate,
                JetsonCreate, Osp3Create

LEMMA PollIsShared ==
  ASSUME UNCHANGED <<board, rolled>>,
         Zcu102Poll \/ IoctlPoll \/ PowerNvPoll \/ JetsonPoll \/ OspPoll
  PROVE  Moving \/ Polled
  <1>1. OspCancelled => ActOnCancel({"sleep"})
    BY DEF OspCancelled, OspCancelledWhere, ActOnCancel
  <1>2. QED
    BY <1>1 DEF Moving, Polled, Zcu102Poll, IoctlPoll, PowerNvPoll, JetsonPoll, OspPoll

LEMMA NextIsShared == [Next]_vars => SharedSteps
  <1> SUFFICES ASSUME [Next]_vars PROVE SharedSteps
    OBVIOUS
  <1> USE DEF SharedSteps
  <1>1. CASE UNCHANGED vars
    BY <1>1 DEF vars, osp3Vars
  <1>2. CASE OpenMonitor /\ UNCHANGED <<board, osp3Vars>>
    BY <1>2, InitCallIsShared, OpenIsShared, CreateIsShared DEF OpenMonitor, osp3Vars
  <1>3. CASE Read /\ UNCHANGED <<board, osp3Vars>>
    BY <1>3 DEF Read, Zcu102Read, IoctlRead, PowerNvRead, OspRead, Calling, osp3Vars
  <1>4. CASE FinishMonitor /\ UNCHANGED <<board, osp3Vars>>
    BY <1>4, ReleaseIsShared
       DEF FinishMonitor, Zcu102Finish, IoctlFinish, PowerNvFinish, OspFinish, Calling, osp3Vars
  <1>5. CASE Poll /\ UNCHANGED <<board, osp3Vars>>
    BY <1>5, PollIsShared DEF Poll, osp3Vars
  <1>6. CASE /\ \/ JetsonInitCall \/ JetsonWalkFails \/ JetsonOpen \/ JetsonCreate
                \/ JetsonRead \/ JetsonFinish \/ JetsonRelease \/ JetsonPoll
             /\ UNCHANGED osp3Vars
    <2>1. UNCHANGED <<board, rolled>>
      BY <1>6 DEF JetsonInitCall, JetsonWalkFails, JetsonOpen, JetsonCreate, JetsonRead,
                  JetsonFinish, JetsonRelease, JetsonPoll, osp3Vars
    <2>2. QED
      BY <1>6, <2>1, InitCallIsShared, OpenIsShared, CreateIsShared, ReleaseIsShared,
         PollIsShared DEF JetsonRead, JetsonFinish, Calling
  <1>7. CASE /\ Osp3InitCall \/ Osp3Open \/ Osp3Create \/ Osp3InitRefused \/ Osp3Read
             /\ UNCHANGED board
    <2>1. Osp3Open \/ Osp3Create \/ Osp3Read \/ Osp3InitRefused => UNCHANGED rolled
      BY DEF Osp3Open, Osp3Create, Osp3Read, Osp3InitRefused, osp3Vars
    <2>2. Osp3Read => Calling
      BY DEF Osp3Read, Calling
    <2>3. Osp3InitRefused => UNCHANGED session
      BY DEF Osp3InitRefused
    <2>4. QED
      BY <1>7, <2>1, <2>2, <2>3, InitCallIsShared, OpenIsShared, CreateIsShared
  <1>8. CASE Osp3Finish /\ UNCHANGED board
    BY <1>8, ReleaseIsShared DEF Osp3Finish, Calling, osp3Vars
  <1>9. CASE Osp3Poll /\ UNCHANGED board
    BY <1>9 DEF Osp3Poll, Osp3NoEntry, Moving, Polled, osp3Vars
  <1>10. QED
    BY <1>1, <1>2, <1>3, <1>4, <1>5, <1>6, <1>7, <1>8, <1>9
       DEF Next, Finish, PollingThread, Stuck

LEMMA StartsAndEndsClear ==
  ASSUME IInv, NEW which, NEW n, NEW files, NEW pointer,
         InitCall(which, n, files, pointer) \/ Release(files, pointer)
  PROVE  Cleared
  <1>1. CASE InitCall(which, n, files, pointer)
    BY <1>1 DEF IInv, SessionInv, CallShape, ThreadShape, InitCall, ClearTotals, Cleared
  <1>2. CASE Release(files, pointer)
    BY <1>2 DEF IInv, SessionInv, ThreadShape, Release, ClearTotals, Cleared
  <1>3. QED BY <1>1, <1>2

LEMMA OpeningIsQuiet ==
  ASSUME UNCHANGED <<board, rolled>>, Opening PROVE Quiet
  BY DEF Opening, Opened, OpenFails, Quiet, history, pass

LEMMA CreatingIsQuiet ==
  ASSUME UNCHANGED <<board, rolled>>, Creating PROVE Quiet
  BY DEF Creating, CreateThread, CreateFails, Quiet, history, pass

LEMMA CallingIsQuiet ==
  ASSUME UNCHANGED <<board, rolled>>, Calling PROVE Quiet
  <1> USE DEF Quiet, history, pass
  <1>1. CASE ReadTotal \/ PowerNvReadEnergy \/ FinishCall
    BY <1>1 DEF ReadTotal, PowerNvReadEnergy, FinishCall
  <1>2. CASE StopPolling \/ CancelThread
    BY <1>2 DEF StopPolling, CancelThread
  <1>3. CASE JoinThread
    <2>1. tpc' \notin {"read", "account"}
      BY <1>3 DEF JoinThread, ThreadEnded, Live
    <2>2. QED BY <1>3, <2>1 DEF JoinThread
  <1>4. QED BY <1>1, <1>2, <1>3 DEF Calling, StopThread

LEMMA MovingIsQuiet ==
  ASSUME UNCHANGED <<board, rolled>>, Moving PROVE Quiet
  BY DEF Moving, ThreadStart, LeaveLoop, ActOnCancel, Osp3NoEntry, Quiet, call

LEMMA NextIsEnergySteps == IInv /\ [Next]_vars => EnergySteps
  <1> SUFFICES ASSUME IInv, [Next]_vars PROVE EnergySteps
    OBVIOUS
  <1> USE DEF EnergySteps
  <1>1. CASE Starting \/ Releasing
    BY <1>1, StartsAndEndsClear DEF Starting, Releasing
  <1>2. ASSUME UNCHANGED <<board, rolled>>, Opening \/ Creating \/ Calling \/ Moving
        PROVE  Quiet
    BY <1>2, OpeningIsQuiet, CreatingIsQuiet, CallingIsQuiet, MovingIsQuiet
  <1>3. UNCHANGED <<board, rolled>> /\ UNCHANGED session => Quiet
    BY DEF session, call, Quiet
  <1>4. QED BY <1>1, <1>2, <1>3, NextIsShared DEF SharedSteps

(* The sums and the histories of the thread agree.                         *)
THEOREM EnergyInvariance == Spec => []EnergyInv
  <1>1. Init => EnergyInv
    <2>1. SUFFICES ASSUME Init PROVE EnergyInv
      OBVIOUS
    <2>2. 0 * Lo * 0 = 0 /\ 0 * Hi * (0 + 0) = 0
      BY PollingAssumption
    <2>3. QED
      BY <2>1, <2>2 DEF Init, SessionInit, EnergyInv, Accounting, Envelope, PassSum
  <1>2. IInv /\ EnergyInv /\ [Next]_vars /\ IInv' => EnergyInv'
    BY NextIsEnergySteps, QuietKeepsEnergy, ClearedKeepsEnergy, StartPassKeepsEnergy,
       ReadSensorKeepsEnergy, AccountKeepsEnergy, EntryKeepsEnergy
       DEF EnergySteps, Polled
  <1>3. QED BY <1>1, <1>2, Invariance, PTL DEF Spec

(* Every unit of time is counted once, and the total of an implementation  *)
(* that polls is within what its sensors can have used in the time that is *)
(* accounted for, for any number of sensors, powers and intervals: what a  *)
(* pass with an error leaves behind is never added.  The loss of the       *)
(* default rails of a Jetson and the restart of an osp3 are excepted, as   *)
(* is an osp3 total that no longer fits its word.                          *)
THEOREM EnergyIsWithinEnvelope == Spec => []EnergyEnvelope
  <1>1. EnergyInv => EnergyEnvelope
    BY DEF EnergyInv, Accounting, Envelope, Fits, EnergyEnvelope, Lost, NoRails, RailsLost
  <1>2. QED BY <1>1, EnergyInvariance, PTL

-----------------------------------------------------------------------------
(* The energymon that any of these implementations is to its user.  Left   *)
(* out are the energy sensor of ibmpowernv, whose reading is not a total   *)
(* of this code, and an osp3 whose clock goes back or whose total wraps.   *)
Phase == CASE pc = "crashed" -> "dead"
           [] pc = "idle" -> IF allocated THEN "open" ELSE "closed"
           [] OTHER -> "busy"

EM == INSTANCE EnergyMonitor WITH phase <- Phase, energy <- total_uj, reading <- reading

Accumulates ==
  impl # "ibmpowernv" /\ (impl = "osp3" => ~rolled /\ Hi * covered < Word)

(* A session starts with nothing counted.                                  *)
StartsAtZero ==
  ~allocated \/ pc \in {"opening", "creating"} => total_uj = 0 /\ reading = 0

LEMMA PhaseCases ==
  /\ pc = "crashed" => Phase = "dead"
  /\ pc = "idle" /\ allocated => Phase = "open"
  /\ pc = "idle" /\ ~allocated => Phase = "closed"
  /\ pc \notin {"crashed", "idle"} => Phase = "busy"
  BY DEF Phase

LEMMA StartingRefines ==
  ASSUME IInv, StartsAtZero, Starting
  PROVE  [EM!EMNext]_EM!emVars /\ StartsAtZero'
  <1>1. /\ pc = "idle" /\ ~allocated /\ pc' = "opening"
        /\ total_uj' = 0 /\ reading' = 0
    BY DEF Starting, InitCall, ClearTotals, IInv, SessionInv, CallShape
  <1>2. EM!InitCall
    BY <1>1, PhaseCases DEF Phase, EM!InitCall, StartsAtZero
  <1>3. QED BY <1>1, <1>2 DEF EM!EMNext, StartsAtZero

LEMMA ReleasingRefines ==
  ASSUME Releasing PROVE [EM!EMNext]_EM!emVars /\ StartsAtZero'
  <1>1. /\ pc = "release" /\ pc' = "idle" /\ ~allocated'
        /\ total_uj' = 0 /\ reading' = 0
    BY DEF Releasing, Release, ClearTotals
  <1>2. EM!Release
    BY <1>1 DEF Phase, EM!Release
  <1>3. QED BY <1>1, <1>2 DEF EM!EMNext, StartsAtZero

LEMMA OpeningRefines ==
  ASSUME StartsAtZero, Opening, impl # "ibmpowernv"
  PROVE  [EM!EMNext]_EM!emVars /\ StartsAtZero'
  <1>1. /\ pc = "opening" /\ pc' \in {"opening", "creating", "stop", "release"}
        /\ UNCHANGED <<allocated, total_uj, reading>>
    BY DEF Opening, Opened, OpenFails
  <1>2. QED BY <1>1 DEF Phase, EM!emVars, StartsAtZero

LEMMA CreatingRefines ==
  ASSUME IInv, StartsAtZero, Creating
  PROVE  [EM!EMNext]_EM!emVars /\ StartsAtZero'
  <1>1. CASE \E which : CreateThread(which)
    <2>1. /\ pc = "creating" /\ pc' = "idle" /\ UNCHANGED <<allocated, total_uj, reading>>
      BY <1>1 DEF CreateThread
    <2>2. allocated /\ total_uj = 0 /\ reading = 0
      BY <2>1 DEF IInv, SessionInv, CallShape, StartsAtZero
    <2>3. EM!InitReturn
      BY <2>1, <2>2 DEF Phase, EM!InitReturn
    <2>4. QED BY <2>1, <2>2, <2>3 DEF EM!EMNext, StartsAtZero
  <1>2. CASE \E which, polling, next :
               CreateFails(which, polling, next) /\ next \in {"stop", "release"}
    <2>1. /\ pc = "creating" /\ pc' \in {"stop", "release"}
          /\ UNCHANGED <<allocated, total_uj, reading>>
      BY <1>2 DEF CreateFails
    <2>2. QED BY <2>1 DEF Phase, EM!emVars, StartsAtZero
  <1>3. QED BY <1>1, <1>2 DEF Creating

LEMMA CallingRefines ==
  ASSUME IInv, StartsAtZero, Calling, impl # "ibmpowernv"
  PROVE  [EM!EMNext]_EM!emVars /\ StartsAtZero'
  <1>1. CASE ReadTotal
    <2>1. /\ pc = "idle" /\ allocated /\ reading' = total_uj
          /\ UNCHANGED <<pc, allocated, total_uj>>
      BY <1>1 DEF ReadTotal
    <2>2. EM!FRead
      BY <2>1 DEF Phase, EM!FRead
    <2>3. QED BY <2>1, <2>2 DEF EM!EMNext, StartsAtZero
  <1>2. CASE FinishCall
    <2>1. /\ pc = "idle" /\ allocated /\ pc' = "stop"
          /\ UNCHANGED <<allocated, total_uj, reading>>
      BY <1>2 DEF FinishCall
    <2>2. EM!FinishCall
      BY <2>1 DEF Phase, EM!FinishCall
    <2>3. QED BY <2>1, <2>2 DEF EM!EMNext, StartsAtZero
  <1>3. CASE StopThread
    <2>1. /\ pc \in {"stop", "cancel", "join"}
          /\ pc' \in {"cancel", "join", "release", "crashed"}
          /\ UNCHANGED <<allocated, total_uj, reading>>
      BY <1>3 DEF StopThread, StopPolling, CancelThread, JoinThread
    <2>2. Phase = "busy" /\ Phase' \in {"busy", "dead"}
      BY <2>1 DEF Phase
    <2>3. EM!Die \/ UNCHANGED EM!emVars
      BY <2>1, <2>2 DEF EM!Die, EM!emVars
    <2>4. QED BY <2>1, <2>3 DEF EM!EMNext, StartsAtZero, IInv, SessionInv, CallShape
  <1>4. QED BY <1>1, <1>2, <1>3 DEF Calling, PowerNvReadEnergy

LEMMA MovingRefines ==
  ASSUME StartsAtZero, Moving \/ UNCHANGED session
  PROVE  [EM!EMNext]_EM!emVars /\ StartsAtZero'
  <1>1. UNCHANGED <<pc, allocated, total_uj, reading>>
    BY DEF Moving, ThreadStart, LeaveLoop, ActOnCancel, Osp3NoEntry, session, call
  <1>2. QED BY <1>1 DEF Phase, EM!emVars, StartsAtZero

(* The thread only runs while the energymon is open or on its way to be    *)
(* closed, and it never takes energy back.                                 *)
LEMMA AddingRefines ==
  ASSUME IInv, StartsAtZero, tpc # "none", UNCHANGED <<pc, allocated, reading>>,
         total_uj' \in Nat, total_uj' >= total_uj
  PROVE  [EM!EMNext]_EM!emVars /\ StartsAtZero'
  <1>1. allocated /\ pc \in {"idle", "stop", "cancel", "join"}
    BY DEF IInv, SessionInv, ThreadShape
  <1>2. EM!Accumulate
    BY <1>1 DEF Phase, EM!Accumulate
  <1>3. QED BY <1>1, <1>2 DEF EM!EMNext, StartsAtZero

LEMMA PolledRefines ==
  ASSUME IInv, StartsAtZero, Polled
  PROVE  [EM!EMNext]_EM!emVars /\ StartsAtZero'
  <1> USE DEF call
  <1>1. total_uj \in Nat
    BY DEF IInv, SessionInv, SessionTypeOK
  <1>2. CASE StartPass
    BY <1>1, <1>2, AddingRefines DEF StartPass
  <1>3. CASE \E mayBeEmpty \in BOOLEAN : ReadSensor(mayBeEmpty)
    BY <1>1, <1>3, AddingRefines DEF ReadSensor
  <1>4. CASE Account
    <2>1. PICK e \in 1..MaxInterval : total_uj' = total_uj + EnergyOf(e)
      BY <1>4 DEF Account
    <2>2. EnergyOf(e) \in Nat
      BY PollingAssumption DEF EnergyOf, IInv, SessionInv, SessionTypeOK
    <2>3. total_uj' \in Nat /\ total_uj' >= total_uj
      BY <1>1, <2>1, <2>2
    <2>4. QED BY <1>4, <2>3, AddingRefines DEF Account
  <1>5. QED BY <1>2, <1>3, <1>4 DEF Polled

(* A total that fits its word after the line has not wrapped.              *)
LEMMA EntryRefines ==
  ASSUME IInv, EnergyInv, StartsAtZero, impl = "osp3", Osp3Entry, Accumulates, Accumulates'
  PROVE  [EM!EMNext]_EM!emVars /\ StartsAtZero'
  <1> USE PollingAssumption, Osp3Assumption
  <1>1. /\ UNCHANGED <<impl, pc, allocated, reading, count, partial>> /\ tpc = "read"
    BY DEF Osp3Entry, call
  <1>2. PICK ms \in Timestamps, mw \in Lo..Hi :
            /\ total_uj' = EntryTotal(mw, ms)
            /\ rolled' = (rolled \/ SinceLast(ms) < 0)
            /\ covered' = IF SinceLast(ms) > 0 THEN covered + SinceLast(ms) ELSE covered
    BY DEF Osp3Entry
  <1>3. total_uj \in Nat /\ covered \in Nat /\ count = 1 /\ partial = 0
    BY <1>1 DEF IInv, SessionInv, SessionTypeOK, HeldShape, ThreadShape, EnergyInv, Accounting
  <1>4. PICK d \in Int : d = SinceLast(ms)
    BY EntriesAreNaturals DEF IInv, SessionInv, TypeOK
  <1>5. d \in Nat
    <2>1. ~rolled'
      BY <1>1 DEF Accumulates
    <2>2. ~(SinceLast(ms) < 0)
      BY <1>2, <2>1, Zenon
    <2>3. QED BY <1>4, <2>2
  <1>6. total_uj <= Hi * covered
    <2>1. Fits
      BY DEF Fits, Accumulates, EnergyFits, Lost
    <2>2. total_uj <= count * Hi * (covered + partial)
      BY <2>1 DEF EnergyInv, Envelope
    <2>3. 1 * Hi = Hi /\ covered + 0 = covered
      BY <1>3
    <2>4. QED BY <1>3, <2>2, <2>3
  <1>7. mw \in Nat /\ mw <= Hi
    OBVIOUS
  <1>8. total_uj + mw * d <= Hi * (covered + d)
    BY <1>3, <1>5, <1>6, <1>7, UpperStep
  <1>9. PICK z \in Nat : z = total_uj + mw * d
    BY <1>3, <1>5, <1>7
  <1>10. z >= total_uj
    <2>1. mw * d \in Nat
      BY <1>5, <1>7
    <2>2. QED BY <1>3, <1>9, <2>1
  <1>11. z < Word
    <2>1. Hi * covered' < Word /\ covered' = covered + d
      BY <1>1, <1>2, <1>3, <1>4, <1>5 DEF Accumulates
    <2>2. PICK y \in Nat : y = Hi * (covered + d)
      BY <1>3, <1>5
    <2>3. QED BY <1>8, <1>9, <2>1, <2>2
  <1>12. total_uj' = z
    <2>1. z % Word = z
      BY <1>11
    <2>2. QED BY <1>2, <1>4, <1>9, <2>1 DEF EntryTotal
  <1>13. QED BY <1>1, <1>10, <1>12, AddingRefines

(* The six that sum up themselves keep the contract of inc/energymon.h, as *)
(* long as the numbers of osp3 fit: every behaviour is one of the abstract *)
(* energymon, whose total starts at zero in each session, only grows in it *)
(* and is what a read returns, also while finish waits for the thread and  *)
(* after a finit that failed.                                              *)
THEOREM PollingImplementsEnergyMonitor == Spec /\ []Accumulates => EM!EMSpec
  <1>1. Init => EM!EMInit /\ StartsAtZero
    BY DEF Init, SessionInit, EM!EMInit, Phase, StartsAtZero
  <1>2. /\ IInv /\ EnergyInv /\ StartsAtZero /\ Accumulates /\ Accumulates' /\ [Next]_vars
        => [EM!EMNext]_EM!emVars /\ StartsAtZero'
    BY NextIsShared, StartingRefines, ReleasingRefines, OpeningRefines, CreatingRefines,
       CallingRefines, MovingRefines, PolledRefines, EntryRefines
       DEF SharedSteps, Accumulates
  <1>3. QED
    BY <1>1, <1>2, Invariance, EnergyInvariance, PTL DEF Spec, EM!EMSpec
-----------------------------------------------------------------------------
(* The default rails of a Jetson are lost only on the boards that have the *)
(* first rail of a family and not all of it: on every other board a finit  *)
(* that succeeds has all rails open.                                       *)
THEOREM RailsAreOpenOnOtherBoards == Spec /\ ~NoRails => []RailsOpen
  <1>1. ~NoRails /\ [Next]_vars => (~NoRails)'
    <2>1. [Next]_vars => board' = board
      BY NextIsShared DEF SharedSteps
    <2>2. QED BY <2>1, BoardDecides
  <1>2. IInv /\ ~NoRails => RailsOpen
    BY DEF IInv, SessionInv, OpenShape, AllOpen, Lost, RailsOpen, HeldShape, CallShape
  <1>3. QED BY <1>1, <1>2, Invariance, PTL DEF Spec
-----------------------------------------------------------------------------
(* A finish that has cleared poll_sensors is short: how far the call and   *)
(* the thread it waits for still are from their ends.                      *)
Finishing == pc \in {"cancel", "join", "release"}

CallRank == CASE pc = "cancel" -> 3 [] pc = "join" -> 2 [] pc = "release" -> 1 [] OTHER -> 0

ThreadRank == CASE tpc = "start" -> 2
                [] tpc = "read" -> 2 + (count - i)
                [] tpc \in {"head", "sleep", "account"} -> 1
                [] OTHER -> 0

FinishRank == CallRank + ThreadRank

(* The flag is off by the time the thread is told to end.                  *)
PollingOff == pc \in {"cancel", "join"} => ~poll_sensors

LEMMA ThreadRankIsBounded == IInv => ThreadRank \in 0..(N + 1)
  <1> SUFFICES ASSUME IInv PROVE ThreadRank \in 0..(N + 1)
    OBVIOUS
  <1>1. tpc = "read" => i \in 1..count /\ count \in 1..N
    BY DEF IInv, SessionInv, ThreadShape, CallShape, Sensors
  <1>2. CASE tpc = "read"
    BY <1>1, <1>2, PollingAssumption DEF ThreadRank
  <1>3. CASE tpc # "read"
    BY <1>3, PollingAssumption DEF ThreadRank
  <1>4. QED BY <1>2, <1>3

LEMMA RankIsBounded == IInv => FinishRank \in 0..(N + 4)
  <1>1. CallRank \in 0..3
    BY DEF CallRank
  <1>2. QED BY <1>1, ThreadRankIsBounded, PollingAssumption DEF FinishRank

LEMMA OffOnceStopped == IInv /\ PollingOff /\ [Next]_vars => PollingOff'
  <1> SUFFICES ASSUME IInv, PollingOff, SharedSteps PROVE PollingOff'
    BY NextIsShared
  <1> USE DEF PollingOff
  <1>1. CASE Starting \/ Releasing
    BY <1>1 DEF Starting, Releasing, InitCall, Release
  <1>2. CASE Opening \/ Creating
    BY <1>2 DEF Opening, Creating, Opened, OpenFails, CreateThread, CreateFails
  <1>3. CASE Calling
    BY <1>3 DEF Calling, ReadTotal, PowerNvReadEnergy, FinishCall, StopThread,
                StopPolling, CancelThread, JoinThread, IInv, SessionInv, SessionTypeOK
  <1>4. CASE Moving \/ Polled \/ (impl = "osp3" /\ Osp3Entry)
    BY <1>4 DEF Moving, Polled, ThreadStart, LeaveLoop, ActOnCancel, StartPass, ReadSensor,
                Account, Osp3Entry, Osp3NoEntry, call
  <1>5. CASE UNCHANGED session
    BY <1>5 DEF session, call
  <1>6. QED BY <1>1, <1>2, <1>3, <1>4, <1>5 DEF SharedSteps

(* One of the two ranks goes down and the other stays.                     *)
LEMMA RanksAdd ==
  ASSUME CallRank \in Nat, CallRank' \in Nat, ThreadRank \in Nat, ThreadRank' \in Nat,
         \/ CallRank' < CallRank /\ ThreadRank' = ThreadRank
         \/ CallRank' = CallRank /\ ThreadRank' < ThreadRank
  PROVE  FinishRank' < FinishRank
  <1>1. PICK c \in Nat, d \in Nat, t \in Nat, u \in Nat :
          CallRank = c /\ CallRank' = d /\ ThreadRank = t /\ ThreadRank' = u
    OBVIOUS
  <1>2. FinishRank = c + t /\ FinishRank' = d + u
    BY <1>1 DEF FinishRank
  <1>3. QED BY <1>1, <1>2

LEMMA CallStepsComeCloser ==
  ASSUME IInv, Finishing, Calling \/ Releasing
  PROVE  FinishRank' < FinishRank
  <1>1. CancelThread \/ JoinThread \/ Releasing
    BY DEF Finishing, Calling, ReadTotal, PowerNvReadEnergy, FinishCall, StopThread, StopPolling
  <1>2. ThreadRank' = ThreadRank /\ ThreadRank \in Nat /\ ThreadRank' \in Nat
    <2>1. CASE CancelThread
      <3>1. UNCHANGED <<tpc, count, i>>
        BY <2>1 DEF CancelThread, pass
      <3>2. QED BY <3>1, ThreadRankIsBounded, PollingAssumption DEF ThreadRank
    <2>2. CASE JoinThread
      BY <2>2 DEF JoinThread, ThreadEnded, Live, ThreadRank
    <2>3. CASE Releasing
      BY <2>3 DEF Releasing, Release, IInv, SessionInv, ThreadShape, ThreadRank
    <2>4. QED BY <1>1, <2>1, <2>2, <2>3
  <1>3. CallRank' < CallRank /\ CallRank \in Nat /\ CallRank' \in Nat
    BY <1>1 DEF CancelThread, JoinThread, Releasing, Release, CallRank
  <1>4. QED BY <1>2, <1>3, RanksAdd

LEMMA ThreadStepsComeCloser ==
  ASSUME IInv, PollingOff, Finishing, Moving \/ Polled \/ (impl = "osp3" /\ Osp3Entry)
  PROVE  FinishRank' < FinishRank
  <1>1. pc \in {"cancel", "join"} /\ ~poll_sensors
    BY DEF IInv, SessionInv, ThreadShape, Finishing, PollingOff, Moving, Polled, ThreadStart,
           LeaveLoop, ActOnCancel, StartPass, ReadSensor, Account, Osp3Entry, Osp3NoEntry
  <1>2. UNCHANGED <<pc, count>>
    BY DEF Moving, Polled, ThreadStart, LeaveLoop, ActOnCancel, StartPass, ReadSensor,
           Account, Osp3Entry, Osp3NoEntry, call
  <1>3. tpc = "read" => i \in Nat /\ count \in Nat /\ i <= count
    BY DEF IInv, SessionInv, SessionTypeOK, ThreadShape
  <1>4. ThreadRank' < ThreadRank /\ ThreadRank \in Nat /\ ThreadRank' \in Nat
    <2>1. CASE Moving
      BY <2>1, <1>2, <1>3 DEF Moving, ThreadStart, LeaveLoop, ActOnCancel, Osp3NoEntry, ThreadRank
    <2>2. CASE impl = "osp3" /\ Osp3Entry
      BY <2>2, <1>3 DEF Osp3Entry, ThreadRank
    <2>3. CASE Account
      BY <2>3, <1>1 DEF Account, ThreadRank
    <2>4. CASE \E mayBeEmpty \in BOOLEAN : ReadSensor(mayBeEmpty)
      BY <2>4, <1>2, <1>3 DEF ReadSensor, ThreadRank
    <2>5. ~StartPass
      BY <1>1 DEF StartPass
    <2>6. QED BY <2>1, <2>2, <2>3, <2>4, <2>5 DEF Polled
  <1>5. CallRank' = CallRank /\ CallRank \in Nat
    BY <1>2 DEF CallRank
  <1>6. QED BY <1>4, <1>5, RanksAdd

(* Once finish has cleared poll_sensors every step of the application or   *)
(* of the thread brings its end closer, so that they take no more than     *)
(* N + 4 of them together, whether or not the thread can be cancelled: it  *)
(* starts no new pass and its pass ends with its last sensor.  That these  *)
(* steps are taken is FinishReturns.                                       *)
THEOREM FinishIsShort ==
  Spec => /\ [](FinishRank \in 0..(N + 4))
          /\ [][Finishing => FinishRank' < FinishRank]_session
  <1>1. Init => PollingOff
    BY DEF Init, SessionInit, PollingOff
  <1>2. ASSUME IInv, PollingOff, [Next]_vars, Finishing
        PROVE  FinishRank' < FinishRank \/ UNCHANGED session
    <2>1. ~Starting /\ ~Opening /\ ~Creating
      BY <1>2 DEF Finishing, Starting, InitCall, Opening, Opened, OpenFails, Creating,
                  CreateThread, CreateFails
    <2>2. QED
      BY <1>2, <2>1, NextIsShared, CallStepsComeCloser, ThreadStepsComeCloser DEF SharedSteps
  <1>3. IInv /\ PollingOff /\ [Next]_vars => [Finishing => FinishRank' < FinishRank]_session
    BY <1>2
  <1>4. QED BY <1>1, <1>3, RankIsBounded, OffOnceStopped, Invariance, PTL DEF Spec
-----------------------------------------------------------------------------
(* What can crash the process: a failed pthread_create after which the     *)
(* clean-up of finit finds poll_sensors set.                               *)
CreationFails == pc = "creating" /\ pc' = "stop" /\ poll_sensors'

NobodyIsJoined ==
  /\ pc \in {"cancel", "join"} => tpc # "none"
  /\ pc = "stop" /\ poll_sensors => tpc # "none"
  /\ pc = "opening" => ~poll_sensors
  /\ pc # "crashed"

LEMMA NobodyIsJoinedStep ==
  ASSUME IInv, NobodyIsJoined, SharedSteps, ~CreationFails PROVE NobodyIsJoined'
  <1> USE DEF NobodyIsJoined
  <1>1. CASE Starting \/ Releasing
    BY <1>1 DEF Starting, Releasing, InitCall, Release
  <1>2. CASE Opening
    BY <1>2 DEF Opening, Opened, OpenFails
  <1>3. CASE Creating
    BY <1>3 DEF Creating, CreateThread, CreateFails, CreationFails
  <1>4. CASE ReadTotal \/ PowerNvReadEnergy \/ FinishCall
    BY <1>4 DEF ReadTotal, PowerNvReadEnergy, FinishCall, IInv, SessionInv, ThreadShape
  <1>5. CASE StopThread
    BY <1>5 DEF StopThread, StopPolling, CancelThread, JoinThread, IInv, SessionInv, SessionTypeOK
  <1>6. CASE Moving \/ Polled \/ (impl = "osp3" /\ Osp3Entry)
    BY <1>6 DEF Moving, Polled, ThreadStart, LeaveLoop, ActOnCancel, StartPass, ReadSensor,
                Account, Osp3Entry, Osp3NoEntry, call
  <1>7. CASE UNCHANGED session
    BY <1>7 DEF session, call
  <1>8. QED BY <1>1, <1>2, <1>3, <1>4, <1>5, <1>6, <1>7 DEF SharedSteps, Calling

(* Whatever fails in finit or while polling, the process crashes only      *)
(* after a failed pthread_create, and only in the implementations whose    *)
(* clean-up is ffinish with poll_sensors set.                              *)
THEOREM OnlyFailedCreationCrashes ==
  Spec /\ [][~CreationFails]_vars => [](pc # "crashed")
  <1>1. Init => NobodyIsJoined
    BY DEF Init, SessionInit, NobodyIsJoined
  <1>2. ASSUME IInv, NobodyIsJoined, [Next]_vars, [~CreationFails]_vars
        PROVE  NobodyIsJoined'
    <2>1. CASE UNCHANGED vars
      BY <1>2, <2>1 DEF vars, session, call, NobodyIsJoined
    <2>2. CASE ~CreationFails
      BY <1>2, <2>2, NextIsShared, NobodyIsJoinedStep
    <2>3. QED BY <1>2, <2>1, <2>2
  <1>3. NobodyIsJoined => pc # "crashed"
    BY DEF NobodyIsJoined
  <1>4. QED BY <1>1, <1>2, <1>3, Invariance, PTL DEF Spec
=============================================================================
