------------------------ MODULE OdroidMonitorProofs ------------------------
(***************************************************************************)
(* The safety of OdroidMonitor for every number of sensors, every range of *)
(* readings and every bound on intervals and passes.                       *)
(***************************************************************************)
EXTENDS OdroidMonitor, TLAPS

(* Which parts of *state exist at each point of finit and ffinish.         *)
AllFdsOpen == \A s \in Sensors : fds[s] = "open"

LifeCycle ==
  /\ pc \in {"opening", "creating"} => /\ allocated /\ tpc = "none"
                                       /\ ~poll_sensors /\ ~cancelled
  /\ pc = "opening" => \A s \in Sensors : s < k => fds[s] = "open"
  /\ pc = "creating" => AllFdsOpen
  /\ pc = "idle" /\ allocated => poll_sensors /\ tpc # "none" /\ ~cancelled
  /\ pc = "idle" /\ ~allocated => tpc = "none" /\ \A s \in Sensors : fds[s] # "open"
  /\ pc \in {"stop", "cancel", "join", "close"} => allocated
  /\ pc = "stop" => (poll_sensors \/ tpc = "none") /\ ~cancelled
  /\ pc \in {"creating", "stop", "cancel", "join"} => k = 1
  /\ pc \in {"cancel", "join"} => ~poll_sensors
  /\ pc = "close" => tpc = "none" /\ \A s \in Sensors : s < k => fds[s] # "open"
  /\ pc = "crashed" => tpc = "none"
  /\ tpc # "none" => allocated /\ AllFdsOpen
  /\ tpc = "none" => ~cancelled
  /\ pc \in {"opening", "creating"} \/ (pc = "idle" /\ ~allocated)
       => total_uj = 0 /\ reading = 0

(* The sum of a pass under way is what the sensors it has read can give.   *)
PassSum ==
  /\ tpc = "read" => /\ i \in Sensors
                     /\ failed # "error"
                     /\ sum_w <= Hi * (i - 1)
                     /\ failed = "no" => Lo * (i - 1) <= sum_w
  /\ tpc = "account" /\ failed # "error" =>
                     /\ sum_w <= Hi * N
                     /\ failed = "no" => Lo * N <= sum_w

(* The envelope, with its products in the form the steps produce.          *)
Envelope ==
  /\ last_us = covered + partial + skipped
  /\ allocated => (Lo * N) * covered <= total_uj
  /\ total_uj <= (Hi * N) * (covered + partial)

IInv == TypeOK /\ LifeCycle /\ PassSum /\ Envelope

-----------------------------------------------------------------------------
(* One more reading, at least Lo and at most Hi, moves the bounds by one.  *)
LEMMA OneMoreReading ==
  ASSUME NEW b \in Nat, NEW n \in Nat \ {0} PROVE b * n = b * (n - 1) + b
  OBVIOUS

(* Multiplication is monotone and distributes over addition.               *)
LEMMA MulMonotone ==
  ASSUME NEW a \in Nat, NEW b \in Nat, NEW e \in Nat, a <= b
  PROVE  a * e <= b * e
  <1>1. PICK d \in Nat : b = a + d
    <2>1. b - a \in Nat /\ b = a + (b - a)
      OBVIOUS
    <2>2. QED BY <2>1
  <1>2. b * e = a * e + d * e
    BY <1>1
  <1>3. d * e \in Nat /\ a * e \in Nat
    OBVIOUS
  <1>4. QED BY <1>2, <1>3

LEMMA UpperStep ==
  ASSUME NEW p \in Nat, NEW c \in Nat, NEW e \in Nat, NEW total \in Nat, NEW sum \in Nat,
         total <= p * c, sum <= p
  PROVE  total + sum * e <= p * (c + e)
  <1>1. sum * e <= p * e
    BY MulMonotone
  <1>2. p * (c + e) = p * c + p * e
    OBVIOUS
  <1>3. p * c \in Nat /\ p * e \in Nat /\ sum * e \in Nat
    OBVIOUS
  <1>4. QED BY <1>1, <1>2, <1>3

LEMMA LowerStep ==
  ASSUME NEW p \in Nat, NEW c \in Nat, NEW e \in Nat, NEW total \in Nat, NEW sum \in Nat,
         p * c <= total, p <= sum
  PROVE  p * (c + e) <= total + sum * e
  <1>1. p * e <= sum * e
    BY MulMonotone
  <1>2. p * (c + e) = p * c + p * e
    OBVIOUS
  <1>3. p * c \in Nat /\ p * e \in Nat /\ sum * e \in Nat
    OBVIOUS
  <1>4. QED BY <1>1, <1>2, <1>3

-----------------------------------------------------------------------------
LEMMA InitEstablishes == Init => IInv
  <1> SUFFICES ASSUME Init PROVE IInv
    OBVIOUS
  <1> USE OdroidAssumption DEF Init, NoSensorOpen, Sensors
  <1>1. TypeOK
    <2>1. pc \in AppPc /\ tpc \in ThreadPc /\ fds \in [Sensors -> FdState]
      BY DEF AppPc, FdState, ThreadPc
    <2>2. k \in 1..(N + 1) /\ i \in 1..(N + 1)
      OBVIOUS
    <2>3. allocated \in BOOLEAN /\ poll_sensors \in BOOLEAN /\ cancelled \in BOOLEAN
      OBVIOUS
    <2>4. QED BY <2>1, <2>2, <2>3 DEF TypeOK
  <1>2. LifeCycle
    BY DEF LifeCycle
  <1>3. PassSum
    BY DEF PassSum
  <1>4. Envelope
    BY DEF Envelope
  <1>5. QED BY <1>1, <1>2, <1>3, <1>4 DEF IInv

(* The steps of finit and ffinish keep the pass and the energy as they     *)
(* are, or start a session with nothing counted.                           *)
LEMMA ApplicationPreserves == IInv /\ Application => IInv'
  <1> SUFFICES ASSUME IInv, Application PROVE IInv'
    OBVIOUS
  <1> USE OdroidAssumption
  <1> USE DEF IInv, Sensors, appVars, stateVars, passVars, history
  <1>1. CASE FindSensors
    <2>1. TypeOK'
      <3>1. pc' \in AppPc /\ fds' \in [Sensors -> FdState] /\ k' \in 1..(N + 1)
        BY <1>1 DEF FindSensors, NoSensorOpen, AppPc, FdState
      <3>2. allocated' \in BOOLEAN /\ poll_sensors' \in BOOLEAN
        BY <1>1 DEF FindSensors
      <3>3. /\ total_uj' \in Nat /\ reading' \in Nat /\ passes' \in Nat
            /\ last_us' \in Nat /\ covered' \in Nat /\ partial' \in Nat /\ skipped' \in Nat
        BY <1>1 DEF FindSensors
      <3>4. QED BY <1>1, <3>1, <3>2, <3>3 DEF FindSensors, TypeOK
    <2>2. LifeCycle'
      BY <1>1 DEF FindSensors, NoSensorOpen, LifeCycle, AllFdsOpen
    <2>3. PassSum'
      BY <1>1 DEF FindSensors, LifeCycle, PassSum
    <2>4. Envelope'
      BY <1>1 DEF FindSensors, Envelope
    <2>5. QED BY <2>1, <2>2, <2>3, <2>4
  <1>2. CASE FindSensorsOutOfMemory
    <2>1. TypeOK'
      BY <1>2 DEF FindSensorsOutOfMemory, TypeOK, AppPc
    <2>2. LifeCycle'
      BY <1>2 DEF FindSensorsOutOfMemory, LifeCycle, AllFdsOpen
    <2>3. PassSum' /\ Envelope'
      BY <1>2 DEF FindSensorsOutOfMemory, PassSum, Envelope
    <2>4. QED BY <2>1, <2>2, <2>3
  <1>3. CASE OpenSensor
    <2>1. TypeOK'
      BY <1>3 DEF OpenSensor, TypeOK, AppPc, FdState
    <2>2. LifeCycle'
      BY <1>3 DEF OpenSensor, LifeCycle, AllFdsOpen, TypeOK
    <2>3. PassSum' /\ Envelope'
      BY <1>3 DEF OpenSensor, PassSum, Envelope
    <2>4. QED BY <2>1, <2>2, <2>3
  <1>4. CASE AllOpen
    <2>1. TypeOK'
      BY <1>4 DEF AllOpen, TypeOK, AppPc
    <2>2. LifeCycle'
      BY <1>4 DEF AllOpen, LifeCycle, AllFdsOpen, TypeOK
    <2>3. PassSum' /\ Envelope'
      BY <1>4 DEF AllOpen, PassSum, Envelope
    <2>4. QED BY <2>1, <2>2, <2>3
  <1>5. CASE CreateThread
    <2>1. TypeOK'
      BY <1>5 DEF CreateThread, TypeOK, AppPc, ThreadPc
    <2>2. LifeCycle'
      BY <1>5 DEF CreateThread, LifeCycle, AllFdsOpen
    <2>3. PassSum' /\ Envelope'
      BY <1>5 DEF CreateThread, LifeCycle, PassSum, Envelope
    <2>4. QED BY <2>1, <2>2, <2>3
  <1>6. CASE ReadTotal
    BY <1>6 DEF ReadTotal, TypeOK, LifeCycle, AllFdsOpen, PassSum, Envelope
  <1>7. CASE FinishCall
    <2>1. TypeOK'
      BY <1>7 DEF FinishCall, TypeOK, AppPc
    <2>2. LifeCycle'
      BY <1>7 DEF FinishCall, LifeCycle, AllFdsOpen
    <2>3. PassSum' /\ Envelope'
      BY <1>7 DEF FinishCall, PassSum, Envelope
    <2>4. QED BY <2>1, <2>2, <2>3
  <1>8. CASE StopPolling
    <2>1. TypeOK'
      BY <1>8 DEF StopPolling, TypeOK, AppPc
    <2>2. LifeCycle'
      <3>1. CASE poll_sensors
        BY <1>8, <3>1 DEF StopPolling, LifeCycle, AllFdsOpen
      <3>2. CASE ~poll_sensors
        <4>1. tpc = "none" /\ allocated /\ ~cancelled /\ k = 1
          BY <1>8, <3>2 DEF StopPolling, LifeCycle
        <4>2. QED BY <1>8, <3>2, <4>1 DEF StopPolling, LifeCycle, AllFdsOpen, TypeOK
      <3>3. QED BY <3>1, <3>2
    <2>3. PassSum' /\ Envelope'
      BY <1>8 DEF StopPolling, PassSum, Envelope
    <2>4. QED BY <2>1, <2>2, <2>3
  <1>9. CASE CancelThread
    <2>1. TypeOK'
      BY <1>9 DEF CancelThread, TypeOK, AppPc
    <2>2. LifeCycle'
      BY <1>9 DEF CancelThread, LifeCycle, AllFdsOpen
    <2>3. PassSum' /\ Envelope'
      BY <1>9 DEF CancelThread, PassSum, Envelope
    <2>4. QED BY <2>1, <2>2, <2>3
  <1>10. CASE JoinThread
    <2>1. TypeOK'
      BY <1>10 DEF JoinThread, TypeOK, AppPc, ThreadPc
    <2>2. LifeCycle'
      <3>1. allocated /\ ~poll_sensors /\ k = 1
        BY <1>10 DEF JoinThread, LifeCycle
      <3>2. tpc' = "none" /\ ~cancelled'
        BY <1>10 DEF JoinThread, ThreadEnded, Live, TypeOK, ThreadPc
      <3>3. QED BY <1>10, <3>1, <3>2 DEF JoinThread, LifeCycle, AllFdsOpen, TypeOK
    <2>3. PassSum' /\ Envelope'
      BY <1>10 DEF JoinThread, ThreadEnded, Live, PassSum, Envelope
    <2>4. QED BY <2>1, <2>2, <2>3
  <1>11. CASE CloseSensor
    <2>1. TypeOK'
      BY <1>11 DEF CloseSensor, TypeOK, FdState
    <2>2. LifeCycle'
      BY <1>11 DEF CloseSensor, LifeCycle, AllFdsOpen, TypeOK
    <2>3. PassSum' /\ Envelope'
      BY <1>11 DEF CloseSensor, PassSum, Envelope
    <2>4. QED BY <2>1, <2>2, <2>3
  <1>12. CASE FreeState
    <2>1. TypeOK'
      <3>1. pc' \in AppPc /\ k' \in 1..(N + 1)
        BY <1>12 DEF FreeState, AppPc
      <3>2. allocated' \in BOOLEAN /\ reading' \in Nat /\ total_uj' \in Nat
        BY <1>12 DEF FreeState
      <3>3. QED BY <1>12, <3>1, <3>2 DEF FreeState, TypeOK
    <2>2. LifeCycle'
      BY <1>12 DEF FreeState, AllClosed, LifeCycle, AllFdsOpen, TypeOK
    <2>3. PassSum' /\ Envelope'
      BY <1>12 DEF FreeState, LifeCycle, PassSum, Envelope, TypeOK
    <2>4. QED BY <2>1, <2>2, <2>3
  <1>13. QED
    BY <1>1, <1>2, <1>3, <1>4, <1>5, <1>6, <1>7, <1>8, <1>9, <1>10, <1>11, <1>12
       DEF Application

(* A pass reads the sensors in order and accounts for its interval once.   *)
LEMMA PollingThreadPreserves == IInv /\ PollingThread => IInv'
  <1> SUFFICES ASSUME IInv, PollingThread PROVE IInv'
    OBVIOUS
  <1> USE OdroidAssumption
  <1> USE DEF IInv, Sensors, appVars, stateVars, passVars, history
  <1>1. CASE ThreadStart
    BY <1>1 DEF ThreadStart, TypeOK, ThreadPc, LifeCycle, AllFdsOpen, PassSum, Envelope
  <1>2. CASE StartPass
    <2>1. TypeOK'
      BY <1>2 DEF StartPass, TypeOK, ThreadPc
    <2>2. LifeCycle'
      BY <1>2 DEF StartPass, LifeCycle, AllFdsOpen
    <2>3. PassSum'
      BY <1>2 DEF StartPass, PassSum
    <2>4. Envelope'
      BY <1>2 DEF StartPass, Envelope
    <2>5. QED BY <2>1, <2>2, <2>3, <2>4
  <1>3. CASE LeaveLoop
    BY <1>3 DEF LeaveLoop, TypeOK, ThreadPc, LifeCycle, AllFdsOpen, PassSum, Envelope
  <1>4. CASE ReadSensor
    <2>1. i \in Sensors /\ i + 1 \in 1..(N + 1)
      BY <1>4 DEF ReadSensor, PassSum, TypeOK
    <2>2. TypeOK'
      BY <1>4, <2>1 DEF ReadSensor, TypeOK, ThreadPc
    <2>3. LifeCycle'
      BY <1>4 DEF ReadSensor, LifeCycle, AllFdsOpen
    <2>4. Hi * i = Hi * (i - 1) + Hi /\ Lo * i = Lo * (i - 1) + Lo
      BY <2>1, OneMoreReading
    <2>5. Hi * (i - 1) \in Nat /\ Lo * (i - 1) \in Nat
      BY <2>1
    <2>6. failed' # "error" => sum_w' <= Hi * i /\ (failed' = "no" => Lo * i <= sum_w')
      <3> DEFINE hp == Hi * (i - 1)
                 lp == Lo * (i - 1)
                 h == Hi * i
                 l == Lo * i
      <3>1. sum_w \in Nat /\ sum_w <= hp /\ (failed = "no" => lp <= sum_w)
        BY <1>4 DEF ReadSensor, PassSum, TypeOK
      <3>2. hp \in Nat /\ lp \in Nat /\ h = hp + Hi /\ l = lp + Lo
        BY <2>4, <2>5
      <3> HIDE DEF hp, lp, h, l
      <3>3. failed' # "error" => sum_w' <= h /\ (failed' = "no" => l <= sum_w')
        BY <1>4, <3>1, <3>2 DEF ReadSensor
      <3>4. QED BY <3>3 DEF h, l
    <2>7. PassSum'
      <3>1. i' = i + 1 /\ i' - 1 = i
        BY <1>4, <2>1 DEF ReadSensor
      <3>2. tpc' = "read" => i # N /\ failed' # "error"
        BY <1>4 DEF ReadSensor, LastSensor
      <3>3. tpc' = "account" /\ failed' # "error" => i = N
        BY <1>4 DEF ReadSensor, LastSensor
      <3>4. QED BY <2>1, <2>6, <3>1, <3>2, <3>3 DEF PassSum
    <2>8. Envelope'
      BY <1>4 DEF ReadSensor, Envelope
    <2>9. QED BY <2>2, <2>3, <2>7, <2>8
  <1>5. CASE Account
    <2>1. PICK exec_us \in 1..MaxInterval :
            /\ last_us' = last_us + exec_us
            /\ total_uj' = TotalAfter(exec_us)
            /\ covered' = IF failed = "no" THEN covered + exec_us ELSE covered
            /\ partial' = IF failed = "empty" THEN partial + exec_us ELSE partial
            /\ skipped' = IF failed = "error" THEN skipped + exec_us ELSE skipped
      BY <1>5 DEF Account
    <2>2. /\ UNCHANGED <<appVars, fds, poll_sensors, cancelled, passVars>>
          /\ tpc = "account" /\ tpc' \in {"sleep", "exited"}
      BY <1>5 DEF Account
    <2>3. exec_us \in Nat /\ sum_w * exec_us \in Nat
      BY <2>1 DEF TypeOK
    <2>4. TypeOK'
      <3>1. total_uj' \in Nat
        BY <2>1, <2>3 DEF TotalAfter, IntervalEnergy, TypeOK
      <3>2. last_us' \in Nat /\ covered' \in Nat /\ partial' \in Nat /\ skipped' \in Nat
        BY <2>1, <2>3 DEF TypeOK
      <3>3. QED BY <2>2, <3>1, <3>2 DEF TypeOK, ThreadPc
    <2>5. LifeCycle'
      BY <2>2 DEF LifeCycle, AllFdsOpen
    <2>6. PassSum'
      BY <2>2 DEF PassSum
    <2>7. Envelope'
      <3>1. last_us' = covered' + partial' + skipped'
        BY <2>1, <2>3 DEF Envelope, TypeOK
      <3>2. Lo * N \in Nat /\ Hi * N \in Nat /\ allocated
        BY <2>2 DEF LifeCycle
      <3>3. CASE failed = "error"
        BY <2>1, <2>2, <2>3, <3>1, <3>3 DEF Envelope, TotalAfter, IntervalEnergy, TypeOK
      <3>4. CASE failed = "no"
        <4>1. total_uj' = total_uj + sum_w * exec_us /\ covered' = covered + exec_us
              /\ partial' = partial
          BY <2>1, <3>4 DEF TotalAfter, IntervalEnergy
        <4>2. (Lo * N) * (covered + exec_us) <= total_uj + sum_w * exec_us
          BY <2>2, <2>3, <3>2, <3>4, LowerStep DEF Envelope, PassSum, TypeOK
        <4>3. total_uj + sum_w * exec_us <= (Hi * N) * ((covered + partial) + exec_us)
          BY <2>2, <2>3, <3>2, <3>4, UpperStep DEF Envelope, PassSum, TypeOK
        <4>4. covered' + partial' = (covered + partial) + exec_us
          BY <4>1, <2>3 DEF TypeOK
        <4>5. QED BY <3>1, <4>1, <4>2, <4>3, <4>4 DEF Envelope
      <3>5. CASE failed = "empty"
        <4>1. total_uj' = total_uj + sum_w * exec_us /\ covered' = covered
              /\ partial' = partial + exec_us
          BY <2>1, <3>5 DEF TotalAfter, IntervalEnergy
        <4>2. (Lo * N) * covered <= total_uj + sum_w * exec_us
          <5>1. (Lo * N) * covered \in Nat
            BY <3>2 DEF TypeOK
          <5>2. QED BY <5>1, <2>3, <3>2 DEF Envelope, TypeOK
        <4>3. total_uj + sum_w * exec_us <= (Hi * N) * ((covered + partial) + exec_us)
          BY <2>2, <2>3, <3>2, <3>5, UpperStep DEF Envelope, PassSum, TypeOK
        <4>4. covered' + partial' = (covered + partial) + exec_us
          BY <4>1, <2>3 DEF TypeOK
        <4>5. QED BY <3>1, <4>1, <4>2, <4>3, <4>4 DEF Envelope
      <3>6. QED BY <3>3, <3>4, <3>5 DEF TypeOK
    <2>8. QED BY <2>4, <2>5, <2>6, <2>7
  <1>6. CASE ActOnCancel
    BY <1>6 DEF ActOnCancel, TypeOK, ThreadPc, LifeCycle, AllFdsOpen, PassSum, Envelope
  <1>7. QED
    BY <1>1, <1>2, <1>3, <1>4, <1>5, <1>6 DEF PollingThread

LEMMA NextPreserves == IInv /\ [Next]_vars => IInv'
  <1> SUFFICES ASSUME IInv, [Next]_vars PROVE IInv'
    OBVIOUS
  <1>1. CASE UNCHANGED vars
    BY <1>1 DEF IInv, TypeOK, LifeCycle, AllFdsOpen, PassSum, Envelope,
                vars, appVars, stateVars, passVars, history
  <1>2. QED
    BY <1>1, ApplicationPreserves, PollingThreadPreserves DEF Next, Crashed

(* The inductive invariant holds in every reachable state.                 *)
THEOREM Invariance == Spec => []IInv
  BY InitEstablishes, NextPreserves, PTL DEF Spec

-----------------------------------------------------------------------------
(* Every variable has its type in every reachable state.                   *)
THEOREM TypeCorrect == Spec => []TypeOK
  <1>1. IInv => TypeOK
    BY DEF IInv
  <1>2. QED BY <1>1, Invariance, PTL

(* The polling thread never touches a freed *state or a descriptor that    *)
(* is not open, whatever the number of sensors.                            *)
THEOREM ThreadIsConfined == Spec => []ThreadConfined
  <1>1. IInv => ThreadConfined
    BY DEF IInv, LifeCycle, AllFdsOpen, Live, ThreadConfined
  <1>2. QED BY <1>1, Invariance, PTL

(* A finish or a failed init leaves no descriptor and no thread behind; a  *)
(* successful init leaves everything in place.                             *)
THEOREM InitAndFinishAreAllOrNothing == Spec => []AllOrNothing
  <1>1. IInv => AllOrNothing
    BY DEF IInv, LifeCycle, AllFdsOpen, AllOrNothing
  <1>2. QED BY <1>1, Invariance, PTL

(* The total is within what the sensors can report for the time it covers. *)
THEOREM EnergyIsWithinEnvelope == Spec => []EnergyEnvelope
  <1>1. IInv => EnergyEnvelope
    <2> SUFFICES ASSUME IInv PROVE EnergyEnvelope
      OBVIOUS
    <2>1. N * Lo = Lo * N /\ N * Hi = Hi * N
      BY OdroidAssumption
    <2>2. QED BY <2>1 DEF IInv, Envelope, EnergyEnvelope
  <1>2. QED BY <1>1, Invariance, PTL

-----------------------------------------------------------------------------
(* A step of the application is a call, a return, a read or a stutter of   *)
(* the abstract energymon.                                                 *)
LEMMA ApplicationRefines == IInv /\ Application => [EM!EMNext]_EM!emVars
  <1> SUFFICES ASSUME IInv, Application PROVE [EM!EMNext]_EM!emVars
    OBVIOUS
  <1> USE DEF EM!EMNext, EM!emVars, Phase, stateVars
  <1>1. CASE FindSensors
    BY <1>1 DEF FindSensors, EM!InitCall, IInv, LifeCycle
  <1>2. CASE FindSensorsOutOfMemory
    BY <1>2 DEF FindSensorsOutOfMemory, EM!Die
  <1>3. CASE OpenSensor
    BY <1>3 DEF OpenSensor
  <1>4. CASE AllOpen
    BY <1>4 DEF AllOpen
  <1>5. CASE CreateThread
    BY <1>5 DEF CreateThread, EM!InitReturn, IInv, LifeCycle
  <1>6. CASE ReadTotal
    BY <1>6 DEF ReadTotal, EM!FRead
  <1>7. CASE FinishCall
    BY <1>7 DEF FinishCall, EM!FinishCall
  <1>8. CASE StopPolling
    BY <1>8 DEF StopPolling
  <1>9. CASE CancelThread
    BY <1>9 DEF CancelThread, EM!Die
  <1>10. CASE JoinThread
    BY <1>10 DEF JoinThread, EM!Die
  <1>11. CASE CloseSensor
    BY <1>11 DEF CloseSensor
  <1>12. CASE FreeState
    BY <1>12 DEF FreeState, EM!Release
  <1>13. QED
    BY <1>1, <1>2, <1>3, <1>4, <1>5, <1>6, <1>7, <1>8, <1>9, <1>10, <1>11, <1>12
       DEF Application

(* A step of the polling thread accumulates or stutters.                   *)
LEMMA PollingThreadRefines == IInv /\ PollingThread => [EM!EMNext]_EM!emVars
  <1> SUFFICES ASSUME IInv, PollingThread PROVE [EM!EMNext]_EM!emVars
    OBVIOUS
  <1> USE DEF EM!emVars, Phase, appVars, stateVars
  <1>1. CASE Account
    <2>1. UNCHANGED <<pc, allocated, reading>> /\ pc # "crashed" /\ allocated
      BY <1>1 DEF Account, IInv, LifeCycle
    <2>2. Phase \in {"open", "busy"} /\ UNCHANGED Phase
      BY <2>1
    <2>3. PICK exec_us \in 1..MaxInterval : total_uj' = TotalAfter(exec_us)
      BY <1>1 DEF Account
    <2>4. sum_w * exec_us \in Nat /\ total_uj \in Nat
      BY OdroidAssumption DEF IInv, TypeOK
    <2>5. total_uj' \in Nat /\ total_uj' >= total_uj
      BY <2>3, <2>4 DEF TotalAfter, IntervalEnergy
    <2>6. EM!Accumulate
      BY <2>1, <2>2, <2>5 DEF EM!Accumulate
    <2>7. QED BY <2>6 DEF EM!EMNext
  <1>2. CASE ThreadStart \/ StartPass \/ LeaveLoop \/ ReadSensor \/ ActOnCancel
    BY <1>2 DEF ThreadStart, StartPass, LeaveLoop, ReadSensor, ActOnCancel
  <1>3. QED BY <1>1, <1>2 DEF PollingThread

(* The ODROID implementation keeps the contract of inc/energymon.h: every  *)
(* behaviour is one of the abstract energymon, whose total only grows      *)
(* within a session and whose read returns it.                             *)
THEOREM OdroidImplementsEnergyMonitor == Spec => IsEnergyMonitor
  <1>1. Init => EM!EMInit
    BY DEF Init, EM!EMInit, Phase
  <1>2. IInv /\ [Next]_vars => [EM!EMNext]_EM!emVars
    <2> SUFFICES ASSUME IInv, [Next]_vars PROVE [EM!EMNext]_EM!emVars
      OBVIOUS
    <2>1. CASE UNCHANGED vars
      BY <2>1 DEF vars, appVars, stateVars, EM!emVars, Phase
    <2>2. QED
      BY <2>1, ApplicationRefines, PollingThreadRefines DEF Next, Crashed
  <1>3. QED
    BY <1>1, <1>2, Invariance, PTL DEF Spec, IsEnergyMonitor, EM!EMSpec
-----------------------------------------------------------------------------
(* A finish that has cleared poll_sensors is short: how far the call, and  *)
(* the thread it waits for, still are from their ends.                     *)
Finishing == pc \in {"cancel", "join", "close"}

CallRank == CASE pc = "cancel" -> N + 3
              [] pc = "join" -> N + 2
              [] pc = "close" -> N + 2 - k
              [] OTHER -> 0

ThreadRank == CASE tpc = "start" -> 2
                [] tpc = "read" -> 2 + (N - i)
                [] tpc \in {"sleep", "account"} -> 1
                [] OTHER -> 0

FinishRank == CallRank + ThreadRank

RankBounds == CallRank \in 0..(N + 3) /\ ThreadRank \in 0..(N + 1)

LEMMA RanksAreBounded == IInv => RankBounds
  <1> SUFFICES ASSUME IInv PROVE RankBounds
    OBVIOUS
  <1>1. k \in 1..(N + 1) /\ (tpc = "read" => i \in 1..N)
    BY DEF IInv, TypeOK, PassSum, Sensors
  <1>2. CallRank \in 0..(N + 3)
    BY <1>1, OdroidAssumption DEF CallRank
  <1>3. ThreadRank \in 0..(N + 1)
    BY <1>1, OdroidAssumption DEF ThreadRank
  <1>4. QED BY <1>2, <1>3 DEF RankBounds

LEMMA RankIsBounded == IInv => FinishRank \in 0..(2 * N + 4)
  <1> SUFFICES ASSUME IInv PROVE FinishRank \in 0..(2 * N + 4)
    OBVIOUS
  <1>1. PICK c \in 0..(N + 3), t \in 0..(N + 1) : CallRank = c /\ ThreadRank = t
    BY RanksAreBounded DEF RankBounds
  <1>2. FinishRank = c + t
    BY <1>1 DEF FinishRank
  <1>3. QED BY <1>1, <1>2, OdroidAssumption

LEMMA CallStepsComeCloser ==
  ASSUME IInv, Finishing, Application
  PROVE  CallRank' < CallRank /\ ThreadRank' = ThreadRank
  <1>1. CancelThread \/ JoinThread \/ CloseSensor \/ FreeState
    BY DEF Application, Finishing, FindSensors, FindSensorsOutOfMemory, OpenSensor, AllOpen,
           CreateThread, ReadTotal, FinishCall, StopPolling
  <1>2. k \in Nat /\ k <= N + 1 /\ (pc \in {"cancel", "join"} => k = 1)
    BY OdroidAssumption DEF IInv, TypeOK, LifeCycle
  <1>3. CallRank' < CallRank
    BY <1>1, <1>2, OdroidAssumption
       DEF CancelThread, JoinThread, CloseSensor, FreeState, Sensors, CallRank
  <1>4. ThreadRank' = ThreadRank
    <2>1. CASE CancelThread \/ CloseSensor \/ FreeState
      BY <2>1 DEF CancelThread, CloseSensor, FreeState, passVars, ThreadRank
    <2>2. CASE JoinThread
      BY <2>2 DEF JoinThread, ThreadEnded, Live, ThreadRank
    <2>3. QED BY <1>1, <2>1, <2>2
  <1>5. QED BY <1>3, <1>4

LEMMA ThreadStepsComeCloser ==
  ASSUME IInv, Finishing, PollingThread
  PROVE  CallRank' = CallRank /\ ThreadRank' < ThreadRank
  <1> USE DEF PollingThread, ThreadStart, StartPass, LeaveLoop, ReadSensor, Account, ActOnCancel
  <1>1. pc \in {"cancel", "join"} /\ ~poll_sensors
    BY DEF IInv, LifeCycle, Finishing
  <1>2. UNCHANGED <<pc, k>>
    BY DEF appVars
  <1>3. i \in 1..(N + 1) /\ (tpc = "read" => i \in 1..N) /\ N \in Nat
    BY OdroidAssumption DEF IInv, TypeOK, PassSum, Sensors
  <1>4. ThreadRank' < ThreadRank
    BY <1>1, <1>3 DEF LastSensor, ThreadRank
  <1>5. QED BY <1>2, <1>4 DEF CallRank

(* Once finish has cleared poll_sensors every step of the application or   *)
(* of the thread brings its end closer, so that they take no more than     *)
(* 2 * N + 4 of them together, whether or not the thread can be cancelled: *)
(* it starts no new pass, and its pass ends with the last sensor.  That    *)
(* these steps are taken is FinishReturns.                                 *)
THEOREM FinishIsShort ==
  Spec => /\ [](FinishRank \in 0..(2 * N + 4))
          /\ [][Finishing => FinishRank' < FinishRank]_vars
  <1>1. ASSUME IInv, RankBounds, RankBounds', Finishing, Application \/ PollingThread
        PROVE  FinishRank' < FinishRank
    <2>1. PICK c \in 0..(N + 3), t \in 0..(N + 1), d \in 0..(N + 3), u \in 0..(N + 1) :
            CallRank = c /\ ThreadRank = t /\ CallRank' = d /\ ThreadRank' = u
      BY <1>1 DEF RankBounds
    <2>2. \/ d < c /\ u = t
          \/ d = c /\ u < t
      BY <1>1, <2>1, CallStepsComeCloser, ThreadStepsComeCloser
    <2>3. FinishRank = c + t /\ FinishRank' = d + u
      BY <2>1 DEF FinishRank
    <2>4. QED BY <2>2, <2>3, OdroidAssumption
  <1>2. IInv /\ RankBounds /\ RankBounds' /\ [Next]_vars
          => [Finishing => FinishRank' < FinishRank]_vars
    BY <1>1 DEF Next, Crashed
  <1>3. QED BY <1>2, RanksAreBounded, RankIsBounded, Invariance, PTL DEF Spec
-----------------------------------------------------------------------------
(* What can crash the process: a failed pthread_create, whose clean-up     *)
(* finds poll_sensors set.                                                 *)
CreationFails == CreateThread /\ pc' = "stop"

NobodyIsJoined ==
  /\ pc \in {"cancel", "join"} => tpc # "none"
  /\ pc = "stop" /\ poll_sensors => tpc # "none"
  /\ pc # "crashed"

LEMMA NobodyIsJoinedStep ==
  ASSUME IInv, NobodyIsJoined, [Next]_vars, ~CreationFails, ~FindSensorsOutOfMemory
  PROVE  NobodyIsJoined'
  <1> USE DEF NobodyIsJoined
  <1>1. CASE FindSensors \/ OpenSensor \/ AllOpen \/ CreateThread
    BY <1>1 DEF FindSensors, OpenSensor, AllOpen, CreateThread, CreationFails, IInv, LifeCycle
  <1>2. CASE ReadTotal \/ FinishCall
    BY <1>2 DEF ReadTotal, FinishCall, stateVars, IInv, LifeCycle
  <1>3. CASE StopPolling \/ CancelThread \/ JoinThread
    BY <1>3 DEF StopPolling, CancelThread, JoinThread, stateVars, IInv, TypeOK
  <1>4. CASE CloseSensor \/ FreeState
    BY <1>4 DEF CloseSensor, FreeState, stateVars
  <1>5. CASE PollingThread
    BY <1>5 DEF PollingThread, ThreadStart, StartPass, LeaveLoop, ReadSensor, Account,
            ActOnCancel, appVars, stateVars
  <1>6. CASE UNCHANGED vars
    BY <1>6 DEF vars, appVars, stateVars
  <1>7. QED
    BY <1>1, <1>2, <1>3, <1>4, <1>5, <1>6 DEF Next, Application, Crashed

(* A process whose pthread_create succeeds, and which gets the memory for  *)
(* the list of its sensors, never cancels or joins a thread that does not  *)
(* exist and never crashes: those two failures are the only ways to it.    *)
THEOREM OnlyFailedCreationCrashes ==
  Spec /\ [][~CreationFails /\ ~FindSensorsOutOfMemory]_vars
    => [](CancelOnlyCreatedThread /\ pc # "crashed")
  <1>1. Init => NobodyIsJoined
    BY DEF Init, NobodyIsJoined
  <1>2. ASSUME IInv, NobodyIsJoined, [Next]_vars,
               [~CreationFails /\ ~FindSensorsOutOfMemory]_vars
        PROVE  NobodyIsJoined'
    <2>1. CASE UNCHANGED vars
      BY <1>2, <2>1 DEF vars, appVars, stateVars, NobodyIsJoined
    <2>2. CASE ~CreationFails /\ ~FindSensorsOutOfMemory
      BY <1>2, <2>2, NobodyIsJoinedStep
    <2>3. QED BY <1>2, <2>1, <2>2
  <1>3. NobodyIsJoined => CancelOnlyCreatedThread /\ pc # "crashed"
    BY DEF NobodyIsJoined, CancelOnlyCreatedThread
  <1>4. QED BY <1>1, <1>2, <1>3, Invariance, PTL DEF Spec
=============================================================================
