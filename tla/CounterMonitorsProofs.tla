----------------------- MODULE CounterMonitorsProofs -----------------------
(***************************************************************************)
(* The accounting of the four implementations over energy counters, for    *)
(* every number of counters, every range and any number of overflows.      *)
(***************************************************************************)
EXTENDS CounterMonitors, WellFoundedInduction, TLAPS

Wrapping == {"msr", "raplcap_msr"}

(* What each implementation holds at each point of a call.                 *)
MsrShape ==
  impl = "msr" =>
    /\ pc \in {"idle", "opening", "reading"} /\ samples = Zero
    /\ pc \in {"opening", "reading"} => allocated
    /\ held = IF pc = "opening" THEN 1..(i - 1) ELSE IF allocated THEN Counters ELSE {}

RaplcapShape ==
  impl = "raplcap_msr" =>
    /\ pc \in {"idle", "opening", "reading"} /\ samples = Zero
    /\ pc = "opening" => ~allocated
    /\ pc = "reading" => allocated
    /\ held = IF pc = "opening" \/ allocated THEN {Library} ELSE {}

IpgShape ==
  impl = "ipg" =>
    /\ pc \in {"idle", "opening", "reading", "energy"}
    /\ pc = "opening" => ~allocated
    /\ pc \in {"reading", "energy"} => allocated
    /\ held = IF (pc = "opening" \/ allocated) /\ ~skip THEN {Library} ELSE {}
    /\ pc = "energy" => i \in Counters
    /\ samples = [c \in Counters |->
                    IF pc = "opening" THEN (IF c < i THEN 1 ELSE 0)
                    ELSE IF pc = "energy" /\ c = i THEN 2
                    ELSE IF allocated THEN 1 ELSE 0]

CrayShape ==
  impl = "cray_pm" =>
    /\ pc \in {"idle", "opening", "reading", "fresh"} /\ samples = Zero
    /\ pc # "idle" => allocated
    /\ IF allocated THEN Library \in held ELSE held = {}
    /\ Len(scans) > 0

Shape == MsrShape /\ RaplcapShape /\ IpgShape /\ CrayShape

(* The wrapping counters: what is kept of each, what that comes to, and    *)
(* what fread tells of it.                                                 *)
Kept(c) == last[EntryOf(c)]
Overflows(c) == n_overflow[EntryOf(c)]
Account(c) == Kept(c) + Overflows(c) * Range
Told(c) == Kept(c) + Overflows(c) * (IF impl = "msr" THEN Range - 1 ELSE Range)

Active(c) == impl = "raplcap_msr" => Entry(c) \in is_active
Own(c) == impl = "raplcap_msr" => OwnEntry(c)

(* Where a counter stands relative to the value last read from it.         *)
Position(c) ==
  gap[c] < Range => value[c] = Kept(c) + gap[c] \/ value[c] + Range = Kept(c) + gap[c]

CounterInv(c) ==
  /\ c \in sampled => Active(c)
  /\ c \notin sampled => val[c] = 0 /\ reading[c] = 0
  /\ Own(c) /\ Active(c) /\ c \notin sampled => Kept(c) = 0 /\ Overflows(c) = 0
  /\ Reliable(c) => /\ Account(c) + gap[c] = measured[c] /\ Position(c)
                    /\ reading[c] <= Told(c)
                    /\ pc = "reading" /\ c < i => val[c] = Told(c)

WrappingInv == impl \in Wrapping => \A c \in Counters : CounterInv(c)

(* The packages of Power Gadget: their sums end at the sample that is kept *)
(* and what has been measured since is the gap, once a call has read them. *)
PackageInv(c) ==
  /\ sampleID[c] <= measured[c]
  /\ c \notin sampled => measured[c] = 0 /\ gap[c] = 0
  /\ pc = "opening" => (c < i <=> c \in sampled)
  /\ pc \in {"reading", "energy"} => c \in sampled
  /\ pc = "idle" => (c \in sampled <=> allocated)
  /\ reading[c] <= j_sum[c]
  /\ pc \in {"reading", "energy"} /\ c < i =>
       val[c] = j_sum[c] /\ sampleID[c] + gap[c] = measured[c]
  /\ pc = "energy" /\ c = i => sampleID[c] <= newID /\ newID + gap[c] = measured[c]

PackagesInv ==
  impl = "ipg" =>
    /\ late = {} /\ \A c \in Counters : j_sum[c] = sampleID[c]
    /\ pc = "opening" \/ allocated => \A c \in Counters : PackageInv(c)

IInv == TypeOK /\ Shape /\ WrappingInv /\ PackagesInv
-----------------------------------------------------------------------------
(* Types.                                                                  *)
Pcs == {"idle", "opening", "reading", "energy", "fresh"}

LEMMA ZeroIsTyped ==
  Zero \in [Counters -> Nat] /\ Zero \in [Counters -> 0..(Range - 1)]
  BY CounterAssumption DEF Zero

LEMMA ClearTypes ==
  ASSUME SessionTypeOK, ClearSession, EndHistory, impl' = impl, pc' \in Pcs,
         allocated' \in BOOLEAN, held' \subseteq {Library} \cup Counters
  PROVE  SessionTypeOK'
  <1>1. CounterTypeOK'
    BY DEF SessionTypeOK, CounterTypeOK, EndHistory
  <1>2. i' \in 1..(N + 1)
    BY CounterAssumption DEF ClearSession
  <1>3. QED BY <1>1, <1>2, ZeroIsTyped DEF SessionTypeOK, ClearSession, Pcs

LEMMA InitCallTypes ==
  ASSUME SessionTypeOK, NEW which, NEW files \in SUBSET ({Library} \cup Counters),
         NEW publish \in BOOLEAN, InitCall(which, files, publish)
  PROVE  SessionTypeOK'
  BY ClearTypes DEF InitCall, Pcs

LEMMA UndoTypes ==
  ASSUME SessionTypeOK, NEW which, NEW undone, Undo(which, undone)
  PROVE  SessionTypeOK'
  <1>1. /\ pc' \in Pcs /\ allocated' \in BOOLEAN /\ impl' = impl
        /\ ClearSession /\ EndHistory /\ held' \subseteq {Library} \cup Counters
    BY DEF Undo, Pcs, SessionTypeOK
  <1>2. QED BY <1>1, ClearTypes

LEMMA SampleTypes ==
  ASSUME CounterTypeOK, NEW c \in Counters, NEW first \in BOOLEAN, Sample(c, first)
  PROVE  CounterTypeOK'
  BY CounterAssumption DEF CounterTypeOK, Sample

(* The steps that move a call on and change nothing of the counters.       *)
LEMMA MoveTypes ==
  ASSUME SessionTypeOK, UNCHANGED <<counters, impl, entries>>, pc' \in Pcs, i' \in 1..(N + 1),
         allocated' \in BOOLEAN, held' \subseteq {Library} \cup Counters,
         val' \in [Counters -> Nat], reading' \in [Counters -> Nat],
         sampled' \subseteq Counters, late' \subseteq Counters
  PROVE  SessionTypeOK'
  BY DEF SessionTypeOK, CounterTypeOK, counters, entries, Pcs

LEMMA CallTypes ==
  ASSUME SessionTypeOK, InitReturn \/ ReadCall \/ ReadFails \/ ReadReturn
  PROVE  SessionTypeOK'
  <1>1. /\ pc' \in Pcs /\ i' \in 1..(N + 1)
        /\ UNCHANGED <<counters, impl, held, entries, sampled, late>>
    BY CounterAssumption DEF InitReturn, ReadCall, ReadFails, ReadReturn, Pcs
  <1>2. allocated' \in BOOLEAN
    BY DEF InitReturn, ReadCall, ReadFails, ReadReturn, SessionTypeOK
  <1>3. val' \in [Counters -> Nat] /\ reading' \in [Counters -> Nat]
    BY ZeroIsTyped DEF InitReturn, ReadCall, ReadFails, ReadReturn, SessionTypeOK
  <1>4. held \subseteq {Library} \cup Counters /\ sampled \subseteq Counters
        /\ late \subseteq Counters
    BY DEF SessionTypeOK
  <1>5. QED BY <1>1, <1>2, <1>3, <1>4, MoveTypes

LEMMA NextCounterTypes ==
  ASSUME NEW c \in Counters PROVE c + 1 \in 1..(N + 1)
  BY CounterAssumption DEF Counters

LEMMA ReadWrappingTypes ==
  ASSUME SessionTypeOK, pc = "reading", i \in Counters, NEW e \in Counters, NEW step \in Nat,
         ReadWrapping(i, e, step)
  PROVE  SessionTypeOK'
  <1> USE CounterAssumption DEF SessionTypeOK
  <1>1. CounterTypeOK'
    BY SampleTypes DEF ReadWrapping
  <1>2. PICK overflows \in Nat :
          /\ n_overflow' = [n_overflow EXCEPT ![e] = overflows]
          /\ last' = [last EXCEPT ![e] = value[i]]
          /\ val' = [val EXCEPT ![i] = value[i] + overflows * step]
    <2>1. n_overflow[e] \in Nat
      OBVIOUS
    <2>2. n_overflow[e] + (IF value[i] < last[e] THEN 1 ELSE 0) \in Nat
      BY <2>1
    <2>3. QED BY <2>2 DEF ReadWrapping
  <1>3. value[i] \in 0..(Range - 1) /\ overflows * step \in Nat
    BY DEF CounterTypeOK
  <1>4. n_overflow' \in [Counters -> Nat] /\ last' \in [Counters -> 0..(Range - 1)]
        /\ val' \in [Counters -> Nat]
    BY <1>2, <1>3
  <1>5. i' \in 1..(N + 1) /\ UNCHANGED <<impl, pc, allocated, held, reading>>
        /\ sampled' \subseteq Counters /\ late' \subseteq Counters
    BY NextCounterTypes DEF ReadWrapping
  <1>6. QED BY <1>1, <1>4, <1>5

LEMMA MsrTypes == SessionTypeOK /\ MsrNext => SessionTypeOK'
  <1> SUFFICES ASSUME SessionTypeOK, MsrNext PROVE SessionTypeOK'
    OBVIOUS
  <1>1. held \subseteq {Library} \cup Counters /\ sampled \subseteq Counters
        /\ late \subseteq Counters /\ allocated \in BOOLEAN /\ pc \in Pcs
        /\ val \in [Counters -> Nat] /\ reading \in [Counters -> Nat]
    BY DEF SessionTypeOK, Pcs
  <1>2. CASE MsrInitCall
    BY <1>2, InitCallTypes DEF MsrInitCall
  <1>3. CASE MsrOpen
    BY <1>1, <1>3, NextCounterTypes, MoveTypes DEF MsrOpen, counters, entries
  <1>4. CASE MsrInitFails
    <2>1. /\ pc' = "idle" /\ allocated' \in BOOLEAN /\ impl' = impl
          /\ ClearSession /\ EndHistory
      BY <1>4 DEF MsrInitFails
    <2>2. held' \subseteq {Library} \cup Counters
      BY <1>1, <1>4 DEF MsrInitFails, MsrCloses
    <2>3. QED BY <2>1, <2>2, ClearTypes DEF Pcs
  <1>5. CASE InitReturn \/ MsrRead
    BY <1>5, CallTypes DEF MsrRead
  <1>6. CASE MsrReadCounter
    <2>1. MsrOverflow \in Nat
      BY CounterAssumption DEF MsrOverflow
    <2>2. pc = "reading" /\ i \in Counters /\ ReadWrapping(i, i, MsrOverflow)
      BY <1>6 DEF MsrReadCounter
    <2>3. QED BY <2>1, <2>2, ReadWrappingTypes
  <1>7. CASE MsrFinish
    BY <1>7, UndoTypes DEF MsrFinish
  <1>8. QED BY <1>2, <1>3, <1>4, <1>5, <1>6, <1>7 DEF MsrNext

LEMMA RaplcapTypes ==
  ASSUME SessionTypeOK, is_active \subseteq Counters, RaplcapNext
  PROVE  SessionTypeOK' /\ is_active' \subseteq Counters /\ n_die' = n_die
  <1> USE DEF raplcapVars
  <1>1. held \subseteq {Library} \cup Counters /\ sampled \subseteq Counters
        /\ late \subseteq Counters /\ allocated \in BOOLEAN /\ pc \in Pcs
        /\ val \in [Counters -> Nat] /\ reading \in [Counters -> Nat]
    BY DEF SessionTypeOK, Pcs
  <1>2. CASE RaplcapInitCall
    BY <1>2, InitCallTypes DEF RaplcapInitCall
  <1>3. CASE RaplcapCheckZone \/ RaplcapSkipCounter
    BY <1>1, <1>3, NextCounterTypes, MoveTypes
       DEF RaplcapCheckZone, RaplcapSkipCounter, counters, entries
  <1>4. CASE RaplcapInitFails \/ RaplcapFinish
    BY <1>4, UndoTypes DEF RaplcapInitFails, RaplcapFinish
  <1>5. CASE (InitReturn /\ UNCHANGED raplcapVars) \/ RaplcapRead
    BY <1>5, CallTypes DEF RaplcapRead
  <1>6. CASE RaplcapReadCounter
    <2>1. pc = "reading" /\ i \in Counters /\ Entry(i) \in Counters
          /\ ReadWrapping(i, Entry(i), Range) /\ UNCHANGED raplcapVars
      BY <1>6 DEF RaplcapReadCounter, ActiveAt
    <2>2. Range \in Nat
      BY CounterAssumption
    <2>3. QED BY <2>1, <2>2, ReadWrappingTypes
  <1>7. QED BY <1>2, <1>3, <1>4, <1>5, <1>6 DEF RaplcapNext

(* The samples and sums stay natural numbers because no sample is released *)
(* twice and no kept sample is later than a new one.                       *)
LEMMA IpgTypes ==
  ASSUME IInv, IpgNext PROVE SessionTypeOK' /\ IpgTypeOK'
  <1> USE DEF ipgVars
  <1>0. SessionTypeOK /\ IpgTypeOK /\ IpgShape
    BY DEF IInv, TypeOK, Shape
  <1>1. held \subseteq {Library} \cup Counters /\ sampled \subseteq Counters
        /\ late \subseteq Counters /\ allocated \in BOOLEAN /\ pc \in Pcs
        /\ val \in [Counters -> Nat] /\ reading \in [Counters -> Nat]
        /\ i \in 1..(N + 1) /\ measured \in [Counters -> Nat]
    BY <1>0 DEF SessionTypeOK, CounterTypeOK, Pcs
  <1>2. CASE IpgInitCall
    <2>1. SessionTypeOK'
      BY <1>0, <1>2, InitCallTypes DEF IpgInitCall
    <2>2. IpgTypeOK'
      BY <1>0, <1>2, ZeroIsTyped DEF IpgInitCall, IpgTypeOK
    <2>3. QED BY <2>1, <2>2
  <1>3. CASE IpgFirstSample
    <2>1. SessionTypeOK'
      BY <1>0, <1>1, <1>3, NextCounterTypes, MoveTypes DEF IpgFirstSample, counters, entries
    <2>2. IpgTypeOK'
      BY <1>0, <1>1, <1>3 DEF IpgFirstSample, IpgTypeOK
    <2>3. QED BY <2>1, <2>2
  <1>4. CASE IpgInitFails \/ IpgFinish
    <2>1. SessionTypeOK'
      BY <1>0, <1>4, UndoTypes DEF IpgInitFails, IpgFinish
    <2>2. samples' \in [Counters -> Nat]
      <3>1. CASE IpgInitFails
        <4>1. \A c \in Counters : samples[c] = (IF c < i THEN 1 ELSE 0)
          BY <1>0, <3>1 DEF IpgInitFails, IpgShape, Undo
        <4>2. \A c \in Counters : samples'[c] = 0
          BY <4>1, <3>1, <1>1 DEF IpgInitFails, Release, IpgSampledBefore, Counters
        <4>3. samples' = [c \in Counters |-> samples'[c]]
          BY <3>1 DEF IpgInitFails, Release
        <4>4. QED BY <4>2, <4>3
      <3>2. CASE IpgFinish
        <4>1. \A c \in Counters : samples[c] = 1
          BY <1>0, <3>2 DEF IpgFinish, IpgShape, Undo
        <4>2. \A c \in Counters : samples'[c] = 0
          BY <4>1, <3>2 DEF IpgFinish, Release
        <4>3. samples' = [c \in Counters |-> samples'[c]]
          BY <3>2 DEF IpgFinish, Release
        <4>4. QED BY <4>2, <4>3
      <3>3. QED BY <1>4, <3>1, <3>2
    <2>3. IpgTypeOK'
      BY <1>0, <1>4, <2>2 DEF IpgInitFails, IpgFinish, IpgTypeOK
    <2>4. QED BY <2>1, <2>3
  <1>5. CASE (InitReturn /\ UNCHANGED ipgVars) \/ IpgRead
    <2>1. SessionTypeOK'
      BY <1>0, <1>5, CallTypes DEF IpgRead
    <2>2. IpgTypeOK'
      BY <1>0, <1>5 DEF IpgRead, IpgTypeOK
    <2>3. QED BY <2>1, <2>2
  <1>6. CASE IpgReadSample
    <2>1. CounterTypeOK'
      BY <1>0, <1>6, SampleTypes DEF IpgReadSample, SessionTypeOK
    <2>2. SessionTypeOK'
      BY <1>0, <1>6, <2>1 DEF IpgReadSample, SessionTypeOK, entries
    <2>3. IpgTypeOK'
      BY <1>0, <1>1, <1>6 DEF IpgReadSample, IpgTypeOK
    <2>4. QED BY <2>2, <2>3
  <1>7. CASE IpgAddEnergy \/ IpgEnergyFails
    <2>1. /\ impl = "ipg" /\ pc = "energy" /\ i \in Counters /\ allocated
          /\ \A c \in Counters : samples[c] = (IF c = i THEN 2 ELSE 1)
      BY <1>0, <1>7 DEF IpgAddEnergy, IpgEnergyFails, IpgShape
    <2>2. j_sum[i] = sampleID[i] /\ newID \in Nat /\ sampleID[i] \in Nat
      BY <1>0, <2>1 DEF IInv, PackagesInv, PackageInv, IpgTypeOK
    <2>3. samples' \in [Counters -> Nat]
      <3>1. Release({i})
        BY <1>7 DEF IpgAddEnergy, IpgEnergyFails
      <3>2. ASSUME NEW c \in Counters PROVE samples'[c] = 1
        <4>1. CASE c = i
          BY <2>1, <3>1, <4>1 DEF Release
        <4>2. CASE c # i
          BY <2>1, <3>1, <4>2 DEF Release
        <4>3. QED BY <4>1, <4>2
      <3>3. samples' = [c \in Counters |-> samples'[c]]
        BY <3>1 DEF Release
      <3>4. QED BY <3>2, <3>3
    <2>4. CASE IpgAddEnergy
      <3>1. j_sum[i] + newID - sampleID[i] = newID
        BY <2>2
      <3>2. j_sum' \in [Counters -> Nat] /\ j_sum'[i] \in Nat
        BY <1>0, <2>1, <2>2, <2>4, <3>1 DEF IpgAddEnergy, IpgTypeOK
      <3>3. val' \in [Counters -> Nat] /\ sampleID' \in [Counters -> Nat]
        BY <1>0, <1>1, <2>1, <2>2, <2>4, <3>2 DEF IpgAddEnergy, IpgTypeOK
      <3>4. SessionTypeOK'
        BY <1>0, <1>1, <2>1, <2>4, <3>3, NextCounterTypes, MoveTypes
           DEF IpgAddEnergy, counters, entries, Pcs
      <3>5. QED BY <1>0, <2>3, <2>4, <3>2, <3>3, <3>4 DEF IpgAddEnergy, IpgTypeOK
    <2>5. CASE IpgEnergyFails
      <3>1. 1 \in 1..(N + 1)
        BY CounterAssumption
      <3>2. SessionTypeOK'
        BY <1>0, <1>1, <2>5, <3>1, ZeroIsTyped, MoveTypes
           DEF IpgEnergyFails, counters, entries, Pcs
      <3>3. sampleID' \in [Counters -> Nat]
        BY <1>0, <2>5 DEF IpgEnergyFails, IpgTypeOK, IpgKeptAfterError
      <3>4. QED BY <1>0, <2>3, <2>5, <3>2, <3>3 DEF IpgEnergyFails, IpgTypeOK
    <2>6. QED BY <1>7, <2>4, <2>5
  <1>8. QED BY <1>2, <1>3, <1>4, <1>5, <1>6, <1>7 DEF IpgNext

LEMMA CrayTypes ==
  ASSUME IInv, CrayNext PROVE SessionTypeOK' /\ CrayTypeOK'
  <1> USE CounterAssumption, CrayAssumption DEF crayVars
  <1>0. SessionTypeOK /\ CrayTypeOK /\ CrayShape
    BY DEF IInv, TypeOK, Shape
  <1>1. held \subseteq {Library} \cup Counters /\ sampled \subseteq Counters
        /\ late \subseteq Counters /\ allocated \in BOOLEAN /\ pc \in Pcs
        /\ val \in [Counters -> Nat] /\ reading \in [Counters -> Nat]
        /\ i \in 1..(N + 1) /\ 1 \in 1..(N + 1)
    BY <1>0 DEF SessionTypeOK, Pcs
  <1>2. scans \in Seq([Counters -> Nat]) /\ joules \in Nat /\ fresh_total \in Nat
        /\ fresh_start \in 0..Len(scans) /\ empty \in BOOLEAN
    BY <1>0 DEF CrayTypeOK, freshness
  <1>3. CASE CrayInitCall
    <2>1. {Library} \in SUBSET ({Library} \cup Counters) /\ TRUE \in BOOLEAN
      OBVIOUS
    <2>2. SessionTypeOK'
      BY <1>0, <1>3, <2>1, InitCallTypes DEF CrayInitCall
    <2>3. QED BY <1>2, <1>3, <2>2 DEF CrayInitCall, CrayTypeOK, freshness
  <1>4. CASE CrayOpenFile \/ CrayInitReturn \/ CrayStale \/ CrayNoFreshness \/ CrayReadFails
    <2>1. SessionTypeOK'
      BY <1>0, <1>1, <1>4, MoveTypes
         DEF CrayOpenFile, CrayInitReturn, CrayStale, CrayNoFreshness, CrayReadFails, counters,
             entries, Pcs
    <2>2. CASE CrayNoFreshness
      <3>1. /\ scans' = scans /\ fresh_start' = fresh_start /\ joules' = joules
            /\ fresh_total' = 0 /\ empty' = TRUE
        BY <2>2 DEF CrayNoFreshness
      <3>2. CrayTypeOK'
        BY <1>2, <3>1 DEF CrayTypeOK, freshness
      <3>3. QED BY <2>1, <3>2
    <2>3. CASE CrayOpenFile \/ CrayInitReturn \/ CrayStale \/ CrayReadFails
      <3>1. CrayTypeOK'
        BY <1>2, <2>3
           DEF CrayOpenFile, CrayInitReturn, CrayStale, CrayReadFails, CrayTypeOK, freshness
      <3>2. QED BY <2>1, <3>1
    <2>4. QED BY <1>4, <2>2, <2>3
  <1>5. CASE CrayInitFails \/ CrayFinish
    <2>1. SessionTypeOK'
      BY <1>0, <1>5, UndoTypes DEF CrayInitFails, CrayFinish
    <2>2. QED BY <1>2, <1>5, <2>1 DEF CrayInitFails, CrayFinish, CrayTypeOK, freshness
  <1>6. CASE CrayFresh
    <2>1. SessionTypeOK'
      BY <1>0, <1>1, <1>6, MoveTypes DEF CrayFresh, counters, entries, Pcs
    <2>2. empty' \in BOOLEAN
      BY <1>6 DEF CrayFresh
    <2>3. fresh_start' = Len(scans) /\ joules' = 0 /\ Len(scans) \in Nat
      BY <1>2, <1>6 DEF CrayFresh, freshness
    <2>4. QED BY <1>2, <1>6, <2>1, <2>2, <2>3 DEF CrayFresh, CrayTypeOK, freshness
  <1>7. CASE CrayReadFile
    <2>1. SessionTypeOK'
      BY <1>0, <1>1, <1>7, NextCounterTypes, MoveTypes DEF CrayReadFile, counters, entries, Pcs
    <2>2. scans[freshness][i] \in Nat
      <3>1. Len(scans) \in 1..Len(scans) /\ i \in Counters
        BY <1>0, <1>2, <1>7 DEF CrayReadFile, CrayShape
      <3>2. scans[Len(scans)] \in [Counters -> Nat]
        BY <1>2, <3>1
      <3>3. QED BY <3>1, <3>2 DEF freshness
    <2>3. Mega * scans[freshness][i] \in Nat
      BY <2>2
    <2>4. empty' \in BOOLEAN
      BY <1>2, <1>7 DEF CrayReadFile
    <2>5. joules' \in Nat
      <3>1. joules' \in {joules, joules + Mega * scans[freshness][i]}
        BY <1>7 DEF CrayReadFile
      <3>2. QED BY <1>2, <2>3, <3>1
    <2>6. QED BY <1>2, <1>7, <2>1, <2>4, <2>5 DEF CrayReadFile, CrayTypeOK, freshness
  <1>8. CASE CrayReturn
    <2>1. SessionTypeOK'
      BY <1>0, <1>1, <1>8, MoveTypes DEF CrayReturn, counters, entries, Pcs
    <2>2. joules * Mega \in Nat
      BY <1>2
    <2>3. QED BY <1>2, <1>8, <2>1, <2>2 DEF CrayReturn, CrayTypeOK, freshness
  <1>9. CASE Scan
    <2>1. SessionTypeOK'
      BY <1>0, <1>9 DEF Scan, session, counters, entries, SessionTypeOK, CounterTypeOK
    <2>2. PICK used \in [Counters -> 0..1] :
            scans' = Append(scans, [f \in Counters |-> scans[freshness][f] + used[f]])
      BY <1>9 DEF Scan
    <2>3. [f \in Counters |-> scans[freshness][f] + used[f]] \in [Counters -> Nat]
      <3>1. Len(scans) \in 1..Len(scans)
        BY <1>0, <1>2, <1>9 DEF Scan, CrayShape
      <3>2. scans[freshness] \in [Counters -> Nat]
        BY <1>2, <3>1 DEF freshness
      <3>3. QED BY <3>2
    <2>4. scans' \in Seq([Counters -> Nat]) /\ Len(scans') = Len(scans) + 1
      BY <1>2, <2>2, <2>3
    <2>5. QED BY <1>2, <1>9, <2>1, <2>4 DEF Scan, CrayTypeOK, freshness
  <1>10. QED BY <1>3, <1>4, <1>5, <1>6, <1>7, <1>8, <1>9 DEF CrayNext

LEMMA ConsumeTypes == SessionTypeOK /\ Consume => SessionTypeOK'
  <1> SUFFICES ASSUME SessionTypeOK, Consume PROVE SessionTypeOK'
    OBVIOUS
  <1>1. PICK c \in Counters : Count(c, Followed(c))
    BY DEF Consume
  <1>2. CounterTypeOK'
    BY <1>1, CounterAssumption DEF Count, SessionTypeOK, CounterTypeOK
  <1>3. QED BY <1>2 DEF Consume, SessionTypeOK, session, entries

(* A step keeps the type of every variable.                                *)
LEMMA TypeCorrectStep == IInv /\ [Next]_vars => TypeOK'
  <1> SUFFICES ASSUME IInv, [Next]_vars PROVE TypeOK'
    OBVIOUS
  <1>1. SessionTypeOK /\ IpgTypeOK /\ CrayTypeOK /\ n_die \in Counters
        /\ is_active \subseteq Counters
    BY DEF IInv, TypeOK
  <1>2. CASE MsrNext /\ UNCHANGED <<raplcapVars, ipgVars, crayVars>>
    BY <1>1, <1>2, MsrTypes
       DEF TypeOK, raplcapVars, ipgVars, crayVars, IpgTypeOK, CrayTypeOK, freshness
  <1>3. CASE RaplcapNext /\ UNCHANGED <<ipgVars, crayVars>>
    BY <1>1, <1>3, RaplcapTypes
       DEF TypeOK, ipgVars, crayVars, IpgTypeOK, CrayTypeOK, freshness
  <1>4. CASE IpgNext /\ UNCHANGED <<raplcapVars, crayVars>>
    BY <1>1, <1>4, IpgTypes DEF TypeOK, raplcapVars, crayVars, CrayTypeOK, freshness
  <1>5. CASE CrayNext /\ UNCHANGED <<raplcapVars, ipgVars>>
    BY <1>1, <1>5, CrayTypes DEF TypeOK, raplcapVars, ipgVars, IpgTypeOK
  <1>6. CASE Consume
    BY <1>1, <1>6, ConsumeTypes
       DEF Consume, TypeOK, raplcapVars, ipgVars, crayVars, IpgTypeOK, CrayTypeOK, freshness
  <1>7. CASE UNCHANGED vars
    BY <1>1, <1>7
       DEF vars, TypeOK, counters, session, entries, SessionTypeOK, CounterTypeOK,
           raplcapVars, ipgVars, crayVars, IpgTypeOK, CrayTypeOK, freshness
  <1>8. QED BY <1>2, <1>3, <1>4, <1>5, <1>6, <1>7 DEF Next

-----------------------------------------------------------------------------
(* What is held, step by step.                                             *)

LEMMA MsrShapeStep ==
  ASSUME TypeOK, MsrShape, MsrNext, UNCHANGED ipgVars PROVE MsrShape' /\ impl' = "msr"
  <1> USE CounterAssumption DEF MsrShape, ipgVars
  <1>1. held \subseteq {Library} \cup Counters /\ i \in 1..(N + 1)
    BY DEF TypeOK, SessionTypeOK
  <1>2. CASE MsrInitCall
    BY <1>2 DEF MsrInitCall, InitCall, ClearSession
  <1>3. CASE MsrOpen
    <2>1. 1..((i + 1) - 1) = 1..(i - 1) \cup {i}
      BY <1>1
    <2>2. QED BY <1>3, <2>1 DEF MsrOpen
  <1>4. CASE MsrInitFails
    <2>1. i \in Counters /\ 1..(i - 1) \subseteq Counters
      BY <1>1, <1>4 DEF MsrInitFails, Counters
    <2>2. held' = {} /\ pc' = "idle" /\ ~allocated' /\ impl' = "msr" /\ impl = "msr"
      BY <1>4, <2>1 DEF MsrInitFails, MsrCloses
    <2>3. QED BY <2>2
  <1>5. CASE impl = "msr" /\ InitReturn
    <2>1. 1..(i - 1) = Counters
      BY <1>1, <1>5 DEF InitReturn, Counters
    <2>2. QED BY <1>5, <2>1 DEF InitReturn
  <1>6. CASE MsrRead
    BY <1>6 DEF MsrRead, ReadCall, ReadFails, ReadReturn
  <1>7. CASE MsrReadCounter
    BY <1>7 DEF MsrReadCounter, ReadWrapping
  <1>8. CASE MsrFinish
    BY <1>8 DEF MsrFinish, Undo
  <1>9. QED BY <1>2, <1>3, <1>4, <1>5, <1>6, <1>7, <1>8 DEF MsrNext

LEMMA RaplcapShapeStep ==
  ASSUME TypeOK, RaplcapShape, RaplcapNext, UNCHANGED ipgVars
  PROVE  RaplcapShape' /\ impl' = "raplcap_msr"
  <1> USE DEF RaplcapShape, ipgVars, raplcapVars
  <1>1. CASE RaplcapInitCall
    BY <1>1 DEF RaplcapInitCall, InitCall
  <1>2. CASE RaplcapCheckZone \/ RaplcapSkipCounter
    BY <1>2 DEF RaplcapCheckZone, RaplcapSkipCounter
  <1>3. CASE RaplcapInitFails \/ RaplcapFinish
    BY <1>3 DEF RaplcapInitFails, RaplcapFinish, Undo
  <1>4. CASE (impl = "raplcap_msr" /\ InitReturn) \/ RaplcapRead
    BY <1>4 DEF RaplcapRead, InitReturn, ReadCall, ReadFails, ReadReturn
  <1>5. CASE RaplcapReadCounter
    BY <1>5 DEF RaplcapReadCounter, ReadWrapping
  <1>6. QED BY <1>1, <1>2, <1>3, <1>4, <1>5 DEF RaplcapNext

(* Every sample is released once: the failed init releases those before    *)
(* the package it failed at, a call of fread one of the two it has.        *)
LEMMA IpgShapeStep ==
  ASSUME TypeOK, IpgShape, IpgNext PROVE IpgShape' /\ impl' = "ipg"
  <1> USE DEF ipgVars
  <1>1. i \in 1..(N + 1) /\ samples \in [Counters -> Nat] /\ N \in Nat
        /\ Counters \subseteq Nat
    BY CounterAssumption DEF TypeOK, SessionTypeOK, IpgTypeOK, Counters
  <1>2. CASE IpgInitCall
    <2>1. /\ impl = "ipg" /\ impl' = "ipg" /\ pc = "idle" /\ ~allocated /\ pc' = "opening"
          /\ ~allocated' /\ i' = 1 /\ UNCHANGED <<skip, samples>>
          /\ held' = IF skip THEN {} ELSE {Library}
      BY <1>2 DEF IpgInitCall, InitCall, ClearSession
    <2>2. \A c \in Counters : ~(c < 1)
      BY DEF Counters
    <2>3. samples' = [c \in Counters |-> 0]
      BY <2>1 DEF IpgShape
    <2>4. QED BY <2>1, <2>2, <2>3 DEF IpgShape
  <1>3. CASE IpgFirstSample
    <2>1. /\ impl = "ipg" /\ impl' = "ipg" /\ pc = "opening" /\ pc' = "opening"
          /\ UNCHANGED <<allocated, skip, held>> /\ i' = i + 1 /\ i \in Counters
          /\ samples' = [samples EXCEPT ![i] = @ + 1]
      BY <1>3 DEF IpgFirstSample
    <2>2. samples = [c \in Counters |-> IF c < i THEN 1 ELSE 0]
      BY <2>1 DEF IpgShape
    <2>3. \A c \in Counters : c < i + 1 <=> c < i \/ c = i
      BY <1>1
    <2>4. samples' = [c \in Counters |-> IF c < i + 1 THEN 1 ELSE 0]
      <3>1. ASSUME NEW c \in Counters PROVE samples'[c] = IF c < i + 1 THEN 1 ELSE 0
        <4>1. CASE c = i
          <5>1. samples[c] = 0 /\ samples'[c] = samples[c] + 1
            BY <1>1, <2>1, <2>2, <4>1
          <5>2. QED BY <2>3, <4>1, <5>1
        <4>2. CASE c # i
          <5>1. samples'[c] = samples[c]
            BY <1>1, <2>1, <4>2
          <5>2. QED BY <2>2, <2>3, <4>2, <5>1
        <4>3. QED BY <4>1, <4>2
      <3>2. samples' = [c \in Counters |-> samples'[c]]
        BY <1>1, <2>1
      <3>3. QED BY <3>1, <3>2
    <2>5. QED BY <2>1, <2>4 DEF IpgShape
  <1>4. CASE IpgInitFails
    <2>1. /\ impl = "ipg" /\ impl' = "ipg" /\ pc = "opening" /\ pc' = "idle" /\ ~allocated'
          /\ skip' = skip /\ held' = held \ {Library} /\ Release(1..(i - 1))
      BY <1>4 DEF IpgInitFails, Undo, IpgSampledBefore
    <2>2. samples = [c \in Counters |-> IF c < i THEN 1 ELSE 0] /\ held \subseteq {Library}
      BY <2>1 DEF IpgShape
    <2>3. \A c \in Counters : c < i <=> c \in 1..(i - 1)
      BY <1>1 DEF Counters
    <2>4. \A c \in Counters : samples[c] - (IF c \in 1..(i - 1) THEN 1 ELSE 0) = 0
      BY <2>2, <2>3
    <2>5. samples' = [c \in Counters |-> 0]
      BY <2>1, <2>4 DEF Release
    <2>6. QED BY <2>1, <2>2, <2>5 DEF IpgShape
  <1>5. CASE impl = "ipg" /\ InitReturn /\ UNCHANGED ipgVars
    <2>1. \A c \in Counters : c < i
      BY <1>1, <1>5 DEF InitReturn, Counters
    <2>2. samples' = [c \in Counters |-> 1]
      BY <1>5, <2>1 DEF InitReturn, IpgShape
    <2>3. QED BY <1>5, <2>2 DEF InitReturn, IpgShape
  <1>6. CASE IpgRead
    BY <1>6 DEF IpgRead, ReadCall, ReadFails, ReadReturn, IpgShape
  <1>7. CASE IpgReadSample
    <2>1. /\ impl = "ipg" /\ impl' = "ipg" /\ pc = "reading" /\ pc' = "energy"
          /\ UNCHANGED <<allocated, skip, held, i>> /\ i \in Counters
          /\ samples' = [samples EXCEPT ![i] = @ + 1]
      BY <1>7 DEF IpgReadSample
    <2>2. allocated /\ samples = [c \in Counters |-> 1]
      BY <2>1 DEF IpgShape
    <2>3. samples' = [c \in Counters |-> IF c = i THEN 2 ELSE 1]
      BY <2>1, <2>2
    <2>4. QED BY <2>1, <2>2, <2>3 DEF IpgShape
  <1>8. CASE IpgAddEnergy \/ IpgEnergyFails
    <2>1. /\ impl = "ipg" /\ impl' = "ipg" /\ pc = "energy" /\ pc' \in {"reading", "idle"}
          /\ UNCHANGED <<allocated, skip, held>> /\ Release({i})
      BY <1>8 DEF IpgAddEnergy, IpgEnergyFails
    <2>2. allocated /\ samples = [c \in Counters |-> IF c = i THEN 2 ELSE 1]
      BY <2>1 DEF IpgShape
    <2>3. \A c \in Counters : samples[c] - (IF c \in {i} THEN 1 ELSE 0) = 1
      BY <2>2
    <2>4. samples' = [c \in Counters |-> 1]
      BY <2>1, <2>3 DEF Release
    <2>5. QED BY <2>1, <2>2, <2>4 DEF IpgShape
  <1>9. CASE IpgFinish
    <2>1. /\ impl = "ipg" /\ impl' = "ipg" /\ pc = "idle" /\ pc' = "idle" /\ allocated
          /\ ~allocated' /\ skip' = skip /\ held' = held \ {Library} /\ Release(Counters)
      BY <1>9 DEF IpgFinish, Undo
    <2>2. samples = [c \in Counters |-> 1] /\ held \subseteq {Library}
      BY <2>1 DEF IpgShape
    <2>3. samples' = [c \in Counters |-> 0]
      BY <2>1, <2>2 DEF Release
    <2>4. QED BY <2>1, <2>2, <2>3 DEF IpgShape
  <1>10. QED BY <1>2, <1>3, <1>4, <1>5, <1>6, <1>7, <1>8, <1>9 DEF IpgNext

LEMMA CrayShapeStep ==
  ASSUME TypeOK, CrayShape, CrayNext, UNCHANGED ipgVars PROVE CrayShape' /\ impl' = "cray_pm"
  <1> USE DEF CrayShape, ipgVars, crayVars
  <1>1. held \subseteq {Library} \cup Counters /\ scans \in Seq([Counters -> Nat])
        /\ Library \notin Counters
    BY CounterAssumption DEF TypeOK, SessionTypeOK, CrayTypeOK, Library, Counters
  <1>2. CASE CrayInitCall
    BY <1>2 DEF CrayInitCall, InitCall
  <1>3. CASE CrayOpenFile \/ CrayInitReturn \/ CrayReadFile
    BY <1>3 DEF CrayOpenFile, CrayInitReturn, CrayReadFile
  <1>4. CASE CrayInitFails \/ CrayFinish
    BY <1>4 DEF CrayInitFails, CrayFinish, Undo, CrayFinishes, Files
  <1>5. CASE CrayFresh \/ CrayReturn \/ CrayStale \/ CrayNoFreshness \/ CrayReadFails
    BY <1>5 DEF CrayFresh, CrayReturn, CrayStale, CrayNoFreshness, CrayReadFails
  <1>6. CASE Scan
    <2>1. Len(scans') > 0
      <3>1. PICK x : scans' = Append(scans, x)
        BY <1>6 DEF Scan
      <3>2. Len(scans') = Len(scans) + 1 /\ Len(scans) \in Nat
        BY <1>1, <3>1
      <3>3. QED BY <3>2
    <2>2. QED BY <1>6, <2>1 DEF Scan, session
  <1>7. QED BY <1>2, <1>3, <1>4, <1>5, <1>6 DEF CrayNext

LEMMA ShapeStutters ==
  ASSUME Shape, UNCHANGED <<session, ipgVars, crayVars>> PROVE Shape'
  BY DEF Shape, MsrShape, RaplcapShape, IpgShape, CrayShape, session, ipgVars, crayVars

LEMMA ShapeStep == IInv /\ [Next]_vars => Shape'
  <1> SUFFICES ASSUME IInv, [Next]_vars PROVE Shape'
    OBVIOUS
  <1> USE DEF IInv
  <1>1. CASE MsrNext /\ UNCHANGED <<raplcapVars, ipgVars, crayVars>>
    BY <1>1, MsrShapeStep DEF Shape, RaplcapShape, IpgShape, CrayShape
  <1>2. CASE RaplcapNext /\ UNCHANGED <<ipgVars, crayVars>>
    BY <1>2, RaplcapShapeStep DEF Shape, MsrShape, IpgShape, CrayShape
  <1>3. CASE IpgNext /\ UNCHANGED <<raplcapVars, crayVars>>
    BY <1>3, IpgShapeStep DEF Shape, MsrShape, RaplcapShape, CrayShape
  <1>4. CASE CrayNext /\ UNCHANGED <<raplcapVars, ipgVars>>
    BY <1>4, CrayShapeStep DEF Shape, MsrShape, RaplcapShape, IpgShape
  <1>5. CASE Consume \/ UNCHANGED vars
    BY <1>5, ShapeStutters DEF Consume, vars
  <1>6. QED BY <1>1, <1>2, <1>3, <1>4, <1>5 DEF Next

-----------------------------------------------------------------------------
(* The packages of Power Gadget, step by step.                             *)

LEMMA PackageStep ==
  ASSUME IInv, IpgNext, NEW c \in Counters
  PROVE  /\ j_sum'[c] = sampleID'[c] /\ late' = {}
         /\ pc' = "opening" \/ allocated' => PackageInv(c)'
  <1> USE DEF ipgVars
  <1>1. /\ impl = "ipg" => late = {} /\ j_sum[c] = sampleID[c]
        /\ impl = "ipg" /\ (pc = "opening" \/ allocated) => PackageInv(c)
        /\ impl = "ipg" /\ pc \in {"reading", "energy"} => allocated
        /\ impl = "ipg" /\ pc = "opening" => ~allocated
        /\ impl = "ipg" /\ pc = "energy" => i \in Counters
    BY DEF IInv, PackagesInv, Shape, IpgShape
  <1>2. /\ j_sum \in [Counters -> Nat] /\ sampleID \in [Counters -> Nat] /\ newID \in Nat
        /\ measured \in [Counters -> Nat] /\ gap \in [Counters -> Nat]
        /\ val \in [Counters -> Nat] /\ reading \in [Counters -> Nat]
        /\ i \in 1..(N + 1) /\ N \in Nat \ {0} /\ c \in Nat /\ c > 0 /\ c <= N
        /\ sampled \subseteq Counters
    <2>1. c \in Nat /\ c > 0 /\ c <= N /\ N \in Nat \ {0}
      BY CounterAssumption DEF Counters
    <2>2. SessionTypeOK /\ IpgTypeOK /\ CounterTypeOK
      BY DEF IInv, TypeOK, SessionTypeOK
    <2>3. QED BY <2>1, <2>2 DEF SessionTypeOK, IpgTypeOK, CounterTypeOK
  <1>3. CASE IpgInitCall
    <2>1. /\ late' = {} /\ j_sum'[c] = 0 /\ sampleID'[c] = 0 /\ measured'[c] = 0 /\ gap'[c] = 0
          /\ reading'[c] = 0 /\ i' = 1 /\ sampled' = {} /\ pc' = "opening"
      BY <1>3 DEF IpgInitCall, InitCall, ClearSession, EndHistory, Zero
    <2>2. QED BY <1>2, <2>1 DEF PackageInv
  <1>4. CASE IpgFirstSample
    <2>1. /\ impl = "ipg" /\ pc = "opening" /\ pc' = "opening" /\ i \in Counters /\ i' = i + 1
          /\ UNCHANGED <<late, j_sum, counters, reading>> /\ sampled' = sampled \cup {i}
          /\ sampleID'[c] = IF c = i THEN measured[i] ELSE sampleID[c]
      BY <1>2, <1>4 DEF IpgFirstSample
    <2>2. PackageInv(c) /\ late = {} /\ j_sum[c] = sampleID[c]
      BY <1>1, <2>1
    <2>3. sampleID'[c] = sampleID[c]
      <3>1. CASE c = i
        BY <1>2, <2>1, <2>2, <3>1 DEF PackageInv
      <3>2. CASE c # i
        BY <2>1, <3>2
      <3>3. QED BY <3>1, <3>2
    <2>4. c < i' <=> c \in sampled'
      BY <1>2, <2>1, <2>2 DEF PackageInv
    <2>5. c \notin sampled' => c \notin sampled
      BY <2>1
    <2>6. QED BY <1>2, <2>1, <2>2, <2>3, <2>4, <2>5 DEF PackageInv, counters
  <1>5. CASE IpgInitFails \/ IpgFinish
    <2>1. impl = "ipg" /\ late' = {} /\ pc' = "idle" /\ ~allocated' /\ UNCHANGED <<j_sum, sampleID>>
      BY <1>5 DEF IpgInitFails, IpgFinish, Undo, ClearSession
    <2>2. QED BY <1>1, <2>1
  <1>6. CASE impl = "ipg" /\ InitReturn /\ UNCHANGED ipgVars
    <2>1. PackageInv(c) /\ pc = "opening" /\ c < i /\ pc' = "idle" /\ allocated'
      BY <1>1, <1>2, <1>6 DEF InitReturn
    <2>2. QED BY <1>1, <1>6, <2>1 DEF InitReturn, PackageInv, counters
  <1>7. CASE IpgRead
    <2>1. allocated /\ allocated' /\ impl = "ipg" /\ UNCHANGED <<late, j_sum, sampleID>>
      BY <1>1, <1>7 DEF IpgRead, ReadCall, ReadFails, ReadReturn
    <2>2. PackageInv(c)
      BY <1>1, <2>1
    <2>3. CASE ReadCall
      <3>1. ~(c < i') /\ pc' = "reading" /\ c \in sampled
        BY <1>2, <2>1, <2>2, <2>3 DEF ReadCall, PackageInv
      <3>2. QED BY <1>1, <1>7, <2>1, <2>2, <2>3, <3>1
                DEF IpgRead, ReadCall, PackageInv, counters
    <2>4. CASE ReadFails
      <3>1. pc' = "idle" /\ c \in sampled
        BY <2>2, <2>4 DEF ReadFails, PackageInv
      <3>2. QED BY <1>1, <1>7, <2>1, <2>2, <2>4, <3>1
                DEF IpgRead, ReadFails, PackageInv, counters
    <2>5. CASE ReadReturn
      <3>1. pc' = "idle" /\ c \in sampled /\ reading'[c] = j_sum[c]
        BY <1>2, <2>2, <2>5 DEF ReadReturn, PackageInv
      <3>2. QED BY <1>1, <1>2, <1>7, <2>1, <2>2, <2>5, <3>1
                DEF IpgRead, ReadReturn, PackageInv, counters
    <2>6. QED BY <1>7, <2>3, <2>4, <2>5 DEF IpgRead
  <1>8. CASE IpgReadSample
    <2>1. /\ impl = "ipg" /\ pc = "reading" /\ pc' = "energy" /\ i \in Counters
          /\ newID' = measured[i] /\ measured' = measured
          /\ gap'[c] = IF c = i THEN 0 ELSE gap[c]
          /\ UNCHANGED <<i, late, j_sum, sampleID, reading, val, sampled, allocated>>
      BY <1>2, <1>8 DEF IpgReadSample, Sample, entries
    <2>2. PackageInv(c) /\ late = {} /\ j_sum[c] = sampleID[c] /\ c \in sampled
      BY <1>1, <2>1 DEF PackageInv
    <2>3. c < i => c # i /\ gap'[c] = gap[c]
      BY <1>2, <2>1
    <2>4. c = i => newID' = measured[c] /\ gap'[c] = 0
      BY <2>1
    <2>5. QED BY <1>2, <2>1, <2>2, <2>3, <2>4 DEF PackageInv
  <1>9. CASE IpgAddEnergy
    <2>1. /\ impl = "ipg" /\ pc = "energy" /\ pc' = "reading" /\ i' = i + 1 /\ i \in Counters
          /\ UNCHANGED <<late, newID, reading, sampled, allocated, measured, gap>>
      BY <1>1, <1>9 DEF IpgAddEnergy, counters
    <2>2. PackageInv(c) /\ late = {} /\ j_sum[c] = sampleID[c] /\ c \in sampled
      BY <1>1, <2>1 DEF PackageInv
    <2>3. CASE c = i
      <3>1. j_sum'[c] = j_sum[c] + newID - sampleID[c] /\ val'[c] = j_sum'[c]
            /\ sampleID'[c] = newID
        BY <1>2, <1>9, <2>3 DEF IpgAddEnergy
      <3>2. sampleID[c] <= newID /\ newID + gap[c] = measured[c] /\ reading[c] <= j_sum[c]
        BY <2>1, <2>2, <2>3 DEF PackageInv
      <3>3. j_sum'[c] = newID
        BY <1>2, <2>2, <3>1
      <3>4. newID <= measured[c] /\ reading[c] <= newID
        BY <1>2, <2>2, <3>2
      <3>5. QED BY <1>2, <2>1, <2>2, <2>3, <3>1, <3>2, <3>3, <3>4 DEF PackageInv
    <2>4. CASE c # i
      <3>1. j_sum'[c] = j_sum[c] /\ val'[c] = val[c] /\ sampleID'[c] = sampleID[c]
        BY <1>2, <1>9, <2>4 DEF IpgAddEnergy
      <3>2. c < i' => c < i
        BY <1>2, <2>1, <2>4
      <3>3. QED BY <2>1, <2>2, <3>1, <3>2 DEF PackageInv
    <2>5. QED BY <2>3, <2>4
  <1>10. CASE IpgEnergyFails
    <2>1. /\ impl = "ipg" /\ pc = "energy" /\ pc' = "idle" /\ i \in Counters
          /\ UNCHANGED <<late, j_sum, reading, sampled, allocated, measured, gap>>
          /\ sampleID'[c] = sampleID[c]
      BY <1>1, <1>2, <1>10 DEF IpgEnergyFails, IpgKeptAfterError, counters
    <2>2. PackageInv(c) /\ late = {} /\ j_sum[c] = sampleID[c] /\ c \in sampled /\ allocated
      BY <1>1, <2>1 DEF PackageInv
    <2>3. QED BY <2>1, <2>2 DEF PackageInv
  <1>11. QED BY <1>3, <1>4, <1>5, <1>6, <1>7, <1>8, <1>9, <1>10 DEF IpgNext

LEMMA PackageConsumes ==
  ASSUME IInv, Consume, impl = "ipg", NEW c \in Counters
  PROVE  pc' = "opening" \/ allocated' => PackageInv(c)'
  <1> SUFFICES ASSUME pc' = "opening" \/ allocated' PROVE PackageInv(c)'
    OBVIOUS
  <1>1. PICK d \in Counters : Count(d, Followed(d))
    BY DEF Consume
  <1>2. UNCHANGED <<session, ipgVars>>
    BY DEF Consume
  <1>3. PackageInv(c)
    BY <1>2 DEF IInv, PackagesInv, session
  <1>4. /\ measured \in [Counters -> Nat] /\ gap \in [Counters -> Nat]
        /\ sampleID \in [Counters -> Nat] /\ newID \in Nat
    BY DEF IInv, TypeOK, SessionTypeOK, IpgTypeOK, CounterTypeOK
  <1>5. \/ gap'[c] = gap[c] /\ measured'[c] = measured[c]
        \/ c \in sampled /\ gap'[c] = gap[c] + 1 /\ measured'[c] = measured[c] + 1
    <2>1. CASE Followed(d) /\ c = d
      BY <1>1, <1>4, <2>1 DEF Count, Followed
    <2>2. CASE ~(Followed(d) /\ c = d)
      BY <1>1, <1>4, <2>2 DEF Count
    <2>3. QED BY <2>1, <2>2
  <1>6. sampleID[c] \in Nat /\ measured[c] \in Nat /\ gap[c] \in Nat
    BY <1>4
  <1>7. QED BY <1>2, <1>3, <1>4, <1>5, <1>6 DEF PackageInv, session, ipgVars

LEMMA PackagesStep == IInv /\ [Next]_vars => PackagesInv'
  <1> SUFFICES ASSUME IInv, [Next]_vars PROVE PackagesInv'
    OBVIOUS
  <1>0. TypeOK /\ Shape /\ PackagesInv
    BY DEF IInv
  <1>1. CASE MsrNext /\ UNCHANGED <<raplcapVars, ipgVars, crayVars>>
    BY <1>0, <1>1, MsrShapeStep DEF PackagesInv, Shape
  <1>2. CASE RaplcapNext /\ UNCHANGED <<ipgVars, crayVars>>
    BY <1>0, <1>2, RaplcapShapeStep DEF PackagesInv, Shape
  <1>3. CASE IpgNext /\ UNCHANGED <<raplcapVars, crayVars>>
    <2>1. late' = {}
      BY <1>0, <1>3, PackageStep, CounterAssumption DEF Counters
    <2>2. \A c \in Counters : j_sum'[c] = sampleID'[c]
      BY <1>3, PackageStep
    <2>3. pc' = "opening" \/ allocated' => \A c \in Counters : PackageInv(c)'
      BY <1>3, PackageStep
    <2>4. QED BY <2>1, <2>2, <2>3 DEF PackagesInv
  <1>4. CASE CrayNext /\ UNCHANGED <<raplcapVars, ipgVars>>
    BY <1>0, <1>4, CrayShapeStep DEF PackagesInv, Shape
  <1>5. CASE Consume
    BY <1>0, <1>5, PackageConsumes DEF PackagesInv, Consume, session, ipgVars
  <1>6. CASE UNCHANGED vars
    BY <1>0, <1>6 DEF PackagesInv, PackageInv, vars, counters, session, ipgVars
  <1>7. QED BY <1>1, <1>2, <1>3, <1>4, <1>5, <1>6 DEF Next

-----------------------------------------------------------------------------
(* The wrapping counters, step by step.                                    *)

LEMMA ProductIsNat == \A a, b \in Nat : a * b \in Nat
  OBVIOUS

LEMMA OneMoreOverflow ==
  ASSUME NEW n \in Nat, NEW step \in Nat PROVE (n + 1) * step = n * step + step
  OBVIOUS

LEMMA EntryTypes ==
  ASSUME TypeOK, impl \in Wrapping, NEW c \in Counters, Active(c)
  PROVE  /\ EntryOf(c) \in Counters /\ Kept(c) \in 0..(Range - 1) /\ Overflows(c) \in Nat
         /\ Account(c) \in Nat /\ Told(c) \in Nat
  <1>1. EntryOf(c) \in Counters
    BY DEF TypeOK, Active, EntryOf, Wrapping
  <1>2. Kept(c) \in 0..(Range - 1) /\ Overflows(c) \in Nat
    BY <1>1 DEF TypeOK, SessionTypeOK, Kept, Overflows
  <1>3. Kept(c) \in Nat
    BY <1>2, CounterAssumption
  <1>4. Overflows(c) * Range \in Nat /\ Overflows(c) * (Range - 1) \in Nat
    BY <1>2, ProductIsNat, CounterAssumption
  <1>5. QED BY <1>1, <1>2, <1>3, <1>4 DEF Account, Told

(* The session begins again or is over.                                    *)
LEMMA ClearKeepsInv ==
  ASSUME TypeOK', ClearSession, impl' \in Wrapping, NEW c \in Counters
  PROVE  CounterInv(c)'
  <1>1. sampled' = {} /\ val'[c] = 0 /\ reading'[c] = 0
    BY DEF ClearSession, Zero
  <1>2. Active(c)' => Kept(c)' = 0 /\ Overflows(c)' = 0
    <2>1. Active(c)' => EntryOf(c)' \in Counters
      BY DEF TypeOK, Active, EntryOf, Wrapping
    <2>2. QED BY <2>1 DEF ClearSession, Kept, Overflows, Zero
  <1>3. ~Reliable(c)'
    BY <1>1 DEF Reliable, Followed
  <1>4. QED BY <1>1, <1>2, <1>3 DEF CounterInv

(* A step that changes nothing of what is kept of the counters.            *)
LEMMA MoveKeepsInv ==
  ASSUME IInv, impl \in Wrapping, NEW c \in Counters,
         UNCHANGED <<counters, impl, entries, sampled, late, reading, n_die, is_active>>,
         val'[c] = val[c] \/ val'[c] = 0,
         pc' = "reading" /\ c < i' /\ Reliable(c) => pc = "reading" /\ c < i /\ val'[c] = val[c]
  PROVE  CounterInv(c)'
  <1>1. CounterInv(c)
    BY DEF IInv, WrappingInv
  <1>2. /\ Reliable(c)' <=> Reliable(c)
        /\ Own(c)' <=> Own(c)
        /\ Active(c)' <=> Active(c)
        /\ Position(c)' <=> Position(c)
    BY DEF Reliable, Followed, Own, OwnEntry, Active, Position, Entry, Pkg, Die, Kept, EntryOf,
           counters, entries
  <1>3. Kept(c)' = Kept(c) /\ Overflows(c)' = Overflows(c) /\ Account(c)' = Account(c)
        /\ Told(c)' = Told(c)
    BY DEF Kept, Overflows, Account, Told, EntryOf, Entry, Pkg, Die, entries
  <1>4. gap'[c] = gap[c] /\ measured'[c] = measured[c] /\ reading'[c] = reading[c]
        /\ (c \in sampled' <=> c \in sampled)
    BY DEF counters
  <1>5. QED BY <1>1, <1>2, <1>3, <1>4 DEF CounterInv

LEMMA ReturnKeepsInv ==
  ASSUME IInv, ReadReturn, impl \in Wrapping, UNCHANGED <<n_die, is_active>>, NEW c \in Counters
  PROVE  CounterInv(c)'
  <1>1. CounterInv(c) /\ i \in 1..(N + 1) /\ N \in Nat
    BY CounterAssumption DEF IInv, WrappingInv, TypeOK, SessionTypeOK
  <1>2. pc = "reading" /\ c < i /\ pc' = "idle"
    BY <1>1 DEF ReadReturn, Counters
  <1>3. /\ Reliable(c)' <=> Reliable(c)
        /\ Own(c)' <=> Own(c)
        /\ Active(c)' <=> Active(c)
        /\ Position(c)' <=> Position(c)
    BY DEF ReadReturn, Reliable, Followed, Own, OwnEntry, Active, Position, Entry, Pkg, Die,
           Kept, EntryOf, counters, entries
  <1>4. Kept(c)' = Kept(c) /\ Overflows(c)' = Overflows(c) /\ Account(c)' = Account(c)
        /\ Told(c)' = Told(c)
    BY DEF ReadReturn, Kept, Overflows, Account, Told, EntryOf, Entry, Pkg, Die, entries
  <1>5. gap'[c] = gap[c] /\ measured'[c] = measured[c] /\ sampled' = sampled
        /\ reading'[c] = val[c] /\ val'[c] = 0
    BY DEF ReadReturn, counters, Zero
  <1>6. ASSUME Reliable(c) PROVE reading'[c] <= Told(c)
    <2>1. val[c] = Told(c) /\ Active(c)
      BY <1>1, <1>2, <1>6 DEF CounterInv, Reliable, Followed
    <2>2. Told(c) \in Nat
      BY <2>1, EntryTypes DEF IInv
    <2>3. QED BY <1>5, <2>1, <2>2
  <1>7. QED BY <1>1, <1>2, <1>3, <1>4, <1>5, <1>6 DEF CounterInv

(* A counter that is read in time: the new value and the overflows account *)
(* for what it measured since, and no step of what is told is lost.        *)
LEMMA ReadWrappingCounts ==
  ASSUME IInv, impl \in Wrapping, NEW c \in Counters, c = i, Active(c), NEW step \in Nat,
         ReadWrapping(i, EntryOf(i), step), UNCHANGED <<n_die, is_active>>
  PROVE  /\ Kept(c)' = value[c] /\ gap'[c] = 0 /\ value' = value
         /\ Overflows(c)' = Overflows(c) + (IF value[c] < Kept(c) THEN 1 ELSE 0)
         /\ val'[c] = value[c] + Overflows(c)' * step
         /\ measured'[c] = (IF c \in sampled THEN measured[c] ELSE value[c])
  <1> DEFINE e == EntryOf(c)
  <1> DEFINE more == n_overflow[e] + IF value[c] < last[e] THEN 1 ELSE 0
  <1>1. /\ e \in Counters /\ n_overflow \in [Counters -> Nat]
        /\ last \in [Counters -> 0..(Range - 1)] /\ val \in [Counters -> Nat]
        /\ gap \in [Counters -> Nat] /\ measured \in [Counters -> Nat]
    BY EntryTypes DEF IInv, TypeOK, SessionTypeOK, CounterTypeOK
  <1>2. /\ n_overflow' = [n_overflow EXCEPT ![e] = more]
        /\ last' = [last EXCEPT ![e] = value[c]]
        /\ val' = [val EXCEPT ![c] = value[c] + more * step]
        /\ Sample(c, c \notin sampled) /\ UNCHANGED impl
    BY DEF ReadWrapping
  <1>3. n_overflow'[e] = more /\ last'[e] = value[c] /\ val'[c] = value[c] + more * step
    BY <1>1, <1>2
  <1>4. gap'[c] = 0 /\ value' = value
        /\ measured'[c] = (IF c \in sampled THEN measured[c] ELSE value[c])
    BY <1>1, <1>2 DEF Sample
  <1>5. Kept(c)' = last'[e] /\ Overflows(c)' = n_overflow'[e] /\ Kept(c) = last[e]
        /\ Overflows(c) = n_overflow[e]
    BY <1>2 DEF Kept, Overflows, EntryOf, Entry, Pkg, Die
  <1>6. QED BY <1>3, <1>4, <1>5

(* What that says of the account and of what is told of the counter.       *)
LEMMA ReadInTime ==
  ASSUME IInv, impl \in Wrapping, NEW c \in Counters, c = i, Active(c), Own(c),
         NEW step \in Nat, step = IF impl = "msr" THEN Range - 1 ELSE Range,
         c \notin sampled \/ (c \notin late /\ gap[c] < Range),
         ReadWrapping(i, EntryOf(i), step), UNCHANGED <<n_die, is_active>>
  PROVE  /\ Account(c)' = measured'[c] /\ Position(c)' /\ reading[c] <= Told(c)'
         /\ val'[c] = Told(c)' /\ gap'[c] = 0
         /\ c \in sampled => Told(c) <= Told(c)'
  <1> USE CounterAssumption
  <1> DEFINE n == Overflows(c)
  <1>1. /\ Kept(c)' = value[c] /\ gap'[c] = 0 /\ value' = value
        /\ Overflows(c)' = n + (IF value[c] < Kept(c) THEN 1 ELSE 0)
        /\ val'[c] = value[c] + Overflows(c)' * step
        /\ measured'[c] = (IF c \in sampled THEN measured[c] ELSE value[c])
    BY ReadWrappingCounts
  <1>2. /\ value[c] \in 0..(Range - 1) /\ gap[c] \in Nat /\ measured[c] \in Nat
        /\ reading[c] \in Nat /\ Kept(c) \in 0..(Range - 1) /\ n \in Nat
        /\ Account(c) \in Nat /\ Told(c) \in Nat /\ CounterInv(c)
    BY EntryTypes DEF IInv, WrappingInv, TypeOK, SessionTypeOK, CounterTypeOK
  <1>3. /\ impl' = impl /\ Account(c)' = value[c] + Overflows(c)' * Range
        /\ Told(c)' = value[c] + Overflows(c)' * step
    BY <1>1 DEF ReadWrapping, Account, Told
  <1>4. Account(c) = Kept(c) + n * Range /\ Told(c) = Kept(c) + n * step
    BY DEF Account, Told
  <1>5. Position(c)'
    BY <1>1, <1>2 DEF Position
  <1>6. CASE c \notin sampled
    <2>1. n = 0 /\ Kept(c) = 0 /\ reading[c] = 0
      BY <1>2, <1>6 DEF CounterInv
    <2>2. Overflows(c)' = 0
      BY <1>1, <1>2, <2>1
    <2>3. Account(c)' = value[c] /\ Told(c)' = value[c]
      BY <1>2, <1>3, <2>2
    <2>4. QED BY <1>1, <1>2, <1>3, <1>5, <1>6, <2>1, <2>3
  <1>7. CASE c \in sampled
    <2>1. Reliable(c) /\ gap[c] < Range
      BY <1>7 DEF Reliable, Followed, Own
    <2>2. /\ Account(c) + gap[c] = measured[c] /\ reading[c] <= Told(c)
          /\ value[c] = Kept(c) + gap[c] \/ value[c] + Range = Kept(c) + gap[c]
      BY <1>2, <2>1 DEF CounterInv, Position
    <2>3. measured'[c] = measured[c]
      BY <1>1, <1>7
    <2>4. /\ (n + 1) * Range = n * Range + Range /\ (n + 1) * step = n * step + step
          /\ n * Range \in Nat /\ n * step \in Nat
      BY <1>2, OneMoreOverflow, ProductIsNat
    <2>5. CASE value[c] < Kept(c)
      <3>1. Overflows(c)' = n + 1 /\ value[c] + Range = Kept(c) + gap[c]
        BY <1>1, <1>2, <2>2, <2>5
      <3>2. Account(c)' = value[c] + n * Range + Range
        BY <1>2, <1>3, <2>4, <3>1
      <3>3. Account(c)' = measured[c]
        BY <1>2, <1>4, <2>2, <2>4, <3>1, <3>2
      <3>4. Told(c)' = value[c] + n * step + step
        BY <1>2, <1>3, <2>4, <3>1
      <3>5. Kept(c) <= value[c] + step
        <4>1. step + 1 >= Range
          OBVIOUS
        <4>2. QED BY <1>2, <4>1
      <3>6. reading[c] <= Told(c)' /\ Told(c) <= Told(c)'
        BY <1>2, <1>4, <2>2, <2>4, <3>4, <3>5
      <3>7. QED BY <1>1, <1>3, <1>5, <2>3, <3>3, <3>6
    <2>6. CASE ~(value[c] < Kept(c))
      <3>1. Overflows(c)' = n /\ value[c] = Kept(c) + gap[c]
        BY <1>1, <1>2, <2>1, <2>2, <2>6
      <3>2. Account(c)' = measured[c] /\ Told(c)' = Told(c) + gap[c]
        BY <1>2, <1>3, <1>4, <2>2, <2>4, <3>1
      <3>3. reading[c] <= Told(c)' /\ Told(c) <= Told(c)'
        BY <1>2, <2>2, <3>2
      <3>4. QED BY <1>1, <1>3, <1>5, <2>3, <3>2, <3>3
    <2>7. QED BY <2>5, <2>6
  <1>8. QED BY <1>6, <1>7

LEMMA ReadKeepsInv ==
  ASSUME IInv, impl \in Wrapping, i \in Counters, Active(i), NEW step \in Nat,
         step = IF impl = "msr" THEN Range - 1 ELSE Range, pc = "reading",
         ReadWrapping(i, EntryOf(i), step), UNCHANGED <<n_die, is_active>>, NEW c \in Counters
  PROVE  CounterInv(c)'
  <1>1. CounterInv(c)
    BY DEF IInv, WrappingInv
  <1>2. /\ impl' = impl /\ pc' = pc /\ reading' = reading /\ i' = i + 1
        /\ sampled' = sampled \cup {i}
        /\ late' = IF i \in sampled /\ gap[i] >= Range THEN late \cup {i} ELSE late
    BY DEF ReadWrapping
  <1>3. (Own(c)' <=> Own(c)) /\ (Active(c)' <=> Active(c))
    BY <1>2 DEF Own, OwnEntry, Active, Entry, Pkg, Die
  <1>4. /\ n_overflow \in [Counters -> Nat] /\ last \in [Counters -> 0..(Range - 1)]
        /\ val \in [Counters -> Nat] /\ gap \in [Counters -> Nat]
        /\ measured \in [Counters -> Nat] /\ i \in Nat /\ c \in Nat
    <2>1. c \in Nat /\ i \in Nat
      BY CounterAssumption DEF Counters
    <2>2. SessionTypeOK /\ CounterTypeOK
      BY DEF IInv, TypeOK, SessionTypeOK
    <2>3. QED BY <2>1, <2>2 DEF SessionTypeOK, CounterTypeOK
  <1>5. CASE c # i
    <2>1. /\ val'[c] = val[c] /\ value' = value /\ gap'[c] = gap[c]
          /\ measured'[c] = measured[c]
      BY <1>4, <1>5 DEF ReadWrapping, Sample
    <2>2. (c \in sampled' <=> c \in sampled) /\ (c \in late' <=> c \in late)
          /\ (c < i' => c < i)
      BY <1>2, <1>4, <1>5
    <2>3. ASSUME Own(c), Active(c)
          PROVE  /\ Kept(c)' = Kept(c) /\ Overflows(c)' = Overflows(c)
                 /\ Account(c)' = Account(c) /\ Told(c)' = Told(c)
                 /\ (Position(c)' <=> Position(c))
      <3>1. EntryOf(c) # EntryOf(i) /\ EntryOf(c) \in Counters /\ EntryOf(i) \in Counters
        <4>1. EntryOf(c) # EntryOf(i)
          BY <1>5, <2>3 DEF Own, OwnEntry, EntryOf
        <4>2. QED BY <2>3, <4>1, EntryTypes DEF IInv
      <3>2. EntryOf(c)' = EntryOf(c)
        BY <1>2 DEF EntryOf, Entry, Pkg, Die
      <3>3. Kept(c)' = Kept(c) /\ Overflows(c)' = Overflows(c)
        BY <1>4, <3>1, <3>2 DEF ReadWrapping, Kept, Overflows
      <3>4. QED BY <1>2, <2>1, <3>3 DEF Account, Told, Position
    <2>4. Reliable(c)' <=> Reliable(c)
      BY <1>2, <1>3, <2>2 DEF Reliable, Followed, Own
    <2>5. Reliable(c) => Own(c) /\ Active(c)
      BY <1>1 DEF Reliable, Followed, Own, CounterInv
    <2>6. QED BY <1>1, <1>2, <1>3, <2>1, <2>2, <2>3, <2>4, <2>5 DEF CounterInv
  <1>6. CASE c = i
    <2>1. Active(c) /\ c \in sampled'
      BY <1>2, <1>6
    <2>2. ASSUME Reliable(c)'
          PROVE  Own(c) /\ (c \notin sampled \/ (c \notin late /\ gap[c] < Range))
      <3>1. Own(c) /\ c \notin late'
        BY <1>2, <1>3, <2>2 DEF Reliable, Followed, Own
      <3>2. gap[c] \in Nat /\ Range \in Nat
        BY <1>4, CounterAssumption
      <3>3. QED BY <1>2, <1>6, <3>1, <3>2
    <2>3. ASSUME Reliable(c)'
          PROVE  /\ Account(c)' = measured'[c] /\ Position(c)' /\ reading[c] <= Told(c)'
                 /\ val'[c] = Told(c)' /\ gap'[c] = 0 /\ measured'[c] \in Nat
      <3>1. /\ Account(c)' = measured'[c] /\ Position(c)' /\ reading[c] <= Told(c)'
            /\ val'[c] = Told(c)' /\ gap'[c] = 0
        BY <1>6, <2>1, <2>2, <2>3, ReadInTime
      <3>2. measured'[c] = (IF c \in sampled THEN measured[c] ELSE value[c])
            /\ value[c] \in Nat /\ measured[c] \in Nat
        BY <1>6, <2>1, ReadWrappingCounts, CounterAssumption
           DEF IInv, TypeOK, SessionTypeOK, CounterTypeOK
      <3>3. QED BY <3>1, <3>2
    <2>4. QED BY <1>2, <1>3, <2>1, <2>3 DEF CounterInv
  <1>7. QED BY <1>5, <1>6

LEMMA ConsumeKeepsInv ==
  ASSUME IInv, Consume, impl \in Wrapping, NEW c \in Counters PROVE CounterInv(c)'
  <1> USE CounterAssumption
  <1>1. PICK d \in Counters : Count(d, Followed(d))
    BY DEF Consume
  <1>2. CounterInv(c) /\ UNCHANGED <<session, n_die, is_active>>
    BY DEF IInv, WrappingInv, Consume, raplcapVars
  <1>3. value \in [Counters -> 0..(Range - 1)] /\ gap \in [Counters -> Nat]
        /\ measured \in [Counters -> Nat]
    BY DEF IInv, TypeOK, SessionTypeOK, CounterTypeOK
  <1>4. /\ Kept(c)' = Kept(c) /\ Overflows(c)' = Overflows(c)
        /\ Account(c)' = Account(c) /\ Told(c)' = Told(c)
        /\ (Reliable(c)' <=> Reliable(c)) /\ (Own(c)' <=> Own(c))
        /\ (Active(c)' <=> Active(c))
        /\ UNCHANGED <<sampled, val, reading, pc, i>>
    BY <1>2 DEF session, entries, Kept, Overflows, Account, Told, Reliable, Followed, Own,
                OwnEntry, Active, Entry, EntryOf, Pkg, Die
  <1>5. ASSUME Reliable(c)
        PROVE  Account(c) + gap'[c] = measured'[c] /\ Position(c)'
    <2>1. Account(c) + gap[c] = measured[c] /\ Position(c) /\ Active(c)
      BY <1>2, <1>5 DEF CounterInv, Reliable, Followed
    <2>2. Account(c) \in Nat /\ Kept(c) \in 0..(Range - 1)
      BY <2>1, EntryTypes DEF IInv
    <2>3. /\ value[c] \in 0..(Range - 1) /\ gap[c] \in Nat /\ measured[c] \in Nat
      BY <1>3
    <2>4. CASE c = d
      <3>1. /\ gap'[c] = gap[c] + 1 /\ measured'[c] = measured[c] + 1
            /\ value'[c] = IF value[c] = Range - 1 THEN 0 ELSE value[c] + 1
        BY <1>1, <1>3, <1>5, <2>4 DEF Count, Reliable
      <3>2. Account(c) + (gap[c] + 1) = measured[c] + 1
        BY <2>1, <2>2, <2>3
      <3>3. Position(c)'
        BY <1>4, <2>1, <2>2, <2>3, <3>1 DEF Position
      <3>4. QED BY <3>1, <3>2, <3>3
    <2>5. CASE c # d
      <3>1. gap'[c] = gap[c] /\ measured'[c] = measured[c] /\ value'[c] = value[c]
        BY <1>1, <1>3, <2>5 DEF Count
      <3>2. QED BY <1>4, <2>1, <3>1 DEF Position
    <2>6. QED BY <2>4, <2>5
  <1>6. QED BY <1>2, <1>4, <1>5 DEF CounterInv

LEMMA MsrKeepsInv ==
  ASSUME IInv, TypeOK', MsrNext, UNCHANGED <<raplcapVars, ipgVars>>, NEW c \in Counters
  PROVE  CounterInv(c)'
  <1> USE DEF raplcapVars
  <1>1. impl' = "msr" /\ impl' \in Wrapping
    BY MsrShapeStep DEF IInv, Shape, Wrapping
  <1>2. impl = "msr" /\ impl \in Wrapping
    BY DEF MsrNext, MsrInitCall, InitCall, MsrOpen, MsrInitFails, MsrReadCounter, MsrRead,
           MsrFinish, Undo, Wrapping
  <1>3. c \in Nat /\ c >= 1 /\ CounterInv(c)
    BY <1>2, CounterAssumption DEF Counters, IInv, WrappingInv
  <1>4. CASE MsrInitCall \/ MsrInitFails \/ MsrFinish
    <2>1. ClearSession
      BY <1>4 DEF MsrInitCall, InitCall, MsrInitFails, MsrFinish, Undo
    <2>2. QED BY <1>1, <2>1, ClearKeepsInv
  <1>5. CASE MsrOpen \/ InitReturn
    BY <1>2, <1>5, MoveKeepsInv DEF MsrOpen, InitReturn
  <1>6. CASE MsrRead
    <2>1. CASE ReadCall
      <3>1. ~(c < i')
        BY <1>3, <2>1 DEF ReadCall
      <3>2. QED BY <1>2, <2>1, <3>1, MoveKeepsInv DEF ReadCall, Zero
    <2>2. CASE ReadFails
      BY <1>2, <2>2, MoveKeepsInv DEF ReadFails, Zero
    <2>3. CASE ReadReturn
      BY <1>2, <2>3, ReturnKeepsInv
    <2>4. QED BY <1>6, <2>1, <2>2, <2>3 DEF MsrRead
  <1>7. CASE MsrReadCounter
    <2>1. /\ pc = "reading" /\ i \in Counters /\ EntryOf(i) = i /\ Active(i)
          /\ ReadWrapping(i, i, Range - 1) /\ Range - 1 \in Nat
      BY <1>2, <1>7, CounterAssumption DEF MsrReadCounter, MsrOverflow, EntryOf, Active
    <2>2. QED BY <1>2, <2>1, ReadKeepsInv
  <1>8. QED BY <1>4, <1>5, <1>6, <1>7 DEF MsrNext

LEMMA RaplcapKeepsInv ==
  ASSUME IInv, TypeOK', RaplcapNext, UNCHANGED ipgVars, NEW c \in Counters
  PROVE  CounterInv(c)'
  <1> USE DEF raplcapVars
  <1>1. impl' = "raplcap_msr" /\ impl' \in Wrapping
    BY RaplcapShapeStep DEF IInv, Shape, Wrapping
  <1>2. impl = "raplcap_msr" /\ impl \in Wrapping
    BY DEF RaplcapNext, RaplcapInitCall, InitCall, RaplcapCheckZone, RaplcapInitFails,
           RaplcapReadCounter, RaplcapSkipCounter, RaplcapRead, RaplcapFinish, Undo, Wrapping
  <1>3. c \in Nat /\ c >= 1 /\ CounterInv(c)
    BY <1>2, CounterAssumption DEF Counters, IInv, WrappingInv
  <1>4. CASE RaplcapInitCall \/ RaplcapInitFails \/ RaplcapFinish
    <2>1. ClearSession
      BY <1>4 DEF RaplcapInitCall, InitCall, RaplcapInitFails, RaplcapFinish, Undo
    <2>2. QED BY <1>1, <2>1, ClearKeepsInv
  <1>5. CASE RaplcapCheckZone \/ (InitReturn /\ UNCHANGED raplcapVars)
    BY <1>2, <1>5, MoveKeepsInv DEF RaplcapCheckZone, InitReturn
  <1>6. CASE RaplcapRead
    <2>1. CASE ReadCall
      <3>1. ~(c < i')
        BY <1>3, <2>1 DEF ReadCall
      <3>2. QED BY <1>2, <1>6, <2>1, <3>1, MoveKeepsInv DEF RaplcapRead, ReadCall, Zero
    <2>2. CASE ReadFails
      BY <1>2, <1>6, <2>2, MoveKeepsInv DEF RaplcapRead, ReadFails, Zero
    <2>3. CASE ReadReturn
      BY <1>2, <1>6, <2>3, ReturnKeepsInv DEF RaplcapRead
    <2>4. QED BY <1>6, <2>1, <2>2, <2>3 DEF RaplcapRead
  <1>7. CASE RaplcapReadCounter
    <2>1. /\ pc = "reading" /\ i \in Counters /\ EntryOf(i) = Entry(i) /\ Active(i)
          /\ ReadWrapping(i, Entry(i), Range) /\ Range \in Nat /\ UNCHANGED raplcapVars
      BY <1>2, <1>7, CounterAssumption DEF RaplcapReadCounter, ActiveAt, EntryOf, Active
    <2>2. Range = IF impl = "msr" THEN Range - 1 ELSE Range
      BY <1>2
    <2>3. QED BY <1>2, <2>1, <2>2, ReadKeepsInv
  <1>8. CASE RaplcapSkipCounter
    <2>1. /\ pc = "reading" /\ i \in Counters /\ ~ActiveAt(i) /\ i' = i + 1
          /\ UNCHANGED <<counters, impl, pc, entries, val, reading, sampled, late, raplcapVars>>
      BY <1>8 DEF RaplcapSkipCounter
    <2>2. Reliable(c) => c # i
      BY <1>2, <1>3, <2>1 DEF CounterInv, Reliable, Followed, Active, ActiveAt
    <2>3. i \in Nat
      BY <2>1 DEF Counters
    <2>4. Reliable(c)' <=> Reliable(c)
      BY <2>1 DEF Reliable, Followed, OwnEntry, Entry, Pkg, Die
    <2>5. c < i' /\ Reliable(c) => c < i
      BY <1>3, <2>1, <2>2, <2>3
    <2>6. QED BY <1>2, <2>1, <2>4, <2>5, MoveKeepsInv
  <1>9. QED BY <1>4, <1>5, <1>6, <1>7, <1>8 DEF RaplcapNext

LEMMA WrappingStep == IInv /\ TypeOK' /\ [Next]_vars => WrappingInv'
  <1> SUFFICES ASSUME IInv, TypeOK', [Next]_vars PROVE WrappingInv'
    OBVIOUS
  <1>0. TypeOK /\ Shape /\ WrappingInv
    BY DEF IInv
  <1>1. CASE MsrNext /\ UNCHANGED <<raplcapVars, ipgVars, crayVars>>
    BY <1>1, MsrKeepsInv DEF WrappingInv
  <1>2. CASE RaplcapNext /\ UNCHANGED <<ipgVars, crayVars>>
    BY <1>2, RaplcapKeepsInv DEF WrappingInv
  <1>3. CASE IpgNext /\ UNCHANGED <<raplcapVars, crayVars>>
    BY <1>0, <1>3, IpgShapeStep DEF WrappingInv, Shape, Wrapping
  <1>4. CASE CrayNext /\ UNCHANGED <<raplcapVars, ipgVars>>
    BY <1>0, <1>4, CrayShapeStep DEF WrappingInv, Shape, Wrapping
  <1>5. CASE Consume
    <2>1. impl' = impl
      BY <1>5 DEF Consume, session
    <2>2. QED BY <1>5, <2>1, ConsumeKeepsInv DEF WrappingInv
  <1>6. CASE UNCHANGED vars
    <2>1. UNCHANGED <<counters, impl, entries, sampled, late, reading, n_die, is_active, val, pc, i>>
      BY <1>6 DEF vars, session, raplcapVars
    <2>2. ASSUME NEW c \in Counters, impl \in Wrapping PROVE CounterInv(c)'
      <3>1. Reliable(c)' <=> Reliable(c)
        BY <2>1 DEF Reliable, Followed, OwnEntry, Entry, Pkg, Die
      <3>2. QED BY <2>1, <2>2, <3>1, MoveKeepsInv
    <2>3. QED BY <2>1, <2>2 DEF WrappingInv
  <1>7. QED BY <1>1, <1>2, <1>3, <1>4, <1>5, <1>6 DEF Next

-----------------------------------------------------------------------------
(* IInv is inductive.                                                      *)
LEMMA InitEstablishes == Init => IInv
  <1> SUFFICES ASSUME Init PROVE IInv
    OBVIOUS
  <1> USE CounterAssumption, CrayAssumption
          DEF Init, SessionInit, CounterInit, RaplcapInit, IpgInit, CrayInit
  <1>1. SessionTypeOK
    <2>1. 1 \in 1..(N + 1) /\ Zero = [c \in Counters |-> 0]
      BY DEF Zero
    <2>2. CounterTypeOK
      BY DEF CounterTypeOK
    <2>3. QED BY <2>1, <2>2, ZeroIsTyped DEF SessionTypeOK
  <1>2. IpgTypeOK
    BY ZeroIsTyped DEF IpgTypeOK
  <1>3. scans \in Seq([Counters -> Nat]) /\ Len(scans) = 1
    BY ZeroIsTyped
  <1>4. CrayTypeOK
    <2>1. empty \in BOOLEAN
      OBVIOUS
    <2>2. fresh_start = 0 /\ joules = 0 /\ fresh_total = 0
      OBVIOUS
    <2>3. 0 \in 0..Len(scans)
      BY <1>3
    <2>4. QED BY <1>3, <2>1, <2>2, <2>3 DEF CrayTypeOK, freshness
  <1>5. TypeOK
    BY <1>1, <1>2, <1>4 DEF TypeOK
  <1>6. Shape
    BY <1>3 DEF Shape, MsrShape, RaplcapShape, IpgShape, CrayShape, Zero
  <1>7. WrappingInv
    <2>1. ASSUME NEW c \in Counters, impl \in Wrapping PROVE CounterInv(c)
      <3>1. Active(c) => Kept(c) = 0 /\ Overflows(c) = 0
        BY DEF Active, Kept, Overflows, EntryOf, Zero
      <3>2. QED BY <3>1 DEF CounterInv, Reliable, Followed, Zero
    <2>2. QED BY <2>1 DEF WrappingInv
  <1>8. PackagesInv
    BY DEF PackagesInv, Zero
  <1>9. QED BY <1>5, <1>6, <1>7, <1>8 DEF IInv

(* What is kept of the counters and of the samples, and what the calls     *)
(* hold, is as IInv says, whichever implementation it is.                  *)
THEOREM Invariance == Spec => []IInv
  <1>1. IInv /\ [Next]_vars => IInv'
    BY TypeCorrectStep, ShapeStep, WrappingStep, PackagesStep DEF IInv
  <1>2. QED BY InitEstablishes, <1>1, PTL DEF Spec

(* Every variable keeps its type: no sum and no count of samples goes      *)
(* below zero, although both are subtracted from.                          *)
THEOREM TypeCorrect == Spec => []TypeOK
  <1>1. IInv => TypeOK
    BY DEF IInv
  <1>2. QED BY <1>1, Invariance, PTL

(* A failed finit and an ffinish leave nothing open, wherever the failure  *)
(* was, and no call loses or keeps a sample.                               *)
THEOREM SessionsLeakNothing == Spec => []NothingLeaked
  <1>1. IInv => NothingLeaked
    <2> SUFFICES ASSUME IInv, pc = "idle"
                 PROVE  /\ ~allocated => held = {} /\ samples = Zero
                        /\ allocated /\ impl = "msr" => held = Counters
                        /\ allocated /\ impl \in {"raplcap_msr", "cray_pm"} => Library \in held
                        /\ allocated /\ impl = "ipg" =>
                             samples = [c \in Counters |-> 1] /\ (Library \in held) = ~skip
      BY DEF NothingLeaked
    <2>1. impl \in Impls /\ skip \in BOOLEAN
      BY DEF IInv, TypeOK, SessionTypeOK, IpgTypeOK
    <2>2. MsrShape /\ RaplcapShape /\ IpgShape /\ CrayShape
      BY DEF IInv, Shape
    <2>3. CASE impl = "msr"
      BY <2>2, <2>3 DEF MsrShape
    <2>4. CASE impl = "raplcap_msr"
      BY <2>2, <2>4 DEF RaplcapShape
    <2>5. CASE impl = "ipg"
      <3>1. /\ held = IF allocated /\ ~skip THEN {Library} ELSE {}
            /\ samples = [c \in Counters |-> IF allocated THEN 1 ELSE 0]
        BY <2>2, <2>5 DEF IpgShape
      <3>2. allocated => ((Library \in held) <=> ~skip)
        BY <3>1
      <3>3. allocated => (Library \in held) = ~skip
        BY <2>1, <3>2
      <3>4. QED BY <2>5, <3>1, <3>3 DEF Zero
    <2>6. CASE impl = "cray_pm"
      BY <2>2, <2>6 DEF CrayShape
    <2>7. QED BY <2>1, <2>3, <2>4, <2>5, <2>6 DEF Impls
  <1>2. QED BY <1>1, Invariance, PTL

(* No unit that a counter read in time has measured is counted twice or    *)
(* lost, over any number of overflows and calls that fail in their middle. *)
THEOREM EnergyIsAccountedFor == Spec => []Accounted
  <1>1. IInv => Accounted
    <2> SUFFICES ASSUME IInv PROVE Accounted
      OBVIOUS
    <2>1. ASSUME impl \in {"msr", "raplcap_msr"}, NEW c \in Counters, Reliable(c)
          PROVE  last[EntryOf(c)] + n_overflow[EntryOf(c)] * Range + gap[c] = measured[c]
      BY <2>1 DEF IInv, WrappingInv, Wrapping, CounterInv, Account, Kept, Overflows
    <2>2. ASSUME impl = "ipg" PROVE j_sum = sampleID
      <3>1. j_sum \in [Counters -> Nat] /\ sampleID \in [Counters -> Nat]
        BY DEF IInv, TypeOK, IpgTypeOK
      <3>2. \A c \in Counters : j_sum[c] = sampleID[c]
        BY <2>2 DEF IInv, PackagesInv
      <3>3. QED BY <3>1, <3>2
    <2>3. QED BY <2>1, <2>2 DEF Accounted
  <1>2. QED BY <1>1, Invariance, PTL

(* What the call that ends now tells of a counter.                         *)
LEMMA ReadKeepsUp ==
  ASSUME IInv, [Next]_vars, pc = "reading", i > N, pc' = "idle", impl # "cray_pm",
         NEW c \in Counters, Reliable(c)
  PROVE  /\ reading'[c] >= reading[c] /\ reading'[c] <= measured[c]
         /\ reading'[c] >= measured[c] - gap[c] - Dropped(c)
  <1>1. i \notin Counters /\ c < i /\ i \in 1..(N + 1)
    BY CounterAssumption DEF IInv, TypeOK, SessionTypeOK, Counters
  <1>2. ReadReturn
    BY <1>1
       DEF Next, MsrNext, RaplcapNext, IpgNext, CrayNext, Consume, vars, session,
           MsrInitCall, InitCall, MsrOpen, MsrInitFails, InitReturn, MsrReadCounter, MsrRead,
           MsrFinish, ReadCall, ReadFails, RaplcapInitCall, RaplcapCheckZone,
           RaplcapInitFails, RaplcapReadCounter, RaplcapSkipCounter, RaplcapRead,
           RaplcapFinish, ActiveAt, IpgInitCall, IpgFirstSample, IpgInitFails, IpgRead,
           IpgReadSample, IpgAddEnergy, IpgEnergyFails, IpgFinish, CrayInitCall,
           CrayOpenFile, CrayInitReturn, CrayInitFails, CrayFresh, CrayReadFile, CrayReturn,
           CrayStale, CrayNoFreshness, CrayReadFails, CrayFinish, Scan, Undo
  <1>3. reading' = val /\ impl \in {"msr", "raplcap_msr", "ipg"}
    BY <1>2 DEF ReadReturn, IInv, TypeOK, SessionTypeOK, Impls
  <1>4. reading[c] \in Nat /\ measured[c] \in Nat /\ gap[c] \in Nat
    BY DEF IInv, TypeOK, SessionTypeOK, CounterTypeOK
  <1>5. CASE impl = "ipg"
    <2>1. allocated /\ PackageInv(c) /\ j_sum[c] = sampleID[c]
      BY <1>5 DEF IInv, Shape, IpgShape, PackagesInv
    <2>2. val[c] = j_sum[c] /\ sampleID[c] + gap[c] = measured[c] /\ reading[c] <= j_sum[c]
      BY <1>1, <2>1 DEF PackageInv
    <2>3. j_sum[c] \in Nat /\ Dropped(c) = 0
      BY <1>5 DEF IInv, TypeOK, IpgTypeOK, Dropped
    <2>4. QED BY <1>3, <1>4, <2>1, <2>2, <2>3
  <1>6. CASE impl \in Wrapping
    <2>1. CounterInv(c) /\ Active(c)
      BY <1>6 DEF IInv, WrappingInv, CounterInv, Reliable, Followed
    <2>2. /\ Account(c) + gap[c] = measured[c] /\ reading[c] <= Told(c)
          /\ val[c] = Told(c)
      BY <1>1, <2>1 DEF CounterInv
    <2>3. /\ Kept(c) \in Nat /\ Overflows(c) \in Nat /\ Account(c) \in Nat
          /\ Told(c) \in Nat /\ Range \in Nat \ {0}
      BY <1>6, <2>1, EntryTypes, CounterAssumption DEF IInv
    <2>4. Told(c) = Account(c) - Dropped(c) /\ Dropped(c) \in Nat
      <3>1. CASE impl = "msr"
        <4>1. Overflows(c) * (Range - 1) + Overflows(c) = Overflows(c) * Range
          <5>1. ((Range - 1) + 1) * Overflows(c) = (Range - 1) * Overflows(c) + Overflows(c)
            BY <2>3, OneMoreOverflow
          <5>2. QED BY <2>3, <5>1
        <4>2. Dropped(c) = Overflows(c)
          BY <3>1 DEF Dropped, Overflows, EntryOf
        <4>3. Overflows(c) * (Range - 1) \in Nat /\ Overflows(c) * Range \in Nat
          BY <2>3, ProductIsNat
        <4>4. Told(c) = Kept(c) + Overflows(c) * (Range - 1)
          BY <3>1 DEF Told
        <4>5. QED BY <2>3, <4>1, <4>2, <4>3, <4>4 DEF Account
      <3>2. CASE impl # "msr"
        BY <2>3, <3>2 DEF Told, Account, Dropped
      <3>3. QED BY <3>1, <3>2
    <2>5. QED BY <1>3, <1>4, <2>2, <2>3, <2>4
  <1>7. QED BY <1>3, <1>5, <1>6 DEF Wrapping

(* What a successful fread tells of a counter grows, is never more than it *)
(* has measured, and misses only what came since it was read and, for msr, *)
(* a unit for each overflow.                                               *)
THEOREM TotalKeepsUpWithTheCounters == Spec => TotalKeepsUp
  <1>1. IInv /\ [Next]_vars =>
          [pc = "reading" /\ i > N /\ pc' = "idle" /\ impl # "cray_pm" =>
             \A c \in Counters : Reliable(c) =>
               /\ reading'[c] >= reading[c] /\ reading'[c] <= measured[c]
               /\ reading'[c] >= measured[c] - gap[c] - Dropped(c)]_vars
    BY ReadKeepsUp
  <1>2. QED BY <1>1, Invariance, PTL DEF Spec, TotalKeepsUp

-----------------------------------------------------------------------------
(* Sums over the counters.  A set with 0 that has the successor of each of *)
(* its numbers has them all, since what it lacks has no least member.      *)
LEMMA SetInduction ==
  ASSUME NEW S, 0 \in S, \A n \in Nat : n \in S => n + 1 \in S
  PROVE  Nat \subseteq S
  <1> DEFINE R == {p \in Nat \X Nat : p[1] < p[2]}
  <1> DEFINE lacking == Nat \ S
  <1>1. SUFFICES ASSUME lacking # {} PROVE FALSE
    OBVIOUS
  <1>2. IsWellFoundedOn(R, Nat)
    BY NatLessThanWellFounded DEF OpToRel
  <1>3. \E x \in lacking : \A y \in lacking : ~(<<y, x>> \in R)
    <2>1. lacking \subseteq Nat
      OBVIOUS
    <2> HIDE DEF lacking, R
    <2>2. QED BY <1>1, <1>2, <2>1, WFMin
  <1>4. PICK x \in lacking : \A y \in lacking : ~(<<y, x>> \in R)
    BY <1>3
  <1>5. x \in Nat /\ x # 0 /\ x - 1 \in Nat
    OBVIOUS
  <1>6. <<x - 1, x>> \in R
    BY <1>5
  <1>7. x - 1 \in S
    BY <1>4, <1>5, <1>6
  <1>8. QED BY <1>5, <1>7

(* There is a function that SumTo can choose, so it satisfies its own      *)
(* equation.                                                               *)
LEMMA SumToEquation ==
  ASSUME NEW g
  PROVE  SumTo(g) = [n \in 0..N |-> IF n = 0 THEN 0 ELSE SumTo(g)[n - 1] + g[n]]
  <1> DEFINE Sums(h, m) == h = [n \in 0..m |-> IF n = 0 THEN 0 ELSE h[n - 1] + g[n]]
             S == {m \in Nat : \E h : Sums(h, m)}
  <1>1. 0 \in S
    <2>1. Sums([n \in 0..0 |-> 0], 0)
      OBVIOUS
    <2>2. QED BY <2>1
  <1>2. ASSUME NEW m \in Nat, m \in S PROVE m + 1 \in S
    <2>1. PICK h : Sums(h, m)
      BY <1>2
    <2> DEFINE k == [n \in 0..(m + 1) |-> IF n = m + 1 THEN h[m] + g[m + 1] ELSE h[n]]
    <2>2. \A n \in 0..(m + 1) : k[n] = IF n = 0 THEN 0 ELSE k[n - 1] + g[n]
      BY <2>1
    <2>3. Sums(k, m + 1)
      BY <2>2
    <2> HIDE DEF k, Sums
    <2>4. \E f : Sums(f, m + 1)
      BY <2>3
    <2>5. QED BY <2>4
  <1>3. N \in S
    <2> HIDE DEF S
    <2>1. QED BY <1>1, <1>2, SetInduction, CounterAssumption
  <1>4. \E h : Sums(h, N)
    BY <1>3
  <1>5. SumTo(g) = CHOOSE h : Sums(h, N)
    BY DEF SumTo
  <1> HIDE DEF Sums
  <1>6. Sums(SumTo(g), N)
    BY <1>4, <1>5, Zenon
  <1>7. QED BY <1>6 DEF Sums

(* The sums of natural numbers, step by step.                              *)
LEMMA SumToSteps ==
  ASSUME NEW g \in [Counters -> Nat]
  PROVE  /\ SumTo(g)[0] = 0
         /\ \A n \in Counters : SumTo(g)[n] = SumTo(g)[n - 1] + g[n]
         /\ \A n \in 0..N : SumTo(g)[n] \in Nat
  <1> DEFINE s == SumTo(g)
             S == {m \in Nat : m <= N => s[m] \in Nat}
  <1>1. s = [n \in 0..N |-> IF n = 0 THEN 0 ELSE s[n - 1] + g[n]]
    BY SumToEquation
  <1> HIDE DEF s
  <1>2. s[0] = 0 /\ \A n \in Counters : s[n] = s[n - 1] + g[n]
    <2>1. s[0] = 0
      <3>1. 0 \in 0..N
        BY CounterAssumption
      <3>2. QED BY <1>1, <3>1
    <2>2. ASSUME NEW n \in Counters PROVE s[n] = s[n - 1] + g[n]
      <3>1. n \in 0..N /\ n # 0
        BY CounterAssumption DEF Counters
      <3>2. QED BY <1>1, <3>1
    <2>3. QED BY <2>1, <2>2
  <1>3. ASSUME NEW m \in Nat, m \in S PROVE m + 1 \in S
    <2>1. SUFFICES ASSUME m + 1 <= N PROVE s[m + 1] \in Nat
      OBVIOUS
    <2>2. m + 1 \in Counters /\ (m + 1) - 1 = m /\ m <= N
      BY <2>1, CounterAssumption DEF Counters
    <2>3. s[m + 1] = s[m] + g[m + 1] /\ g[m + 1] \in Nat /\ s[m] \in Nat
      BY <1>2, <1>3, <2>2
    <2>4. QED BY <2>3
  <1>4. 0 \in S
    BY <1>2
  <1>5. \A m \in Nat : m \in S
    <2> HIDE DEF S
    <2>1. QED BY <1>3, <1>4, SetInduction
  <1>6. QED BY <1>2, <1>5, CounterAssumption DEF s
LEMMA TotalIsNatural ==
  ASSUME NEW g \in [Counters -> Nat] PROVE Total(g) \in Nat
  BY SumToSteps, CounterAssumption DEF Total

(* More of each is no less of all.                                         *)
LEMMA TotalIsMonotone ==
  ASSUME NEW f \in [Counters -> Nat], NEW g \in [Counters -> Nat],
         \A c \in Counters : f[c] <= g[c]
  PROVE  Total(f) <= Total(g)
  <1> DEFINE s == SumTo(f)
             t == SumTo(g)
             S == {m \in Nat : m <= N => s[m] <= t[m]}
  <1>1. s[0] = 0 /\ t[0] = 0
    BY SumToSteps
  <1>2. \A n \in Counters : s[n] = s[n - 1] + f[n] /\ t[n] = t[n - 1] + g[n]
    BY SumToSteps
  <1>3. \A n \in 0..N : s[n] \in Nat /\ t[n] \in Nat
    BY SumToSteps
  <1> HIDE DEF s, t
  <1>4. ASSUME NEW m \in Nat, m \in S PROVE m + 1 \in S
    <2>1. SUFFICES ASSUME m + 1 <= N PROVE s[m + 1] <= t[m + 1]
      OBVIOUS
    <2>2. m + 1 \in Counters /\ (m + 1) - 1 = m /\ m \in 0..N
      BY <2>1, CounterAssumption DEF Counters
    <2>3. s[m + 1] = s[m] + f[m + 1] /\ t[m + 1] = t[m] + g[m + 1]
      BY <1>2, <2>2
    <2>4. f[m + 1] \in Nat /\ g[m + 1] \in Nat /\ f[m + 1] <= g[m + 1]
      BY <2>2
    <2>5. s[m] \in Nat /\ t[m] \in Nat /\ s[m] <= t[m]
      BY <1>3, <1>4, <2>1, <2>2
    <2>6. QED BY <2>3, <2>4, <2>5
  <1>5. 0 \in S
    BY <1>1
  <1>6. N \in S
    <2> HIDE DEF S
    <2>1. QED BY <1>4, <1>5, SetInduction, CounterAssumption
  <1>7. QED BY <1>6 DEF Total, s, t

(* What fread returns is the sum over all counters.  As long as those that *)
(* were read can be relied on it grows from call to call, and it is never  *)
(* more than all counters have measured.                                   *)
TotalGrows ==
  [][pc = "reading" /\ i > N /\ pc' = "idle" /\ impl # "cray_pm"
       /\ (\A c \in sampled : Reliable(c))
       => Total(reading') >= Total(reading) /\ Total(reading') <= Total(measured)]_vars

THEOREM SumOfTheCountersGrows == Spec => TotalGrows
  <1>1. ASSUME IInv, [Next]_vars, pc = "reading", i > N, pc' = "idle", impl # "cray_pm",
               \A c \in sampled : Reliable(c)
        PROVE  Total(reading') >= Total(reading) /\ Total(reading') <= Total(measured)
    <2>1. ReadReturn
      BY <1>1, CounterAssumption
         DEF IInv, TypeOK, SessionTypeOK, Counters,
             Next, MsrNext, RaplcapNext, IpgNext, CrayNext, Consume, vars, session,
             MsrInitCall, InitCall, MsrOpen, MsrInitFails, InitReturn, MsrReadCounter, MsrRead,
             MsrFinish, ReadCall, ReadFails, RaplcapInitCall, RaplcapCheckZone,
             RaplcapInitFails, RaplcapReadCounter, RaplcapSkipCounter, RaplcapRead,
             RaplcapFinish, ActiveAt, IpgInitCall, IpgFirstSample, IpgInitFails, IpgRead,
             IpgReadSample, IpgAddEnergy, IpgEnergyFails, IpgFinish, CrayInitCall,
             CrayOpenFile, CrayInitReturn, CrayInitFails, CrayFresh, CrayReadFile, CrayReturn,
             CrayStale, CrayNoFreshness, CrayReadFails, CrayFinish, Scan, Undo
    <2>2. /\ reading \in [Counters -> Nat] /\ measured \in [Counters -> Nat]
          /\ val \in [Counters -> Nat] /\ reading' = val
      BY <1>1, <2>1 DEF ReadReturn, IInv, TypeOK, SessionTypeOK, CounterTypeOK
    <2>3. ASSUME NEW c \in Counters
          PROVE  val[c] >= reading[c] /\ val[c] <= measured[c]
      <3>1. CASE c \in sampled
        BY <1>1, <2>2, <3>1, ReadKeepsUp
      <3>2. CASE c \notin sampled
        <4>1. val[c] = 0 /\ reading[c] = 0
          <5>1. impl \in Wrapping
            BY <1>1, <3>2
               DEF IInv, TypeOK, SessionTypeOK, Impls, Wrapping, Shape, IpgShape,
                   PackagesInv, PackageInv
          <5>2. QED BY <1>1, <3>2, <5>1 DEF IInv, WrappingInv, CounterInv
        <4>2. QED BY <2>2, <4>1
      <3>3. QED BY <3>1, <3>2
    <2>4. Total(reading) <= Total(val) /\ Total(val) <= Total(measured)
      BY <2>2, <2>3, TotalIsMonotone
    <2>5. Total(reading) \in Nat /\ Total(val) \in Nat
      BY <2>2, TotalIsNatural
    <2>6. QED BY <2>2, <2>4, <2>5
  <1>2. IInv /\ [Next]_vars =>
          [pc = "reading" /\ i > N /\ pc' = "idle" /\ impl # "cray_pm"
             /\ (\A c \in sampled : Reliable(c))
             => Total(reading') >= Total(reading) /\ Total(reading') <= Total(measured)]_vars
    BY <1>1
  <1>3. QED BY <1>2, Invariance, PTL DEF Spec, TotalGrows

-----------------------------------------------------------------------------
(* cray-pm.  As long as the freshness is what it was, what a call has      *)
(* added up is what the files before the next one show at that update.     *)
ScanInv ==
  impl = "cray_pm" /\ pc = "reading" /\ fresh_start = freshness /\ ~empty =>
    joules = Mega * SumTo(Shown(freshness, Files))[i - 1]

LEMMA ShownIsTyped ==
  ASSUME IInv, impl = "cray_pm" PROVE Shown(freshness, Files) \in [Counters -> Nat]
  <1>1. Len(scans) > 0 /\ scans \in Seq([Counters -> Nat])
    BY DEF IInv, TypeOK, CrayTypeOK, Shape, CrayShape
  <1>2. scans[freshness] \in [Counters -> Nat]
    BY <1>1 DEF freshness
  <1>3. QED BY <1>2 DEF Shown

LEMMA ReadFileKeepsScan ==
  ASSUME IInv, ScanInv, CrayReadFile PROVE ScanInv'
  <1>1. /\ impl = "cray_pm" /\ pc = "reading" /\ i \in Counters /\ i' = i + 1
        /\ UNCHANGED <<impl, pc, held, scans, fresh_start>>
    BY DEF CrayReadFile
  <1>2. SUFFICES ASSUME fresh_start = freshness, ~empty'
                 PROVE  joules' = Mega * SumTo(Shown(freshness, Files))[i' - 1]
    BY <1>1 DEF ScanInv, Shown, freshness, Files
  <1> DEFINE shown == Shown(freshness, Files)
  <1>3. PICK n \in Counters : n = i
    BY <1>1
  <1>4. n \in Nat /\ n - 1 \in 0..N /\ i' - 1 = n
    BY <1>1, <1>3, CounterAssumption DEF Counters
  <1>5. /\ SumTo(shown)[n] = SumTo(shown)[n - 1] + shown[n]
        /\ SumTo(shown)[n - 1] \in Nat /\ shown[n] \in Nat
    BY <1>1, <1>4, ShownIsTyped, SumToSteps
  <1>6. ~empty /\ joules = Mega * SumTo(shown)[n - 1]
    BY <1>1, <1>2, <1>3 DEF CrayReadFile, ScanInv
  <1>7. joules' = joules + Mega * shown[n]
    <2>1. CASE n \in held
      <3>1. shown[n] = scans[freshness][n]
        BY <2>1, CounterAssumption DEF Shown, Files, Library, Counters
      <3>2. QED BY <1>2, <1>3, <2>1, <3>1 DEF CrayReadFile
    <2>2. CASE n \notin held
      <3>1. shown[n] = 0 /\ joules' = joules
        BY <1>3, <2>2 DEF CrayReadFile, Shown, Files
      <3>2. joules \in Nat /\ Mega * 0 = 0
        BY CrayAssumption DEF IInv, TypeOK, CrayTypeOK
      <3>3. QED BY <3>1, <3>2
    <2>3. QED BY <2>1, <2>2
  <1> HIDE DEF shown
  <1>8. Mega * (SumTo(shown)[n - 1] + shown[n])
          = Mega * SumTo(shown)[n - 1] + Mega * shown[n]
    BY <1>5, CrayAssumption
  <1>9. joules' = Mega * SumTo(shown)[n]
    BY <1>5, <1>6, <1>7, <1>8
  <1>10. QED BY <1>4, <1>9 DEF shown

LEMMA ScanStep == IInv /\ ScanInv /\ [Next]_vars => ScanInv'
  <1> SUFFICES ASSUME IInv, ScanInv, [Next]_vars PROVE ScanInv'
    OBVIOUS
  <1>1. CASE CrayNext
    <2>1. CASE \/ CrayInitCall \/ CrayOpenFile \/ CrayInitReturn \/ CrayInitFails
               \/ CrayReturn \/ CrayStale \/ CrayNoFreshness \/ CrayReadFails
               \/ CrayFinish
      BY <2>1 DEF ScanInv, CrayInitCall, InitCall, CrayOpenFile, CrayInitReturn,
                  CrayInitFails, CrayReturn, CrayStale, CrayNoFreshness, CrayReadFails,
                  CrayFinish, Undo
    <2>2. CASE CrayFresh
      <3>1. impl' = "cray_pm" /\ i' = 1 /\ joules' = 0
        BY <2>2 DEF CrayFresh
      <3>2. SumTo(Shown(freshness, Files)')[0] = 0
        <4>1. Shown(freshness, Files)' = Shown(freshness, Files)
          BY <2>2 DEF CrayFresh, Shown, freshness, Files
        <4>2. Shown(freshness, Files) \in [Counters -> Nat]
          BY <2>2, ShownIsTyped DEF CrayFresh
        <4>3. QED BY <4>1, <4>2, SumToSteps
      <3>3. Mega * 0 = 0 /\ 1 - 1 = 0
        BY CrayAssumption
      <3>4. QED BY <3>1, <3>2, <3>3 DEF ScanInv, SumTo
    <2>3. CASE CrayReadFile
      BY <2>3, ReadFileKeepsScan
    <2>4. CASE Scan
      <3>1. fresh_start \in 0..freshness /\ freshness' = freshness + 1 /\ fresh_start' = fresh_start
        BY <2>4 DEF Scan, freshness, IInv, TypeOK, CrayTypeOK
      <3>2. freshness \in Nat
        BY DEF freshness, IInv, TypeOK, CrayTypeOK
      <3>3. QED BY <3>1, <3>2 DEF ScanInv
    <2>5. QED BY <1>1, <2>1, <2>2, <2>3, <2>4 DEF CrayNext
  <1>2. CASE \/ MsrNext /\ UNCHANGED <<raplcapVars, ipgVars, crayVars>>
             \/ RaplcapNext /\ UNCHANGED <<ipgVars, crayVars>>
             \/ IpgNext /\ UNCHANGED <<raplcapVars, crayVars>>
    <2>1. impl' # "cray_pm"
      BY <1>2, MsrShapeStep, RaplcapShapeStep, IpgShapeStep DEF IInv, Shape
    <2>2. QED BY <2>1 DEF ScanInv
  <1>3. CASE Consume
    BY <1>3 DEF Consume, session, ScanInv
  <1>4. CASE UNCHANGED vars
    BY <1>4 DEF vars, session, crayVars, ScanInv, Shown, freshness, Files
  <1>5. QED BY <1>1, <1>2, <1>3, <1>4 DEF Next

(* What cray-pm returns after a call whose files all had a number is what  *)
(* its files show together at one update, however many files there are and *)
(* however often they are updated while it reads them one by one.          *)
THEOREM ReadsAreOfOneScan == Spec => ReadsOneScan
  <1>1. Init => ScanInv
    BY DEF Init, SessionInit, ScanInv
  <1>2. IInv /\ ScanInv /\ [Next]_vars => ScanInv'
    BY ScanStep
  <1>3. ASSUME IInv, ScanInv, [Next]_vars, pc = "reading", fresh_total' # fresh_total, ~empty'
        PROVE  joules = Mega * JoulesAt(freshness, Files)
    <2>1. CrayReturn
      BY <1>3 DEF Next, MsrNext, RaplcapNext, IpgNext, CrayNext, Consume, vars, crayVars,
                  CrayInitCall, InitCall, CrayOpenFile, CrayInitReturn, CrayInitFails,
                  CrayFresh, CrayReadFile, CrayStale, CrayNoFreshness, CrayReadFails, CrayFinish,
                  Scan
    <2>2. i > N /\ fresh_start = freshness /\ impl = "cray_pm" /\ i \in 1..(N + 1)
      BY <1>3, <2>1 DEF CrayReturn, CrayStillFresh, IInv, TypeOK, SessionTypeOK
    <2>3. i - 1 = N
      BY <2>2, CounterAssumption
    <2>4. QED BY <1>3, <2>1, <2>2, <2>3 DEF CrayReturn, ScanInv, JoulesAt, Total
  <1>4. IInv /\ ScanInv /\ [Next]_vars =>
          [pc = "reading" /\ fresh_total' # fresh_total /\ ~empty'
             => joules = Mega * JoulesAt(freshness, Files)]_vars
    BY <1>3
  <1>5. QED BY <1>1, <1>2, <1>4, Invariance, PTL DEF Spec, ReadsOneScan
-----------------------------------------------------------------------------
(* raplcap-msr: which machines keep what they know of each counter in an   *)
(* entry of its own.                                                       *)
LEMMA EntriesOfOnePackage ==
  ASSUME n_die = N, NEW c \in Counters PROVE Entry(c) = c
  <1>1. c \in Nat /\ N \in Nat \ {0} /\ c - 1 \in 0..(N - 1)
    BY CounterAssumption DEF Counters
  <1>2. PICK k \in 0..(N - 1) : k = c - 1
    BY <1>1
  <1>3. k \div N = 0 /\ k % N = k
    BY <1>1
  <1>4. 0 * k = 0
    OBVIOUS
  <1>5. QED BY <1>1, <1>2, <1>3, <1>4 DEF Entry, Pkg, Die

LEMMA EntriesOfMorePackages ==
  ASSUME n_die \in Counters, n_die < N
  PROVE  n_die + 1 \in Counters \ {1} /\ Entry(n_die + 1) = Entry(1)
  <1>1. PICK d \in Nat \ {0} : d = n_die /\ d < N
    BY DEF Counters
  <1>2. d + 1 \in Counters /\ 1 \in Counters /\ d + 1 # 1
    BY <1>1, CounterAssumption DEF Counters
  <1>3. (1 - 1) \div d = 0 /\ (1 - 1) % d = 0
    BY <1>1
  <1>4. ((d + 1) - 1) \div d = 1 /\ ((d + 1) - 1) % d = 0
    <2>1. (d + 1) - 1 = d
      OBVIOUS
    <2>2. d \div d = 1 /\ d % d = 0
      OBVIOUS
    <2>3. QED BY <2>1, <2>2
  <1>5. QED BY <1>1, <1>2, <1>3, <1>4 DEF Entry, Pkg, Die

LEMMA DiesAreFixed == [Next]_vars => n_die' = n_die
  <1>1. RaplcapNext => n_die' = n_die
    BY DEF RaplcapNext, RaplcapInitCall, RaplcapCheckZone, RaplcapInitFails,
           RaplcapReadCounter, RaplcapSkipCounter, RaplcapRead, RaplcapFinish, raplcapVars
  <1>2. QED BY <1>1 DEF Next, Consume, vars, raplcapVars

(* The index that energymon_init_raplcap_msr and the read compute tells    *)
(* the counters apart on machines with one package and on no others: with  *)
(* a second package its first die shares the entry of the first one's.     *)
THEOREM EntriesAreOwnOnOnePackage ==
  Spec => []((\A c \in Counters : OwnEntry(c)) <=> n_die = N)
  <1>1. TypeOK => ((\A c \in Counters : OwnEntry(c)) <=> n_die = N)
    <2> SUFFICES ASSUME TypeOK PROVE (\A c \in Counters : OwnEntry(c)) <=> n_die = N
      OBVIOUS
    <2>1. n_die \in Counters /\ 1 \in Counters
      BY CounterAssumption DEF TypeOK, Counters
    <2>2. CASE n_die = N
      BY <2>2, EntriesOfOnePackage DEF OwnEntry
    <2>3. CASE n_die # N
      <3>1. n_die < N
        BY <2>1, <2>3, CounterAssumption DEF Counters
      <3>2. n_die + 1 \in Counters \ {1} /\ Entry(n_die + 1) = Entry(1)
        BY <2>1, <3>1, EntriesOfMorePackages
      <3>3. ~OwnEntry(1)
        BY <3>2 DEF OwnEntry
      <3>4. QED BY <2>1, <2>3, <3>3
    <2>4. QED BY <2>2, <2>3
  <1>2. QED BY <1>1, TypeCorrect, PTL

(* So on those machines raplcap-msr is never ahead of what its counters    *)
(* have measured, as energymon.h promises; with a second package TLC       *)
(* refutes it.                                                             *)
THEOREM OnePackageIsNeverAhead == Spec /\ n_die = N => NeverAhead
  <1>1. n_die = N /\ [Next]_vars => (n_die = N)'
    BY DiesAreFixed
  <1>2. ASSUME IInv, n_die = N, [Next]_vars, pc = "reading", i > N, pc' = "idle",
               impl = "raplcap_msr", NEW c \in Counters, Followed(c)
        PROVE  reading'[c] <= measured[c]
    <2>1. OwnEntry(c)
      BY <1>2, EntriesOfOnePackage DEF OwnEntry
    <2>2. QED BY <1>2, <2>1, ReadKeepsUp DEF Reliable
  <1>3. IInv /\ n_die = N /\ [Next]_vars =>
          [pc = "reading" /\ i > N /\ pc' = "idle" /\ impl = "raplcap_msr" =>
             \A c \in Counters : Followed(c) => reading'[c] <= measured[c]]_vars
    BY <1>2
  <1>4. QED BY <1>1, <1>3, Invariance, PTL DEF Spec, NeverAhead
-----------------------------------------------------------------------------
(* The energymon that msr, raplcap-msr and ipg are to their user: its      *)
(* total is the sum of what is kept of the counters read in this session.  *)
Phase == CASE pc = "opening" -> "busy"
           [] pc # "opening" /\ allocated -> "open"
           [] OTHER -> "closed"

Gathered(c) == IF c \notin sampled THEN 0 ELSE IF impl = "ipg" THEN j_sum[c] ELSE Told(c)
gathered == [c \in Counters |-> Gathered(c)]
Energy == Total(gathered)

EM == INSTANCE EnergyMonitor WITH phase <- Phase, energy <- Energy, reading <- Total(reading)

Dependable == impl # "cray_pm" /\ \A c \in sampled : Reliable(c)

(* Nothing has been read before finit returns or after ffinish, but for    *)
(* the first samples of Power Gadget, which have no energy.                *)
StartsAtZero ==
  impl # "cray_pm" /\ (pc = "opening" \/ ~allocated) =>
    /\ reading = Zero
    /\ \A c \in sampled : impl = "ipg" /\ pc = "opening" /\ j_sum[c] = 0

(* The sum of nothing.                                                     *)
LEMMA TotalOfNothing ==
  ASSUME NEW g \in [Counters -> Nat], \A c \in Counters : g[c] = 0 PROVE Total(g) = 0
  <1> DEFINE s == SumTo(g)
             S == {m \in Nat : m <= N => s[m] = 0}
  <1>1. s[0] = 0 /\ \A n \in Counters : s[n] = s[n - 1] + g[n]
    BY SumToSteps
  <1> HIDE DEF s
  <1>2. ASSUME NEW m \in Nat, m \in S PROVE m + 1 \in S
    <2>1. SUFFICES ASSUME m + 1 <= N PROVE s[m + 1] = 0
      OBVIOUS
    <2>2. m + 1 \in Counters /\ (m + 1) - 1 = m /\ m <= N
      BY <2>1, CounterAssumption DEF Counters
    <2>3. s[m + 1] = s[m] + g[m + 1] /\ g[m + 1] = 0 /\ s[m] = 0
      BY <1>1, <1>2, <2>2
    <2>4. QED BY <2>3
  <1>3. 0 \in S
    BY <1>1
  <1>4. N \in S
    <2> HIDE DEF S
    <2>1. QED BY <1>2, <1>3, SetInduction, CounterAssumption
  <1>5. QED BY <1>4, CounterAssumption DEF Total, s

LEMMA PhaseCases ==
  /\ pc = "opening" => Phase = "busy"
  /\ pc # "opening" /\ allocated => Phase = "open"
  /\ pc # "opening" /\ ~allocated => Phase = "closed"
  BY Zenon DEF Phase

LEMMA GatheredIsTyped ==
  ASSUME IInv, impl # "cray_pm" PROVE gathered \in [Counters -> Nat]
  <1> SUFFICES ASSUME NEW c \in Counters PROVE Gathered(c) \in Nat
    BY DEF gathered
  <1>1. CASE c \notin sampled
    BY <1>1 DEF Gathered
  <1>2. CASE c \in sampled /\ impl = "ipg"
    BY <1>2 DEF Gathered, IInv, TypeOK, IpgTypeOK
  <1>3. CASE c \in sampled /\ impl # "ipg"
    <2>1. impl \in Wrapping
      BY <1>3 DEF IInv, TypeOK, SessionTypeOK, Impls, Wrapping
    <2>2. Active(c)
      BY <1>3, <2>1 DEF IInv, WrappingInv, CounterInv
    <2>3. Told(c) \in Nat
      BY <2>1, <2>2, EntryTypes DEF IInv
    <2>4. QED BY <1>3, <2>3 DEF Gathered
  <1>4. QED BY <1>1, <1>2, <1>3

(* Before and after a session there is no energy.                          *)
EnergyInv ==
  impl # "cray_pm" =>
    /\ gathered \in [Counters -> Nat]
    /\ pc = "opening" \/ ~allocated => Energy = 0 /\ Total(reading) = 0

LEMMA EnergyFollows == IInv /\ StartsAtZero => EnergyInv
  <1> SUFFICES ASSUME IInv, StartsAtZero, impl # "cray_pm" PROVE EnergyInv
    BY DEF EnergyInv
  <1>1. gathered \in [Counters -> Nat]
    BY GatheredIsTyped
  <1>2. ASSUME pc = "opening" \/ ~allocated PROVE Energy = 0 /\ Total(reading) = 0
    <2>1. \A c \in Counters : gathered[c] = 0
      BY <1>2 DEF gathered, Gathered, StartsAtZero
    <2>2. reading \in [Counters -> Nat] /\ \A c \in Counters : reading[c] = 0
      BY <1>2, ZeroIsTyped DEF StartsAtZero, Zero
    <2>3. QED BY <1>1, <2>1, <2>2, TotalOfNothing DEF Energy
  <1>3. QED BY <1>1, <1>2 DEF EnergyInv

LEMMA ClearedStartsAtZero == ClearSession => StartsAtZero'
  BY DEF ClearSession, StartsAtZero

LEMMA StartsAtZeroStep == IInv /\ StartsAtZero /\ [Next]_vars => StartsAtZero'
  <1> SUFFICES ASSUME IInv, StartsAtZero, [Next]_vars PROVE StartsAtZero'
    OBVIOUS
  <1>1. CASE CrayNext /\ UNCHANGED <<raplcapVars, ipgVars>>
    BY <1>1, CrayShapeStep DEF IInv, Shape, StartsAtZero
  <1>2. CASE MsrNext /\ UNCHANGED <<raplcapVars, ipgVars, crayVars>>
    <2>1. CASE MsrInitCall \/ MsrInitFails \/ MsrFinish
      BY <2>1, ClearedStartsAtZero DEF MsrInitCall, InitCall, MsrInitFails, MsrFinish, Undo
    <2>2. CASE MsrOpen \/ InitReturn \/ MsrRead \/ MsrReadCounter
      BY <1>2, <2>2
         DEF MsrOpen, InitReturn, MsrRead, ReadCall, ReadFails, ReadReturn, MsrReadCounter,
             ReadWrapping, StartsAtZero, IInv, Shape, MsrShape
    <2>3. QED BY <1>2, <2>1, <2>2 DEF MsrNext
  <1>3. CASE RaplcapNext /\ UNCHANGED <<ipgVars, crayVars>>
    <2>1. CASE RaplcapInitCall \/ RaplcapInitFails \/ RaplcapFinish
      BY <2>1, ClearedStartsAtZero
         DEF RaplcapInitCall, InitCall, RaplcapInitFails, RaplcapFinish, Undo
    <2>2. CASE RaplcapCheckZone \/ InitReturn \/ RaplcapRead \/ RaplcapReadCounter
                 \/ RaplcapSkipCounter
      BY <1>3, <2>2
         DEF RaplcapCheckZone, InitReturn, RaplcapRead, ReadCall, ReadFails, ReadReturn,
             RaplcapReadCounter, RaplcapSkipCounter, ReadWrapping, StartsAtZero, IInv, Shape,
             RaplcapShape
    <2>3. QED BY <1>3, <2>1, <2>2 DEF RaplcapNext
  <1>4. CASE IpgNext /\ UNCHANGED <<raplcapVars, crayVars>>
    <2>1. CASE IpgInitCall \/ IpgInitFails \/ IpgFinish
      BY <2>1, ClearedStartsAtZero DEF IpgInitCall, InitCall, IpgInitFails, IpgFinish, Undo
    <2>2. CASE IpgFirstSample
      <3>1. /\ impl = "ipg" /\ pc = "opening" /\ i \in Counters /\ sampled' = sampled \cup {i}
            /\ UNCHANGED <<impl, pc, allocated, reading, j_sum>>
        BY <2>2 DEF IpgFirstSample
      <3>2. i \in Nat /\ sampleID[i] \in Nat
        BY <3>1, CounterAssumption DEF Counters, IInv, TypeOK, IpgTypeOK
      <3>3. PackageInv(i) /\ j_sum[i] = sampleID[i]
        BY <3>1 DEF IInv, PackagesInv
      <3>4. i \notin sampled
        BY <3>1, <3>2, <3>3 DEF PackageInv
      <3>5. j_sum[i] = 0
        BY <3>2, <3>3, <3>4 DEF PackageInv
      <3>6. QED BY <3>1, <3>5 DEF StartsAtZero
    <2>3. CASE InitReturn \/ IpgRead \/ IpgReadSample \/ IpgAddEnergy \/ IpgEnergyFails
      BY <1>4, <2>3
         DEF InitReturn, IpgRead, ReadCall, ReadFails, ReadReturn, IpgReadSample, IpgAddEnergy,
             IpgEnergyFails, StartsAtZero, IInv, Shape, IpgShape
    <2>4. QED BY <1>4, <2>1, <2>2, <2>3 DEF IpgNext
  <1>5. CASE Consume \/ UNCHANGED vars
    BY <1>5 DEF Consume, vars, session, ipgVars, StartsAtZero
  <1>6. QED BY <1>1, <1>2, <1>3, <1>4, <1>5 DEF Next

(* A step that adds to what is kept of some counters.                      *)
LEMMA AddingAccumulates ==
  ASSUME EnergyInv, EnergyInv', impl # "cray_pm", impl' # "cray_pm", pc # "opening", pc' # "opening",
         allocated, allocated', reading' = reading,
         \A c \in Counters : Gathered(c) <= Gathered(c)'
  PROVE  EM!Accumulate
  <1>1. gathered \in [Counters -> Nat] /\ gathered' \in [Counters -> Nat]
    BY DEF EnergyInv
  <1>2. \A c \in Counters : gathered[c] <= gathered'[c]
    BY DEF gathered
  <1>3. Total(gathered) <= Total(gathered')
    BY <1>1, <1>2, TotalIsMonotone
  <1>4. Total(gathered') \in Nat /\ Total(gathered) \in Nat
    BY <1>1, TotalIsNatural
  <1>5. Energy' \in Nat /\ Energy' >= Energy
    BY <1>3, <1>4 DEF Energy
  <1>6. Phase = "open" /\ Phase' = Phase
    BY DEF Phase
  <1>7. Total(reading)' = Total(reading)
    OBVIOUS
  <1>8. QED BY <1>5, <1>6, <1>7 DEF EM!Accumulate

(* A step that changes nothing its user could see.                         *)
LEMMA QuietStutters ==
  ASSUME Phase' = Phase, reading' = reading, \A c \in Counters : Gathered(c)' = Gathered(c)
  PROVE  UNCHANGED EM!emVars
  <1>1. gathered' = gathered
    BY DEF gathered
  <1>2. Energy' = Energy /\ Total(reading)' = Total(reading)
    BY <1>1 DEF Energy
  <1>3. QED BY <1>2 DEF EM!emVars

(* Steps that leave what is kept alone.                                    *)
LEMMA KeptStutters ==
  ASSUME Phase' = Phase,
         UNCHANGED <<impl, entries, reading, sampled, n_die, j_sum>>
  PROVE  UNCHANGED EM!emVars
  <1>1. ASSUME NEW c \in Counters PROVE Gathered(c)' = Gathered(c)
    BY DEF Gathered, Told, Kept, Overflows, EntryOf, Entry, Pkg, Die, entries
  <1>2. QED BY <1>1, QuietStutters

(* A finit is called, fails or returns, and a ffinish.                     *)
LEMMA InitCallRefines ==
  ASSUME EnergyInv, EnergyInv', impl # "cray_pm",
         NEW which, NEW files, NEW publish, InitCall(which, files, publish)
  PROVE  EM!InitCall
  <1>1. pc = "idle" /\ ~allocated /\ pc' = "opening" /\ impl' = impl
    BY DEF InitCall
  <1>2. Phase = "closed" /\ Phase' = "busy"
    BY <1>1 DEF Phase
  <1>3. Energy = 0 /\ Total(reading) = 0
    BY <1>1 DEF EnergyInv
  <1>4. (Energy = 0 /\ Total(reading) = 0)'
    BY <1>1 DEF EnergyInv
  <1>5. QED BY <1>2, <1>3, <1>4 DEF EM!InitCall

LEMMA UndoRefines ==
  ASSUME EnergyInv', impl # "cray_pm", pc = "opening" \/ allocated,
         NEW which, NEW undone, Undo(which, undone)
  PROVE  EM!EMNext
  <1>1. pc' = "idle" /\ ~allocated' /\ impl' = impl
    BY DEF Undo
  <1>2. Phase' = "closed" /\ (Phase = "busy" \/ Phase = "open")
    BY <1>1, PhaseCases DEF Phase
  <1>3. (Energy = 0 /\ Total(reading) = 0)'
    BY <1>1 DEF EnergyInv
  <1>4. EM!Release \/ EM!Close
    BY <1>2, <1>3 DEF EM!Release, EM!Close
  <1>5. QED BY <1>4 DEF EM!EMNext

LEMMA InitReturnRefines ==
  ASSUME EnergyInv, impl # "cray_pm", InitReturn, UNCHANGED <<n_die, j_sum>>
  PROVE  EM!InitReturn
  <1>1. pc = "opening" /\ pc' = "idle" /\ allocated'
        /\ UNCHANGED <<impl, entries, reading, sampled>>
    BY DEF InitReturn
  <1>2. Phase = "busy" /\ Phase' = "open"
    BY <1>1 DEF Phase
  <1>3. Energy = 0 /\ Total(reading) = 0
    BY <1>1 DEF EnergyInv
  <1>4. \A c \in Counters : Gathered(c)' = Gathered(c)
    BY <1>1 DEF Gathered, Told, Kept, Overflows, EntryOf, Entry, Pkg, Die, entries
  <1>5. gathered' = gathered
    BY <1>4 DEF gathered
  <1>6. Energy' = Energy /\ Total(reading)' = Total(reading)
    BY <1>1, <1>5 DEF Energy
  <1>7. QED BY <1>2, <1>3, <1>6 DEF EM!InitReturn

(* A call of fread is quiet until it returns the sum of what is kept.      *)
LEMMA ReadReturnRefines ==
  ASSUME IInv, Dependable, ReadReturn, UNCHANGED <<n_die, j_sum>>
  PROVE  EM!FRead
  <1>1. /\ pc = "reading" /\ pc' = "idle" /\ i > N /\ reading' = val
        /\ UNCHANGED <<impl, allocated, entries, sampled>>
    BY DEF ReadReturn
  <1>2. allocated
    BY <1>1 DEF IInv, TypeOK, SessionTypeOK, Impls, Shape, MsrShape, RaplcapShape, IpgShape,
                Dependable
  <1>3. Phase = "open" /\ Phase' = Phase
    BY <1>1, <1>2 DEF Phase
  <1>4. ASSUME NEW c \in Counters PROVE val[c] = Gathered(c)
    <2>1. c < i
      BY <1>1, CounterAssumption DEF Counters, IInv, TypeOK, SessionTypeOK
    <2>2. CASE impl = "ipg"
      <3>1. PackageInv(c)
        BY <1>2, <2>2 DEF IInv, PackagesInv
      <3>2. QED BY <1>1, <2>1, <2>2, <3>1 DEF PackageInv, Gathered
    <2>3. CASE impl \in Wrapping
      <3>1. CounterInv(c)
        BY <2>3 DEF IInv, WrappingInv
      <3>2. impl # "ipg"
        BY <2>3 DEF Wrapping
      <3>3. QED BY <1>1, <2>1, <3>1, <3>2 DEF CounterInv, Gathered, Dependable
    <2>4. QED BY <2>2, <2>3 DEF IInv, TypeOK, SessionTypeOK, Impls, Wrapping, Dependable
  <1>5. val = gathered
    <2>1. val \in [Counters -> Nat]
      BY DEF IInv, TypeOK, SessionTypeOK
    <2>2. QED BY <1>4, <2>1 DEF gathered
  <1>6. Energy' = Energy
    <2>1. \A c \in Counters : Gathered(c)' = Gathered(c)
      BY <1>1 DEF Gathered, Told, Kept, Overflows, EntryOf, Entry, Pkg, Die, entries
    <2>2. gathered' = gathered
      BY <2>1 DEF gathered
    <2>3. QED BY <2>2 DEF Energy
  <1>7. Total(reading)' = Energy
    <2>1. Total(reading') = Total(gathered)
      BY <1>1, <1>5
    <2>2. QED BY <2>1 DEF Energy
  <1>8. QED BY <1>3, <1>6, <1>7 DEF EM!FRead

LEMMA CallRefines ==
  ASSUME IInv, Dependable, ReadCall \/ ReadFails \/ ReadReturn, UNCHANGED <<n_die, j_sum>>
  PROVE  [EM!EMNext]_EM!emVars
  <1>1. CASE ReadReturn
    BY <1>1, ReadReturnRefines DEF EM!EMNext
  <1>2. CASE ReadCall \/ ReadFails
    <2>1. UNCHANGED <<impl, allocated, entries, reading, sampled>> /\ pc # "opening"
          /\ pc' # "opening"
      BY <1>2 DEF ReadCall, ReadFails
    <2>2. Phase' = Phase
      BY <2>1 DEF Phase
    <2>3. QED BY <2>1, <2>2, KeptStutters
  <1>3. QED BY <1>1, <1>2

(* A counter of msr or raplcap-msr is read: what is kept of it does not    *)
(* become less, and that of the others stays.                              *)
LEMMA ReadWrappingRefines ==
  ASSUME IInv, EnergyInv, EnergyInv', Dependable, Dependable', impl \in Wrapping, i \in Counters, Active(i),
         NEW step \in Nat, step = IF impl = "msr" THEN Range - 1 ELSE Range, pc = "reading",
         ReadWrapping(i, EntryOf(i), step), UNCHANGED <<n_die, is_active>>
  PROVE  EM!Accumulate
  <1>1. /\ UNCHANGED <<impl, pc, allocated, reading>>
        /\ sampled' = sampled \cup {i}
        /\ late' = IF i \in sampled /\ gap[i] >= Range THEN late \cup {i} ELSE late
    BY DEF ReadWrapping
  <1>2. impl # "ipg" /\ allocated
    BY DEF IInv, Shape, MsrShape, RaplcapShape, Wrapping
  <1>3. ASSUME NEW c \in Counters PROVE Gathered(c) <= Gathered(c)'
    <2>1. Gathered(c) \in Nat /\ Gathered(c)' \in Nat
      <3>1. gathered \in [Counters -> Nat] /\ gathered' \in [Counters -> Nat]
        BY DEF EnergyInv, Dependable
      <3>2. gathered[c] = Gathered(c) /\ gathered'[c] = Gathered(c)'
        BY DEF gathered
      <3>3. QED BY <3>1, <3>2
    <2>2. CASE c \notin sampled
      <3>1. Gathered(c) = 0
        BY <2>2 DEF Gathered
      <3>2. QED BY <2>1, <3>1
    <2>3. CASE c \in sampled /\ c = i
      <3>1. Reliable(c) /\ Reliable(c)'
        BY <1>1, <2>3 DEF Dependable
      <3>2. c \notin late' /\ Own(c)
        BY <3>1 DEF Reliable, Followed, Own
      <3>3. c \notin late /\ gap[c] < Range
        BY <1>1, <2>3, <3>2, CounterAssumption DEF IInv, TypeOK, SessionTypeOK, CounterTypeOK
      <3>4. Told(c) <= Told(c)'
        BY <2>3, <3>2, <3>3, ReadInTime
      <3>5. Gathered(c) = Told(c) /\ Gathered(c)' = Told(c)'
        BY <1>1, <1>2, <2>3 DEF Gathered
      <3>6. QED BY <3>4, <3>5
    <2>4. CASE c \in sampled /\ c # i
      <3>1. Own(c) /\ Active(c)
        BY <2>4 DEF Dependable, Reliable, Own, IInv, WrappingInv, CounterInv
      <3>2. EntryOf(c) # EntryOf(i)
        BY <2>4, <3>1 DEF Own, OwnEntry, EntryOf
      <3>3. EntryOf(c) \in Counters /\ EntryOf(i) \in Counters
        BY <3>1, EntryTypes DEF IInv
      <3>4. EntryOf(c)' = EntryOf(c)
        BY <1>1 DEF EntryOf, Entry, Pkg, Die
      <3>5. Kept(c)' = Kept(c) /\ Overflows(c)' = Overflows(c)
        BY <3>2, <3>3, <3>4 DEF ReadWrapping, Kept, Overflows, IInv, TypeOK, SessionTypeOK
      <3>6. Gathered(c)' = Gathered(c)
        BY <1>1, <1>2, <2>4, <3>5 DEF Gathered, Told
      <3>7. QED BY <2>1, <3>6
    <2>5. QED BY <2>2, <2>3, <2>4
  <1>4. QED
    BY <1>1, <1>2, <1>3, AddingAccumulates DEF Dependable

LEMMA MsrRefines ==
  ASSUME IInv, EnergyInv, EnergyInv', Dependable, Dependable', MsrNext,
         UNCHANGED <<raplcapVars, ipgVars>>
  PROVE  [EM!EMNext]_EM!emVars
  <1> USE DEF raplcapVars, ipgVars
  <1>1. impl = "msr" /\ impl # "cray_pm" /\ impl \in Wrapping
    BY DEF MsrNext, MsrInitCall, InitCall, MsrOpen, MsrInitFails, MsrReadCounter, MsrRead,
           MsrFinish, Undo, Wrapping
  <1>2. CASE MsrInitCall
    BY <1>1, <1>2, InitCallRefines DEF MsrInitCall, EM!EMNext
  <1>3. CASE MsrOpen
    <2>1. UNCHANGED <<impl, entries, reading, sampled, pc, allocated>>
      BY <1>3 DEF MsrOpen
    <2>2. Phase' = Phase
      BY <2>1 DEF Phase
    <2>3. QED BY <2>1, <2>2, KeptStutters
  <1>4. CASE MsrInitFails
    <2>1. pc = "opening" /\ pc' = "idle" /\ ~allocated' /\ impl' = impl
      BY <1>4 DEF MsrInitFails
    <2>2. Phase = "busy" /\ Phase' = "closed"
      BY <2>1 DEF Phase
    <2>3. (Energy = 0 /\ Total(reading) = 0)'
      BY <1>1, <2>1 DEF EnergyInv
    <2>4. EM!Release
      BY <2>2, <2>3 DEF EM!Release
    <2>5. QED BY <2>4 DEF EM!EMNext
  <1>5. CASE InitReturn
    BY <1>1, <1>5, InitReturnRefines DEF EM!EMNext
  <1>6. CASE MsrRead
    BY <1>6, CallRefines DEF MsrRead
  <1>7. CASE MsrReadCounter
    <2>1. /\ pc = "reading" /\ i \in Counters /\ EntryOf(i) = i /\ Active(i)
          /\ ReadWrapping(i, i, Range - 1) /\ Range - 1 \in Nat
      BY <1>1, <1>7, CounterAssumption DEF MsrReadCounter, MsrOverflow, EntryOf, Active
    <2>2. EM!Accumulate
      BY <1>1, <2>1, ReadWrappingRefines
    <2>3. QED BY <2>2 DEF EM!EMNext
  <1>8. CASE MsrFinish
    BY <1>1, <1>8, UndoRefines DEF MsrFinish
  <1>9. QED BY <1>2, <1>3, <1>4, <1>5, <1>6, <1>7, <1>8 DEF MsrNext

LEMMA RaplcapRefines ==
  ASSUME IInv, EnergyInv, EnergyInv', Dependable, Dependable', RaplcapNext, UNCHANGED ipgVars
  PROVE  [EM!EMNext]_EM!emVars
  <1> USE DEF raplcapVars, ipgVars
  <1>1. impl = "raplcap_msr" /\ impl # "cray_pm" /\ impl \in Wrapping
    BY DEF RaplcapNext, RaplcapInitCall, InitCall, RaplcapCheckZone, RaplcapInitFails,
           RaplcapReadCounter, RaplcapSkipCounter, RaplcapRead, RaplcapFinish, Undo, Wrapping
  <1>2. CASE RaplcapInitCall
    BY <1>1, <1>2, InitCallRefines DEF RaplcapInitCall, EM!EMNext
  <1>3. CASE RaplcapCheckZone \/ RaplcapSkipCounter
    <2>1. UNCHANGED <<impl, entries, reading, sampled, pc, allocated, n_die>>
      BY <1>3 DEF RaplcapCheckZone, RaplcapSkipCounter
    <2>2. Phase' = Phase
      BY <2>1 DEF Phase
    <2>3. QED BY <2>1, <2>2, KeptStutters
  <1>4. CASE RaplcapInitFails \/ RaplcapFinish
    BY <1>1, <1>4, UndoRefines DEF RaplcapInitFails, RaplcapFinish
  <1>5. CASE InitReturn /\ UNCHANGED raplcapVars
    BY <1>1, <1>5, InitReturnRefines DEF EM!EMNext
  <1>6. CASE RaplcapRead
    BY <1>6, CallRefines DEF RaplcapRead
  <1>7. CASE RaplcapReadCounter
    <2>1. /\ pc = "reading" /\ i \in Counters /\ EntryOf(i) = Entry(i) /\ Active(i)
          /\ ReadWrapping(i, Entry(i), Range) /\ Range \in Nat
          /\ UNCHANGED <<n_die, is_active>>
      BY <1>1, <1>7, CounterAssumption DEF RaplcapReadCounter, ActiveAt, EntryOf, Active
    <2>2. Range = IF impl = "msr" THEN Range - 1 ELSE Range
      BY <1>1
    <2>3. EM!Accumulate
      BY <1>1, <2>1, <2>2, ReadWrappingRefines
    <2>4. QED BY <2>3 DEF EM!EMNext
  <1>8. QED BY <1>1, <1>2, <1>3, <1>4, <1>5, <1>6, <1>7 DEF RaplcapNext

LEMMA IpgRefines ==
  ASSUME IInv, EnergyInv, EnergyInv', Dependable, Dependable', IpgNext, UNCHANGED raplcapVars
  PROVE  [EM!EMNext]_EM!emVars
  <1> USE DEF raplcapVars, ipgVars
  <1>1. impl = "ipg" /\ impl' = "ipg" /\ impl # "cray_pm" /\ impl' # "cray_pm"
    <2>1. impl = "ipg" /\ impl' = impl
      BY DEF IpgNext, IpgInitCall, InitCall, IpgFirstSample, IpgInitFails, Undo, InitReturn,
             IpgRead, ReadCall, ReadFails, ReadReturn, IpgReadSample, IpgAddEnergy,
             IpgEnergyFails, IpgFinish
    <2>2. QED BY <2>1
  <1>2. CASE IpgInitCall
    <2>1. InitCall("ipg", IF skip THEN {} ELSE {Library}, FALSE)
      BY <1>2 DEF IpgInitCall
    <2>2. QED BY <1>1, <2>1, InitCallRefines DEF EM!EMNext
  <1>3. CASE IpgFirstSample
    <2>1. UNCHANGED <<reading, pc, allocated>> /\ pc = "opening"
      BY <1>3 DEF IpgFirstSample
    <2>2. Phase' = Phase
      BY <2>1 DEF Phase
    <2>3. Energy = 0 /\ (Energy = 0)'
      BY <1>1, <2>1 DEF EnergyInv
    <2>4. Energy' = Energy /\ Total(reading)' = Total(reading)
      BY <2>1, <2>3
    <2>5. QED BY <2>2, <2>4 DEF EM!emVars
  <1>4. CASE IpgInitFails \/ IpgFinish
    BY <1>1, <1>4, UndoRefines DEF IpgInitFails, IpgFinish
  <1>5. CASE InitReturn /\ UNCHANGED ipgVars
    BY <1>1, <1>5, InitReturnRefines DEF EM!EMNext
  <1>6. CASE IpgRead
    BY <1>6, CallRefines DEF IpgRead
  <1>7. CASE IpgReadSample \/ IpgEnergyFails
    <2>1. /\ UNCHANGED <<impl, entries, reading, sampled, allocated, j_sum, n_die>>
          /\ pc # "opening" /\ pc' # "opening"
      BY <1>7 DEF IpgReadSample, IpgEnergyFails
    <2>2. Phase' = Phase
      BY <2>1 DEF Phase
    <2>3. QED BY <2>1, <2>2, KeptStutters
  <1>8. CASE IpgAddEnergy
    <2>1. /\ pc = "energy" /\ pc' = "reading"
          /\ UNCHANGED <<allocated, reading, sampled>>
          /\ j_sum' = [j_sum EXCEPT ![i] = @ + newID - sampleID[i]]
      BY <1>8 DEF IpgAddEnergy
    <2>2. allocated /\ i \in Counters
      BY <1>1, <2>1 DEF IInv, Shape, IpgShape
    <2>3. /\ j_sum \in [Counters -> Nat] /\ sampleID \in [Counters -> Nat] /\ newID \in Nat
      BY DEF IInv, TypeOK, IpgTypeOK
    <2>4. sampleID[i] <= newID
      BY <1>1, <2>1, <2>2 DEF IInv, PackagesInv, PackageInv
    <2>5. ASSUME NEW c \in Counters PROVE j_sum[c] <= j_sum'[c]
      <3>1. CASE c = i
        <4>1. j_sum'[i] = j_sum[i] + newID - sampleID[i]
          BY <2>1, <2>2, <2>3
        <4>2. j_sum[i] \in Nat /\ sampleID[i] \in Nat
          BY <2>2, <2>3
        <4>3. QED BY <2>3, <2>4, <3>1, <4>1, <4>2
      <3>2. CASE c # i
        <4>1. j_sum'[c] = j_sum[c] /\ j_sum[c] \in Nat
          BY <2>1, <2>3, <3>2
        <4>2. QED BY <4>1
      <3>3. QED BY <3>1, <3>2
    <2>6. ASSUME NEW c \in Counters PROVE Gathered(c) <= Gathered(c)'
      BY <1>1, <2>1, <2>5 DEF Gathered
    <2>7. EM!Accumulate
      BY <1>1, <2>1, <2>2, <2>6, AddingAccumulates
    <2>8. QED BY <2>7 DEF EM!EMNext
  <1>9. QED BY <1>2, <1>3, <1>4, <1>5, <1>6, <1>7, <1>8 DEF IpgNext

(* msr, raplcap-msr and ipg keep the contract of inc/energymon.h as long   *)
(* as each counter is read once per round and has an entry of its own: the *)
(* total over all counters starts at zero, is never taken back, over any   *)
(* number of overflows and of calls that fail half-way, and is what a good *)
(* call returns.                                                           *)
THEOREM CountersImplementEnergyMonitor == Spec /\ []Dependable => EM!EMSpec
  <1>1. Init /\ IInv /\ Dependable => StartsAtZero /\ EM!EMInit
    <2> SUFFICES ASSUME Init, IInv, Dependable PROVE StartsAtZero /\ EM!EMInit
      OBVIOUS
    <2>1. pc = "idle" /\ ~allocated /\ reading = Zero /\ sampled = {}
      BY DEF Init, SessionInit
    <2>2. StartsAtZero
      BY <2>1 DEF StartsAtZero
    <2>3. Energy = 0 /\ Total(reading) = 0
      BY <2>1, <2>2, EnergyFollows DEF EnergyInv, Dependable
    <2>4. Phase = "closed"
      BY <2>1 DEF Phase
    <2>5. QED BY <2>2, <2>3, <2>4 DEF EM!EMInit
  <1>2. Init => StartsAtZero
    BY DEF Init, SessionInit, StartsAtZero
  <1>3. /\ IInv /\ EnergyInv /\ EnergyInv' /\ Dependable /\ Dependable' /\ [Next]_vars
        => [EM!EMNext]_EM!emVars
    <2> SUFFICES ASSUME IInv, EnergyInv, EnergyInv', Dependable, Dependable', [Next]_vars
                 PROVE  [EM!EMNext]_EM!emVars
      OBVIOUS
    <2>1. CASE MsrNext /\ UNCHANGED <<raplcapVars, ipgVars, crayVars>>
      BY <2>1, MsrRefines
    <2>2. CASE RaplcapNext /\ UNCHANGED <<ipgVars, crayVars>>
      BY <2>2, RaplcapRefines
    <2>3. CASE IpgNext /\ UNCHANGED <<raplcapVars, crayVars>>
      BY <2>3, IpgRefines
    <2>4. CASE CrayNext /\ UNCHANGED <<raplcapVars, ipgVars>>
      <3>1. impl' = "cray_pm"
        BY <2>4, CrayShapeStep DEF IInv, Shape
      <3>2. QED BY <3>1 DEF Dependable
    <2>5. CASE Consume \/ UNCHANGED vars
      <3>1. UNCHANGED <<impl, entries, reading, sampled, pc, allocated, n_die, j_sum>>
        BY <2>5 DEF Consume, vars, session, raplcapVars, ipgVars
      <3>2. Phase' = Phase
        BY <3>1 DEF Phase
      <3>3. QED BY <3>1, <3>2, KeptStutters
    <2>6. QED BY <2>1, <2>2, <2>3, <2>4, <2>5 DEF Next
  <1>4. QED
    BY <1>1, <1>2, <1>3, EnergyFollows, StartsAtZeroStep, Invariance, PTL DEF Spec, EM!EMSpec
=============================================================================
