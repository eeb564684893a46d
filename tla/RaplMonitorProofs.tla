-------------------------- MODULE RaplMonitorProofs --------------------------
(***************************************************************************)
(* The accounting of RaplMonitor for every number of zones, every range of *)
(* the counters and any number of overflows.                               *)
(***************************************************************************)
EXTENDS RaplMonitor, TLAPS

(* Where a counter stands relative to the value last read from it.         *)
Position(z) ==
  z \in sampled \ unreliable /\ gap[z] < Range =>
    value[z] = energy_last[z] + gap[z] \/ value[z] + Range = energy_last[z] + gap[z]

(* What the state accounts for, against what has been measured, what the   *)
(* last call returned and what the call in progress will return.           *)
Account(z) == energy_last[z] + energy_overflow_count[z] * Range

ZoneInv(z) ==
  /\ z \notin sampled => /\ energy_last[z] = 0 /\ energy_overflow_count[z] = 0
                         /\ reading[z] = 0
  /\ Reliable(z) => /\ Account(z) + gap[z] = measured[z]
                    /\ reading[z] <= Account(z)
                    /\ pc = "reading" /\ z < i => val[z] = Account(z)
  /\ Position(z)

LifeCycle ==
  /\ pc = "opening" => ~allocated /\ sampled = {} /\ \A z \in Counters : z < i => z \in energy_fd
  /\ pc = "reading" => allocated
  /\ pc = "reading" => \A z \in Counters : z < i => z \in sampled

IInv == TypeOK /\ AllOrNothing /\ LifeCycle /\ \A z \in Counters : ZoneInv(z)

-----------------------------------------------------------------------------
(* One more overflow adds the counter's range once.                        *)
LEMMA OneMoreOverflow ==
  ASSUME NEW n \in Nat, NEW r \in Nat PROVE (n + 1) * r = n * r + r
  OBVIOUS

LEMMA OverflowsAreNat ==
  ASSUME TypeOK, NEW z \in Counters, NEW now \in 0..(Range - 1)
  PROVE  OverflowsAfter(z, now) \in Nat
  BY CounterAssumption DEF TypeOK, OverflowsAfter, StartedOver

(* The state after calloc and after free.                                  *)
LEMMA ClearStateTypes ==
  ASSUME TypeOK, ClearState, CounterTypeOK', pc' \in {"idle", "opening"},
         allocated' \in BOOLEAN, energy_fd' \subseteq Counters
  PROVE  TypeOK'
  BY CounterAssumption DEF TypeOK, ClearState, Zero, Counters

-----------------------------------------------------------------------------
LEMMA TypeCorrectStep == TypeOK /\ [Next]_vars => TypeOK'
  <1> SUFFICES ASSUME TypeOK, [Next]_vars PROVE TypeOK'
    OBVIOUS
  <1> USE CounterAssumption
  <1>a. ASSUME UNCHANGED counters PROVE CounterTypeOK'
    BY <1>a DEF TypeOK, CounterTypeOK, counters
  <1>b. ASSUME NEW z \in Counters, NEW first \in BOOLEAN, Sample(z, first)
        PROVE  CounterTypeOK'
    BY <1>b DEF TypeOK, CounterTypeOK, Sample
  <1>c. ASSUME NEW now \in 0..(Range - 1), pc = "reading", i \in Counters, Record(i, now)
        PROVE  /\ i' \in 1..(N + 1)
               /\ energy_last' \in [Counters -> 0..(Range - 1)]
               /\ energy_overflow_count' \in [Counters -> Nat]
               /\ val' \in [Counters -> Nat]
               /\ sampled' \subseteq Counters
    <2>1. OverflowsAfter(i, now) \in Nat
      BY <1>c, OverflowsAreNat
    <2>2. now + OverflowsAfter(i, now) * max_energy_range_uj[i] \in Nat
      <3>1. max_energy_range_uj[i] \in Nat
        BY <1>c DEF TypeOK
      <3>2. OverflowsAfter(i, now) * max_energy_range_uj[i] \in Nat
        BY <2>1, <3>1
      <3>3. QED BY <3>2
    <2>3. i' \in 1..(N + 1)
      BY <1>c DEF Record, LastAfter, Counters
    <2>4. energy_last' \in [Counters -> 0..(Range - 1)]
      BY <1>c DEF Record, LastAfter, TypeOK
    <2>5. energy_overflow_count' \in [Counters -> Nat]
      BY <1>c, <2>1 DEF Record, LastAfter, TypeOK
    <2>6. val' \in [Counters -> Nat]
      BY <1>c, <2>2 DEF Record, LastAfter, TypeOK
    <2>7. sampled' \subseteq Counters
      BY <1>c DEF Record, LastAfter, TypeOK
    <2>8. QED BY <2>3, <2>4, <2>5, <2>6, <2>7
  <1>1. CASE InitCall
    BY <1>1, <1>a, ClearStateTypes DEF InitCall, TypeOK
  <1>2. CASE OpenZone
    <2>1. energy_fd' \subseteq Counters /\ i' \in 1..(N + 1)
      BY <1>2 DEF OpenZone, TypeOK, Counters
    <2>2. max_energy_range_uj' \in [Counters -> {0, Range}]
      BY <1>2 DEF OpenZone, TypeOK
    <2>3. CounterTypeOK'
      BY <1>2, <1>a DEF OpenZone
    <2>4. QED BY <1>2, <2>1, <2>2, <2>3 DEF OpenZone, TypeOK
  <1>3. CASE InitReturn
    BY <1>3, <1>a DEF InitReturn, TypeOK, zones
  <1>4. CASE InitFails
    BY <1>4, <1>a, ClearStateTypes DEF InitFails, AfterCleanup, TypeOK
  <1>5. CASE ReadCall
    BY <1>5, <1>a DEF ReadCall, TypeOK, zones
  <1>6. CASE ReadZone
    <2>1. pc = "reading" /\ i \in Counters /\ Record(i, value[i])
      BY <1>6 DEF ReadZone
    <2>2. value[i] \in 0..(Range - 1)
      BY <2>1 DEF TypeOK, CounterTypeOK
    <2>3. CounterTypeOK'
      BY <1>6, <2>1, <1>b DEF ReadZone
    <2>4. UNCHANGED <<pc, allocated, energy_fd, max_energy_range_uj, reading>>
          /\ unreliable' \subseteq Counters
      BY <1>6, <2>1 DEF ReadZone, TypeOK
    <2>5. QED BY <2>1, <2>2, <2>3, <2>4, <1>c DEF TypeOK
  <1>7. CASE ReadZoneEmpty
    <2>1. pc = "reading" /\ i \in Counters /\ Record(i, 0)
      BY <1>7 DEF ReadZoneEmpty
    <2>2. CounterTypeOK'
      BY <1>7, <1>a DEF ReadZoneEmpty
    <2>3. UNCHANGED <<pc, allocated, energy_fd, max_energy_range_uj, reading>>
          /\ unreliable' \subseteq Counters
      BY <1>7, <2>1 DEF ReadZoneEmpty, TypeOK
    <2>4. 0 \in 0..(Range - 1)
      OBVIOUS
    <2>5. QED BY <2>1, <2>2, <2>3, <2>4, <1>c DEF TypeOK
  <1>8. CASE ReadFails
    BY <1>8, <1>a DEF ReadFails, TypeOK, zones, Zero
  <1>9. CASE ReadReturn
    BY <1>9, <1>a DEF ReadReturn, TypeOK, zones, Zero
  <1>10. CASE Finish
    <2>1. CounterTypeOK'
      BY <1>10 DEF Finish, EndHistory, TypeOK, CounterTypeOK
    <2>2. QED BY <1>10, <2>1, ClearStateTypes DEF Finish, TypeOK
  <1>11. CASE Consume
    <2>1. CounterTypeOK'
      BY <1>11 DEF Consume, Count, TypeOK, CounterTypeOK
    <2>2. QED BY <1>11, <2>1 DEF Consume, TypeOK, zones
  <1>12. CASE UNCHANGED vars
    BY <1>12, <1>a DEF vars, TypeOK, zones
  <1>13. QED
    BY <1>1, <1>2, <1>3, <1>4, <1>5, <1>6, <1>7, <1>8, <1>9, <1>10, <1>11, <1>12 DEF Next

(* Descriptors and the order of the zones within a call.                   *)
LEMMA LifeCycleStep ==
  TypeOK /\ AllOrNothing /\ LifeCycle /\ [Next]_vars => AllOrNothing' /\ LifeCycle'
  <1> SUFFICES ASSUME TypeOK, AllOrNothing, LifeCycle, [Next]_vars
               PROVE  AllOrNothing' /\ LifeCycle'
    OBVIOUS
  <1> USE CounterAssumption DEF AllOrNothing, LifeCycle, Counters, TypeOK
  <1>1. CASE InitCall
    BY <1>1 DEF InitCall, ClearState
  <1>2. CASE OpenZone
    BY <1>2 DEF OpenZone
  <1>3. CASE InitReturn
    <2>1. Counters \subseteq energy_fd
      BY <1>3 DEF InitReturn
    <2>2. QED BY <1>3, <2>1 DEF InitReturn
  <1>4. CASE InitFails
    BY <1>4 DEF InitFails, AfterCleanup
  <1>5. CASE ReadCall
    BY <1>5 DEF ReadCall
  <1>6. CASE ReadZone
    BY <1>6 DEF ReadZone, Record, LastAfter
  <1>7. CASE ReadZoneEmpty
    BY <1>7 DEF ReadZoneEmpty, Record, LastAfter
  <1>8. CASE ReadFails
    BY <1>8 DEF ReadFails
  <1>9. CASE ReadReturn
    BY <1>9 DEF ReadReturn
  <1>10. CASE Finish
    BY <1>10 DEF Finish
  <1>11. CASE Consume
    BY <1>11 DEF Consume
  <1>12. CASE UNCHANGED vars
    BY <1>12 DEF vars
  <1>13. QED
    BY <1>1, <1>2, <1>3, <1>4, <1>5, <1>6, <1>7, <1>8, <1>9, <1>10, <1>11, <1>12 DEF Next

-----------------------------------------------------------------------------
(* A zone whose file gives its value: the overflow is counted exactly when *)
(* the counter has started over since the last reading.                    *)
LEMMA ReadZoneCounts ==
  ASSUME IInv, ReadZone, NEW z \in Counters, z = i,
         z \notin sampled \/ gap[z] < Range, z \notin unreliable
  PROVE  /\ energy_last'[z] = value[z] /\ gap'[z] = 0 /\ value' = value
         /\ energy_overflow_count'[z] \in Nat
         /\ z \notin sampled => Account(z)' = measured'[z] /\ reading[z] = 0
         /\ z \in sampled =>
              /\ Account(z)' = Account(z) + gap[z]
              /\ measured'[z] = measured[z]
  <1> USE CounterAssumption
  <1> DEFINE r == energy_overflow_count[z]
  <1>1. z = i /\ r \in Nat /\ value[z] \in 0..(Range - 1) /\ gap[z] \in Nat
        /\ energy_last[z] \in 0..(Range - 1)
    BY DEF IInv, TypeOK, CounterTypeOK, ReadZone
  <1>2. energy_last'[z] = value[z] /\ gap'[z] = 0 /\ value' = value
    BY <1>1 DEF IInv, TypeOK, CounterTypeOK, ReadZone, Record, LastAfter, Sample
  <1>3. energy_overflow_count'[z] = r + IF value[z] < energy_last[z] THEN 1 ELSE 0
    BY <1>1 DEF IInv, TypeOK, ReadZone, Record, LastAfter, OverflowsAfter, StartedOver
  <1>4. ZoneInv(z)
    BY <1>1 DEF IInv
  <1>5. CASE z \notin sampled
    <2>1. r = 0 /\ energy_last[z] = 0 /\ reading[z] = 0
      BY <1>4, <1>5 DEF ZoneInv
    <2>2. energy_overflow_count'[z] = 0
      BY <2>1, <1>1, <1>3
    <2>3. measured'[z] = value[z]
      BY <1>5, <1>1 DEF ReadZone, Sample, IInv, TypeOK, CounterTypeOK
    <2>4. Account(z)' = value[z]
      BY <2>2, <1>1, <1>2 DEF Account
    <2>5. QED BY <1>2, <1>5, <2>1, <2>2, <2>3, <2>4
  <1>6. CASE z \in sampled
    <2>1. gap[z] < Range
      BY <1>6
    <2>2. value[z] = energy_last[z] + gap[z] \/ value[z] + Range = energy_last[z] + gap[z]
      BY <1>4, <1>6, <2>1 DEF ZoneInv, Position
    <2>3. measured'[z] = measured[z]
      BY <1>1, <1>6 DEF ReadZone, Sample
    <2>4. r * Range \in Nat /\ (r + 1) * Range = r * Range + Range
      BY <1>1, OneMoreOverflow
    <2>5. CASE value[z] < energy_last[z]
      <3>1. energy_overflow_count'[z] = r + 1 /\ value[z] + Range = energy_last[z] + gap[z]
        BY <1>1, <1>3, <2>2, <2>5
      <3>2. Account(z)' = value[z] + (r + 1) * Range
        BY <1>2, <3>1 DEF Account
      <3>3. Account(z)' = Account(z) + gap[z]
        BY <1>1, <2>4, <3>1, <3>2 DEF Account
      <3>4. QED BY <1>1, <1>2, <1>6, <2>3, <3>1, <3>3
    <2>6. CASE ~(value[z] < energy_last[z])
      <3>1. energy_overflow_count'[z] = r /\ value[z] = energy_last[z] + gap[z]
        BY <1>1, <1>3, <2>1, <2>2, <2>6
      <3>2. Account(z)' = value[z] + r * Range
        BY <1>2, <3>1 DEF Account
      <3>3. Account(z)' = Account(z) + gap[z]
        BY <1>1, <2>4, <3>1, <3>2 DEF Account
      <3>4. QED BY <1>1, <1>2, <1>6, <2>3, <3>1, <3>3
    <2>7. QED BY <2>5, <2>6
  <1>7. QED BY <1>5, <1>6

LEMMA ReadZoneKeepsInv ==
  ASSUME IInv, TypeOK', ReadZone, NEW z \in Counters PROVE ZoneInv(z)'
  <1> USE CounterAssumption
  <1>1. i \in Counters /\ ZoneInv(z) /\ pc' = pc /\ i' = i + 1 /\ sampled' = sampled \cup {i}
        /\ UNCHANGED <<max_energy_range_uj, reading>>
    BY DEF IInv, ReadZone, Record, LastAfter
  <1>2. CASE z # i
    <2>1. /\ energy_last'[z] = energy_last[z]
          /\ energy_overflow_count'[z] = energy_overflow_count[z] /\ val'[z] = val[z]
          /\ value'[z] = value[z] /\ gap'[z] = gap[z] /\ measured'[z] = measured[z]
          /\ z \in sampled' <=> z \in sampled
          /\ z \in unreliable' <=> z \in unreliable
      BY <1>1, <1>2 DEF IInv, TypeOK, CounterTypeOK, ReadZone, Record, LastAfter, Sample
    <2>2. z < i' => z < i
      BY <1>1, <1>2 DEF Counters
    <2>3. QED BY <1>1, <2>1, <2>2 DEF ZoneInv, Position, Reliable, Account
  <1>3. CASE z = i
    <2>1. CASE z \in unreliable \/ (z \in sampled /\ gap[z] >= Range)
      <3>1. z \in unreliable'
        BY <2>1, <1>1, <1>3 DEF ReadZone
      <3>2. QED BY <1>1, <1>3, <3>1 DEF ZoneInv, Position, Reliable
    <2>2. CASE z \notin unreliable /\ ~(z \in sampled /\ gap[z] >= Range)
      <3>1. z \notin unreliable /\ (z \notin sampled \/ gap[z] < Range)
        BY <2>2, <1>1, <1>3 DEF IInv, TypeOK, CounterTypeOK
      <3>2. /\ energy_last'[z] = value[z] /\ gap'[z] = 0 /\ value' = value
            /\ energy_overflow_count'[z] \in Nat
            /\ z \notin sampled => Account(z)' = measured'[z] /\ reading[z] = 0
            /\ z \in sampled => /\ Account(z)' = Account(z) + gap[z]
                                /\ measured'[z] = measured[z]
        BY <3>1, <1>3, ReadZoneCounts
      <3>3. energy_last'[z] \in Nat /\ energy_last[z] \in Nat /\ gap[z] \in Nat
            /\ reading[z] \in Nat /\ energy_overflow_count[z] \in Nat /\ value[z] \in Nat
        BY <1>1, <3>2 DEF IInv, TypeOK, CounterTypeOK
      <3>4. Account(z)' \in Nat /\ Account(z) \in Nat
        <4>1. energy_overflow_count'[z] * Range \in Nat /\ energy_overflow_count[z] * Range \in Nat
          BY <3>2, <3>3
        <4>2. QED BY <3>3, <4>1 DEF Account
      <3>5. Position(z)'
        BY <3>2, <3>3 DEF Position
      <3>6. ASSUME Reliable(z)'
            PROVE  Account(z)' + gap'[z] = measured'[z] /\ reading'[z] <= Account(z)'
        <4>1. CASE z \notin sampled
          BY <1>1, <3>2, <3>3, <3>4, <4>1
        <4>2. CASE z \in sampled
          <5>1. Reliable(z)
            BY <3>1, <3>6, <4>2, <1>1 DEF Reliable
          <5>2. Account(z) + gap[z] = measured[z] /\ reading[z] <= Account(z)
            BY <5>1, <1>1, <1>3 DEF ZoneInv
          <5>3. QED BY <1>1, <3>2, <3>3, <3>4, <4>2, <5>2
        <4>3. QED BY <4>1, <4>2
      <3>7. ASSUME Reliable(z)' PROVE val'[z] = Account(z)'
        <4>1. max_energy_range_uj[z] = Range
          BY <3>7, <1>1 DEF Reliable
        <4>2. val'[z] = value[z] + OverflowsAfter(i, value[z]) * Range
          BY <4>1, <1>1, <1>3 DEF ReadZone, Record, LastAfter, IInv, TypeOK
        <4>3. energy_overflow_count'[z] = OverflowsAfter(i, value[z])
          BY <1>1, <1>3 DEF ReadZone, Record, LastAfter, IInv, TypeOK
        <4>4. QED BY <3>2, <4>2, <4>3 DEF Account
      <3>8. z \in sampled'
        BY <1>1, <1>3
      <3>9. QED BY <1>3, <3>5, <3>6, <3>7, <3>8 DEF ZoneInv
    <2>3. QED BY <2>1, <2>2
  <1>4. QED BY <1>2, <1>3

(* No zone has been read: after calloc and after free.                     *)
LEMMA ClearedZones ==
  ASSUME ClearState, NEW z \in Counters PROVE ZoneInv(z)'
  BY DEF ClearState, ZoneInv, Position, Reliable, Zero

LEMMA ConsumeKeepsInv ==
  ASSUME IInv, Consume, NEW z \in Counters PROVE ZoneInv(z)'
  <1> USE CounterAssumption
  <1>1. PICK c \in Counters : Count(c, c \in sampled \ unreliable)
    BY DEF Consume
  <1>2. ZoneInv(z) /\ UNCHANGED <<pc, i, max_energy_range_uj, energy_last,
                                  energy_overflow_count, val, reading, sampled, unreliable>>
    BY DEF IInv, Consume, zones
  <1>3. /\ value[z] \in 0..(Range - 1) /\ gap[z] \in Nat /\ measured[z] \in Nat
        /\ energy_last[z] \in 0..(Range - 1)
    BY DEF IInv, TypeOK, CounterTypeOK
  <1>4. CASE z # c \/ z \notin sampled \ unreliable
    <2>1. gap'[z] = gap[z] /\ measured'[z] = measured[z]
      BY <1>1, <1>4 DEF Count, IInv, TypeOK, CounterTypeOK
    <2>2. z # c => value'[z] = value[z]
      BY <1>1 DEF Count, IInv, TypeOK, CounterTypeOK
    <2>3. QED BY <1>2, <1>4, <2>1, <2>2 DEF ZoneInv, Position, Reliable, Account
  <1>5. CASE z = c /\ z \in sampled \ unreliable
    <2>1. gap'[z] = gap[z] + 1 /\ measured'[z] = measured[z] + 1
      BY <1>1, <1>5 DEF Count, IInv, TypeOK, CounterTypeOK
    <2>2. value'[z] = IF value[z] = Range - 1 THEN 0 ELSE value[z] + 1
      BY <1>1, <1>5 DEF Count, IInv, TypeOK, CounterTypeOK
    <2>3. Position(z)'
      BY <1>2, <1>3, <1>5, <2>1, <2>2 DEF ZoneInv, Position
    <2>4. energy_overflow_count[z] \in Nat /\ reading[z] \in Nat
      BY DEF IInv, TypeOK
    <2>5. Account(z) \in Nat /\ Account(z)' = Account(z)
      <3>1. energy_overflow_count[z] * Range \in Nat
        BY <2>4
      <3>2. QED BY <1>2, <1>3, <3>1 DEF Account
    <2>6. ASSUME Reliable(z) PROVE Account(z) + (gap[z] + 1) = measured[z] + 1
      <3>1. Account(z) + gap[z] = measured[z]
        BY <1>2, <2>6 DEF ZoneInv
      <3>2. QED BY <1>3, <2>5, <3>1
    <2>7. Reliable(z)' <=> Reliable(z)
      BY <1>2 DEF Reliable
    <2>8. QED BY <1>2, <1>5, <2>1, <2>3, <2>5, <2>6, <2>7 DEF ZoneInv
  <1>6. QED BY <1>4, <1>5

LEMMA ZoneStep ==
  ASSUME IInv, TypeOK', [Next]_vars, NEW z \in Counters PROVE ZoneInv(z)'
  <1> USE CounterAssumption
  <1>1. ZoneInv(z)
    BY DEF IInv
  <1>2. CASE InitCall \/ InitFails \/ Finish
    BY <1>2, ClearedZones DEF InitCall, InitFails, Finish
  <1>3. CASE OpenZone
    BY <1>1, <1>3 DEF OpenZone, counters, IInv, LifeCycle, ZoneInv, Position, Reliable
  <1>4. CASE InitReturn \/ ReadFails \/ UNCHANGED vars
    BY <1>1, <1>4 DEF InitReturn, ReadFails, vars, zones, counters,
                      ZoneInv, Position, Reliable, Account
  <1>5. CASE ReadCall
    <2>1. ~(z < i')
      BY <1>5 DEF ReadCall, Counters
    <2>2. QED BY <1>1, <1>5, <2>1 DEF ReadCall, zones, counters, ZoneInv, Position, Reliable, Account
  <1>6. CASE ReadZone
    BY <1>6, ReadZoneKeepsInv
  <1>7. CASE ReadZoneEmpty
    <2>1. i \in Counters /\ i \in unreliable' /\ sampled' = sampled \cup {i}
          /\ pc' = pc /\ i' = i + 1
          /\ UNCHANGED <<counters, reading, max_energy_range_uj>>
      BY <1>7 DEF ReadZoneEmpty, Record, LastAfter
    <2>2. CASE z = i
      BY <2>1, <2>2 DEF ZoneInv, Position, Reliable
    <2>3. CASE z # i
      <3>1. /\ energy_last'[z] = energy_last[z] /\ val'[z] = val[z]
            /\ energy_overflow_count'[z] = energy_overflow_count[z]
            /\ z \in sampled' <=> z \in sampled
            /\ z \in unreliable' <=> z \in unreliable
        BY <1>7, <2>3 DEF ReadZoneEmpty, Record, LastAfter, IInv, TypeOK
      <3>2. z < i' => z < i
        BY <2>1, <2>3 DEF Counters
      <3>3. QED BY <1>1, <2>1, <3>1, <3>2 DEF ZoneInv, Position, Reliable, Account, counters
    <2>4. QED BY <2>2, <2>3
  <1>8. CASE ReadReturn
    <2>1. z < i /\ pc = "reading" /\ z \in sampled
      BY <1>8 DEF ReadReturn, IInv, TypeOK, LifeCycle, Counters
    <2>2. Reliable(z) => reading'[z] = Account(z)
      BY <1>1, <1>8, <2>1 DEF ReadReturn, ZoneInv
    <2>3. energy_last[z] \in Nat /\ energy_overflow_count[z] \in Nat
      BY DEF IInv, TypeOK
    <2>4. Account(z) \in Nat
      <3>1. energy_overflow_count[z] * Range \in Nat
        BY <2>3
      <3>2. QED BY <2>3, <3>1 DEF Account
    <2>5. QED
      BY <1>1, <1>8, <2>1, <2>2, <2>4
         DEF ReadReturn, zones, counters, ZoneInv, Position, Reliable, Account
  <1>9. CASE Consume
    BY <1>9, ConsumeKeepsInv
  <1>10. QED
    BY <1>2, <1>3, <1>4, <1>5, <1>6, <1>7, <1>8, <1>9 DEF Next

-----------------------------------------------------------------------------
(* IInv is inductive.                                                      *)
THEOREM Invariance == Spec => []IInv
  <1>1. Init => IInv
    <2> SUFFICES ASSUME Init PROVE IInv
      OBVIOUS
    <2>1. TypeOK
      <3>1. CounterTypeOK
        BY DEF Init, CounterInit, CounterTypeOK
      <3>2. Zero \in [Counters -> Nat] /\ Zero \in [Counters -> {0, Range}]
            /\ Zero \in [Counters -> 0..(Range - 1)]
        BY CounterAssumption DEF Zero
      <3>3. i \in 1..(N + 1)
        BY CounterAssumption DEF Init
      <3>4. QED BY <3>1, <3>2, <3>3 DEF Init, TypeOK
    <2>2. AllOrNothing /\ LifeCycle
      BY DEF Init, AllOrNothing, LifeCycle
    <2>3. \A z \in Counters : ZoneInv(z)
      BY DEF Init, ZoneInv, Position, Reliable, Zero
    <2>4. QED BY <2>1, <2>2, <2>3 DEF IInv
  <1>2. IInv /\ [Next]_vars => IInv'
    <2> SUFFICES ASSUME IInv, [Next]_vars PROVE IInv'
      OBVIOUS
    <2>1. TypeOK'
      BY TypeCorrectStep DEF IInv
    <2>2. AllOrNothing' /\ LifeCycle'
      BY LifeCycleStep DEF IInv
    <2>3. \A z \in Counters : ZoneInv(z)'
      BY <2>1, ZoneStep
    <2>4. QED BY <2>1, <2>2, <2>3 DEF IInv
  <1>3. QED BY <1>1, <1>2, PTL DEF Spec

(* Every variable of the RAPL implementation has its type.                 *)
THEOREM TypeCorrect == Spec => []TypeOK
  BY Invariance, PTL DEF IInv

(* energymon_init_rapl opens every package zone or leaves none open.       *)
THEOREM InitIsAllOrNothing == Spec => []AllOrNothing
  BY Invariance, PTL DEF IInv

(* Over any number of overflows and failed calls, a zone that is read      *)
(* often enough is accounted for to the last unit.                         *)
THEOREM OverflowsAreCountedExactly == Spec => []NothingLost
  <1>1. IInv => NothingLost
    BY DEF IInv, ZoneInv, NothingLost, Account
  <1>2. QED BY <1>1, Invariance, PTL

(* energymon_read_total_rapl reports no more than such a zone has used.    *)
THEOREM ReadingIsNeverAhead == Spec => []NeverAhead
  <1>1. IInv => NeverAhead
    <2> SUFFICES ASSUME IInv, NEW z \in Counters, Reliable(z) PROVE reading[z] <= measured[z]
      BY DEF NeverAhead
    <2>1. Account(z) + gap[z] = measured[z] /\ reading[z] <= Account(z)
      BY DEF IInv, ZoneInv
    <2>2. energy_last[z] \in Nat /\ energy_overflow_count[z] \in Nat /\ gap[z] \in Nat
          /\ reading[z] \in Nat
      BY CounterAssumption DEF IInv, TypeOK, CounterTypeOK
    <2>3. Account(z) \in Nat
      <3>1. energy_overflow_count[z] * Range \in Nat
        BY <2>2, CounterAssumption
      <3>2. QED BY <2>2, <3>1 DEF Account
    <2>4. QED BY <2>1, <2>2, <2>3
  <1>2. QED BY <1>1, Invariance, PTL

(* Within a session what it reports of such a zone never decreases.        *)
THEOREM ReadingGrows == Spec => ReadingNeverDecreases
  <1> DEFINE Grows == \A z \in Counters :
                        Reliable(z)' /\ pc = "reading" => reading'[z] >= reading[z]
  <1>1. IInv /\ [Next]_vars => Grows
    <2> SUFFICES ASSUME IInv, [Next]_vars, NEW z \in Counters, Reliable(z)', pc = "reading"
                 PROVE  reading'[z] >= reading[z]
      OBVIOUS
    <2>1. reading[z] \in Nat
      BY DEF IInv, TypeOK
    <2>2. CASE ReadReturn
      <3>1. Reliable(z) /\ reading'[z] = val[z]
        BY <2>2 DEF ReadReturn, Reliable, zones
      <3>2. z < i
        BY <2>2, CounterAssumption DEF ReadReturn, IInv, TypeOK, Counters
      <3>3. reading[z] <= val[z]
        BY <3>1, <3>2 DEF IInv, ZoneInv
      <3>4. val[z] \in Nat
        BY DEF IInv, TypeOK
      <3>5. QED BY <2>1, <3>1, <3>3, <3>4
    <2>3. CASE reading' = reading
      BY <2>1, <2>3
    <2>4. ReadReturn \/ reading' = reading
      BY DEF Next, vars, InitCall, OpenZone, InitReturn, InitFails, ReadCall, ReadZone,
             ReadZoneEmpty, ReadFails, Finish, Consume
    <2>5. QED BY <2>2, <2>3, <2>4
  <1>2. QED BY <1>1, Invariance, PTL DEF Spec, ReadingNeverDecreases
-----------------------------------------------------------------------------
(* Each zone as an energymon of its own: what fread returns is their sum.  *)
(* Its total is what the state accounts for.                               *)
Phase == CASE pc = "opening" -> "busy"
           [] pc # "opening" /\ allocated -> "open"
           [] OTHER -> "closed"

EM(z) == INSTANCE EnergyMonitor WITH phase <- Phase, energy <- Account(z),
                                     reading <- reading[z]

Sound(z) == z \in sampled => Reliable(z)

(* Nothing has been read before finit returns, or after ffinish.           *)
StartsAtZero == pc = "opening" \/ ~allocated => sampled = {}

LEMMA StartsAtZeroStep == IInv /\ StartsAtZero /\ [Next]_vars => StartsAtZero'
  BY DEF IInv, LifeCycle, StartsAtZero, Next, vars, InitCall, OpenZone, InitReturn, InitFails,
         ReadCall, ReadZone, ReadZoneEmpty, ReadFails, ReadReturn, Finish, Consume, ClearState,
         Record

LEMMA PhaseCases ==
  /\ pc = "opening" => Phase = "busy"
  /\ pc # "opening" /\ allocated => Phase = "open"
  /\ pc # "opening" /\ ~allocated => Phase = "closed"
  BY Zenon DEF Phase

LEMMA AccountIsNat == ASSUME TypeOK, NEW z \in Counters PROVE Account(z) \in Nat
  <1>1. energy_last[z] \in Nat /\ energy_overflow_count[z] \in Nat /\ Range \in Nat
    BY CounterAssumption DEF TypeOK
  <1>2. energy_overflow_count[z] * Range \in Nat
    BY <1>1
  <1>3. QED BY <1>1, <1>2 DEF Account

(* A zone that has not been read counts for nothing.                       *)
LEMMA UnreadIsZero ==
  ASSUME IInv, NEW z \in Counters, z \notin sampled
  PROVE  Account(z) = 0 /\ reading[z] = 0
  <1>1. energy_last[z] = 0 /\ energy_overflow_count[z] = 0 /\ reading[z] = 0
    BY DEF IInv, ZoneInv
  <1>2. 0 * Range = 0
    BY CounterAssumption
  <1>3. QED BY <1>1, <1>2 DEF Account

LEMMA ClearedIsZero ==
  ASSUME ClearState, NEW z \in Counters PROVE Account(z)' = 0 /\ reading'[z] = 0
  <1>1. energy_last'[z] = 0 /\ energy_overflow_count'[z] = 0 /\ reading'[z] = 0
    BY DEF ClearState, Zero
  <1>2. 0 * Range = 0
    BY CounterAssumption
  <1>3. QED BY <1>1, <1>2 DEF Account

(* A reading of a zone whose file has its value adds what came since.      *)
LEMMA ReadZoneAccumulates ==
  ASSUME IInv, IInv', ReadZone, NEW z \in Counters, Sound(z), Sound(z)'
  PROVE  Account(z)' >= Account(z)
  <1>1. i \in Counters /\ sampled' = sampled \cup {i}
    BY DEF ReadZone, Record
  <1>2. Account(z) \in Nat /\ gap[z] \in Nat
    BY AccountIsNat DEF IInv, TypeOK, CounterTypeOK
  <1>3. CASE z # i
    <2>1. energy_last'[z] = energy_last[z] /\ energy_overflow_count'[z] = energy_overflow_count[z]
      BY <1>1, <1>3 DEF ReadZone, Record, LastAfter, IInv, TypeOK
    <2>2. Account(z)' = Account(z)
      BY <2>1 DEF Account
    <2>3. QED BY <1>2, <2>2
  <1>4. CASE z = i /\ z \notin sampled
    <2>1. Account(z) = 0
      BY <1>4, UnreadIsZero
    <2>2. Account(z)' \in Nat
      <3>1. energy_last'[z] \in Nat /\ energy_overflow_count'[z] \in Nat /\ Range \in Nat
        BY CounterAssumption DEF IInv, TypeOK
      <3>2. energy_overflow_count'[z] * Range \in Nat
        BY <3>1
      <3>3. QED BY <3>1, <3>2 DEF Account
    <2>3. QED BY <2>1, <2>2
  <1>5. CASE z = i /\ z \in sampled
    <2>1. z \notin unreliable'
      BY <1>1, <1>5 DEF Sound, Reliable
    <2>2. gap[z] < Range /\ z \notin unreliable
      BY <2>1, <1>2, <1>5, CounterAssumption DEF ReadZone, IInv, TypeOK
    <2>3. Account(z)' = Account(z) + gap[z]
      BY <1>5, <2>2, ReadZoneCounts
    <2>4. QED BY <1>2, <2>3
  <1>6. QED BY <1>3, <1>4, <1>5

(* Every step of rapl is a step of the zone's energymon, or none of its.   *)
LEMMA ZoneRefines ==
  ASSUME IInv, IInv', StartsAtZero, StartsAtZero', [Next]_vars,
         NEW z \in Counters, Sound(z), Sound(z)'
  PROVE  [EM(z)!EMNext]_(EM(z)!emVars)
  <1> DEFINE Stays == UNCHANGED <<Phase, Account(z), reading[z]>>
  <1>1. Stays => [EM(z)!EMNext]_(EM(z)!emVars)
    BY DEF EM!emVars
  <1>2. ASSUME UNCHANGED <<energy_last, energy_overflow_count>> PROVE Account(z)' = Account(z)
    BY <1>2 DEF Account
  <1>3. ASSUME UNCHANGED <<pc, allocated>> PROVE Phase' = Phase
    BY <1>3 DEF Phase
  <1>4. CASE InitCall
    <2>1. Phase = "closed" /\ Phase' = "busy"
      <3>1. pc = "idle" /\ ~allocated /\ pc' = "opening"
        BY <1>4 DEF InitCall
      <3>2. QED BY <3>1 DEF Phase
    <2>2. Account(z) = 0 /\ reading[z] = 0
      BY <1>4, UnreadIsZero DEF InitCall, StartsAtZero
    <2>3. Account(z)' = 0 /\ reading'[z] = 0
      BY <1>4, ClearedIsZero DEF InitCall
    <2>4. EM(z)!InitCall
      BY <2>1, <2>2, <2>3 DEF EM!InitCall
    <2>5. QED BY <2>4 DEF EM!EMNext
  <1>5. CASE OpenZone \/ ReadCall \/ ReadFails \/ Consume \/ UNCHANGED vars
    <2>1. UNCHANGED <<energy_last, energy_overflow_count, reading, allocated>>
      BY <1>5 DEF OpenZone, ReadCall, ReadFails, Consume, vars, zones
    <2>2. Phase' = Phase
      BY <1>5, <2>1 DEF OpenZone, ReadCall, ReadFails, Consume, vars, Phase
    <2>3. QED BY <1>1, <1>2, <2>1, <2>2
  <1>6. CASE InitReturn
    <2>1. Phase = "busy" /\ Phase' = "open" /\ sampled = {}
      BY <1>6 DEF InitReturn, Phase, StartsAtZero
    <2>2. Account(z) = 0 /\ reading[z] = 0
      BY <2>1, UnreadIsZero
    <2>3. Account(z)' = Account(z) /\ reading' = reading
      BY <1>2, <1>6 DEF InitReturn, zones
    <2>4. EM(z)!InitReturn
      BY <2>1, <2>2, <2>3 DEF EM!InitReturn
    <2>5. QED BY <2>4 DEF EM!EMNext
  <1>7. CASE InitFails
    <2>1. Phase = "busy" /\ Phase' = "closed"
      BY <1>7 DEF InitFails, Phase, IInv, LifeCycle
    <2>2. Account(z)' = 0 /\ reading'[z] = 0
      BY <1>7, ClearedIsZero DEF InitFails
    <2>3. EM(z)!Release
      BY <2>1, <2>2 DEF EM!Release
    <2>4. QED BY <2>3 DEF EM!EMNext
  <1>8. CASE ReadZone
    <2>1. Account(z)' >= Account(z)
      BY <1>8, ReadZoneAccumulates
    <2>2. Phase = "open" /\ Phase' = Phase /\ reading' = reading
      BY <1>8 DEF ReadZone, Phase, IInv, LifeCycle
    <2>3. Account(z)' \in Nat
      <3>1. energy_last'[z] \in Nat /\ energy_overflow_count'[z] \in Nat /\ Range \in Nat
        BY CounterAssumption DEF IInv, TypeOK
      <3>2. energy_overflow_count'[z] * Range \in Nat
        BY <3>1
      <3>3. QED BY <3>1, <3>2 DEF Account
    <2>4. EM(z)!Accumulate
      BY <2>1, <2>2, <2>3 DEF EM!Accumulate
    <2>5. QED BY <2>4 DEF EM!EMNext
  <1>9. CASE ReadZoneEmpty
    <2>1. /\ i \in Counters /\ unreliable' = unreliable \cup {i} /\ sampled' = sampled \cup {i}
          /\ UNCHANGED <<pc, allocated, reading>>
      BY <1>9 DEF ReadZoneEmpty, Record
    <2>2. z # i
      BY <2>1 DEF Sound, Reliable
    <2>3. energy_last'[z] = energy_last[z] /\ energy_overflow_count'[z] = energy_overflow_count[z]
      BY <1>9, <2>1, <2>2 DEF ReadZoneEmpty, Record, LastAfter, IInv, TypeOK
    <2>4. QED BY <1>1, <1>3, <2>1, <2>3 DEF Account
  <1>10. CASE ReadReturn
    <2>1. z < i /\ z \in sampled
      BY <1>10, CounterAssumption DEF ReadReturn, IInv, TypeOK, LifeCycle, Counters
    <2>2. val[z] = Account(z)
      BY <1>10, <2>1 DEF ReadReturn, IInv, ZoneInv, Sound
    <2>3. Account(z)' = Account(z) /\ reading'[z] = Account(z)
      BY <1>2, <1>10, <2>2 DEF ReadReturn, zones
    <2>4. Phase = "open" /\ Phase' = Phase
      BY <1>10 DEF ReadReturn, Phase, IInv, LifeCycle
    <2>5. EM(z)!FRead
      BY <2>3, <2>4 DEF EM!FRead
    <2>6. QED BY <2>5 DEF EM!EMNext
  <1>11. CASE Finish
    <2>1. Phase = "open" /\ Phase' = "closed"
      BY <1>11 DEF Finish, Phase
    <2>2. Account(z)' = 0 /\ reading'[z] = 0
      BY <1>11, ClearedIsZero DEF Finish
    <2>3. EM(z)!Close
      BY <2>1, <2>2 DEF EM!Close
    <2>4. QED BY <2>3 DEF EM!EMNext
  <1>12. QED
    BY <1>4, <1>5, <1>6, <1>7, <1>8, <1>9, <1>10, <1>11 DEF Next

(* A zone that is read once per round of its counter, whose maximum is     *)
(* known and whose file is never empty keeps the contract of               *)
(* inc/energymon.h: its total starts at zero, is never taken back over any *)
(* number of overflows and failed calls, and is what a good call returns.  *)
THEOREM ZonesImplementEnergyMonitor ==
  \A z \in Counters : Spec /\ []Sound(z) => EM(z)!EMSpec
  <1> SUFFICES ASSUME NEW z \in Counters PROVE Spec /\ []Sound(z) => EM(z)!EMSpec
    OBVIOUS
  <1>1. Init => StartsAtZero /\ EM(z)!EMInit
    <2> SUFFICES ASSUME Init PROVE StartsAtZero /\ EM(z)!EMInit
      OBVIOUS
    <2>1. Account(z) = 0
      <3>1. energy_last[z] = 0 /\ energy_overflow_count[z] = 0 /\ 0 * Range = 0
        BY CounterAssumption DEF Init, Zero
      <3>2. QED BY <3>1 DEF Account
    <2>2. Phase = "closed" /\ reading[z] = 0 /\ StartsAtZero
      BY DEF Init, Phase, StartsAtZero, Zero
    <2>3. QED BY <2>1, <2>2 DEF EM!EMInit
  <1>2. /\ IInv /\ IInv' /\ StartsAtZero /\ StartsAtZero' /\ [Next]_vars /\ Sound(z) /\ Sound(z)'
        => [EM(z)!EMNext]_(EM(z)!emVars)
    BY ZoneRefines
  <1>3. QED
    BY <1>1, <1>2, StartsAtZeroStep, Invariance, PTL DEF Spec, EM!EMSpec
=============================================================================
