--------------------------- MODULE WrappingCounter ---------------------------
(***************************************************************************)
(* The energy counters of a processor, as the RAPL implementations see     *)
(* them: each counts up and starts again from zero at Range, and only its  *)
(* present value can be read.  The counters are hardware; besides them the *)
(* module keeps, for the properties, what they have really measured.       *)
(***************************************************************************)
EXTENDS Naturals

CONSTANTS
  N,          \* number of counters
  Range,      \* the values of a counter are 0 .. Range - 1
  MaxGap      \* bound on the energy followed between two readings

ASSUME CounterAssumption ==
  N \in Nat \ {0} /\ Range \in Nat \ {0, 1} /\ MaxGap \in Nat

VARIABLES
  value,      \* what a counter shows
  gap,        \* history: what it has measured since it was last read
  measured    \* history: the value first read, and all it measured since

counters == <<value, gap, measured>>

Counters == 1..N

CounterInit ==
  /\ value \in [Counters -> 0..(Range - 1)]
  /\ gap = [c \in Counters |-> 0] /\ measured = [c \in Counters |-> 0]

CounterTypeOK ==
  /\ value \in [Counters -> 0..(Range - 1)]
  /\ gap \in [Counters -> Nat] /\ measured \in [Counters -> Nat]

(* One unit of energy is used; the history follows the counters that have  *)
(* been read.                                                              *)
Count(c, followed) ==
  /\ value' = [value EXCEPT ![c] = IF @ = Range - 1 THEN 0 ELSE @ + 1]
  /\ IF followed
     THEN /\ gap[c] < MaxGap
          /\ gap' = [gap EXCEPT ![c] = @ + 1]
          /\ measured' = [measured EXCEPT ![c] = @ + 1]
     ELSE UNCHANGED <<gap, measured>>

(* Counter c is read, for the first time in a session or once more.        *)
Sample(c, first) ==
  /\ gap' = [gap EXCEPT ![c] = 0]
  /\ measured' = IF first THEN [measured EXCEPT ![c] = value[c]] ELSE measured
  /\ UNCHANGED value

(* What a call adds up over the counters, one after the other: the sums of *)
(* the first n of some numbers, one for each counter, and of all.          *)
SumTo(g) == LET sum[n \in 0..N] == IF n = 0 THEN 0 ELSE sum[n - 1] + g[n] IN sum
Total(g) == SumTo(g)[N]

(* The counters go on, their history ends with the session.                *)
EndHistory ==
  /\ gap' = [c \in Counters |-> 0] /\ measured' = [c \in Counters |-> 0]
  /\ UNCHANGED value
=============================================================================
