--------------------------- MODULE EnergyMonitor ---------------------------
(***************************************************************************)
(* What inc/energymon.h promises to the user of one energymon, whatever    *)
(* the implementation behind its function pointers: a life cycle (finit,   *)
(* fread, ffinish) and a total that a session only ever sees growing.      *)
(***************************************************************************)
EXTENDS Naturals

VARIABLES
  phase,    \* "closed", "busy" (inside finit or ffinish), "open" or "dead"
  energy,   \* the implementation's running total, in microjoules
  reading   \* what the last successful fread of this session returned

emVars == <<phase, energy, reading>>

EMInit == phase = "closed" /\ energy = 0 /\ reading = 0

(* finit and ffinish are called and, later, return.                        *)
InitCall == phase = "closed" /\ phase' = "busy" /\ UNCHANGED <<energy, reading>>
InitReturn == /\ phase = "busy" /\ phase' = "open"
              /\ energy' = 0 /\ reading' = 0
FinishCall == phase = "open" /\ phase' = "busy" /\ UNCHANGED <<energy, reading>>

(* The end of ffinish, and of a finit that fails: nothing is kept.         *)
Release == phase = "busy" /\ phase' = "closed" /\ energy' = 0 /\ reading' = 0

(* ffinish of an implementation that has no thread to wait for.            *)
Close == phase = "open" /\ phase' = "closed" /\ energy' = 0 /\ reading' = 0

(* fread returns the total of the moment; it changes nothing else.         *)
FRead == phase = "open" /\ reading' = energy /\ UNCHANGED <<phase, energy>>

(* The implementation accumulates; it never takes energy back.             *)
Accumulate == /\ phase \in {"open", "busy"}
              /\ energy' \in Nat /\ energy' >= energy
              /\ UNCHANGED <<phase, reading>>

(* The process running the implementation is gone.                         *)
Die == phase # "dead" /\ phase' = "dead" /\ UNCHANGED <<energy, reading>>

EMNext == InitCall \/ InitReturn \/ FinishCall \/ Release \/ Close \/ FRead
            \/ Accumulate \/ Die

EMSpec == EMInit /\ [][EMNext]_emVars
=============================================================================
