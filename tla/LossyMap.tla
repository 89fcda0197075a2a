------------------------------ MODULE LossyMap ------------------------------
(***************************************************************************)
(* What a cache promises its callers: a map that may forget any key at any *)
(* time, but answers a read with the value last written to that key or     *)
(* with nothing, and never with a value whose time is over.                *)
(***************************************************************************)
EXTENDS Integers

CONSTANTS Key, Absent

VARIABLES
  clock,    \* current time
  written,  \* for each key the [data, exp] last written, Absent once removed
  answer    \* the result of the last read, Absent for nothing

mapVars == <<clock, written, answer>>

Over(e) == e.exp # 0 /\ clock > e.exp

Init ==
  /\ clock \in Nat
  /\ written = [k \in Key |-> Absent]
  /\ answer = Absent

Write(k) ==
  /\ \A j \in Key \ {k} : written'[j] = written[j]
  /\ UNCHANGED <<clock, answer>>

Remove(ks) ==
  /\ written' = [k \in Key |-> IF k \in ks THEN Absent ELSE written[k]]
  /\ UNCHANGED <<clock, answer>>

Read(k) ==
  /\ \/ answer' = Absent
     \/ /\ written[k] # Absent
        /\ ~Over(written[k])
        /\ answer' = written[k].data
  /\ UNCHANGED <<clock, written>>

Tick ==
  /\ clock' > clock
  /\ UNCHANGED <<written, answer>>

Next ==
  \/ \E k \in Key : Write(k) \/ Read(k)
  \/ \E ks \in SUBSET Key : Remove(ks)
  \/ Tick

Spec == Init /\ [][Next]_mapVars
=============================================================================
