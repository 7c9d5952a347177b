------------------------- MODULE CounterRingProofs --------------------------
(***************************************************************************)
(* The EEPROM ring implements one atomic counter, for every number of      *)
(* cells from two on.                                                      *)
(***************************************************************************)
EXTENDS CounterRing, TLAPS

\* The cell being written is not the one in force, so a torn write is harmless;
\* when it becomes valid it holds the highest counter of all.
WriteInv ==
  /\ Valid # {} => \E m \in Index : IsMaxCell(m)
  /\ pc \in { "bytes", "crc" } =>
       /\ cell \in Index
       /\ ctr \in Counter /\ ctr > Load
       /\ Valid # {} => cell # MaxCell
  /\ pc = "run" => ctr = Load /\ ctr \in Counter

RanInv ==
  \A c \in ran : c <= Load /\ (pc # "idle" => c < ctr)

RingInv == TypeOK /\ WriteInv /\ RanInv

USE RingAssumption

\* The scan finds the cell it is told of: two cells cannot both be first.
LEMMA MaxCellIs ==
  ASSUME TypeOK, NEW m \in Index, IsMaxCell(m)
  PROVE  MaxCell = m /\ Load = ring[m] /\ Valid # {}
<1>1. ASSUME NEW n \in Index, IsMaxCell(n) PROVE n = m
  BY <1>1 DEF IsMaxCell, Valid, Index, Counter
<1>2. IsMaxCell(MaxCell) /\ MaxCell \in Index
  BY DEF MaxCell
<1>3. MaxCell = m
  BY <1>1, <1>2
<1> QED BY <1>3 DEF Load, IsMaxCell

\* The same of the next state.
LEMMA MaxCellIsNext ==
  ASSUME TypeOK', NEW m \in Index, IsMaxCell(m)'
  PROVE  MaxCell' = m /\ Load' = ring'[m] /\ Valid' # {}
<1>1. ASSUME NEW n \in Index, IsMaxCell(n)' PROVE n = m
  BY <1>1 DEF IsMaxCell, Valid, Index, Counter
<1>2. MaxCell' = CHOOSE i \in Index : IsMaxCell(i)'
  BY DEF MaxCell, Index
<1>3. MaxCell' = m
  BY <1>1, <1>2
<1> QED BY <1>3 DEF Load, IsMaxCell

LEMMA LoadBounds ==
  ASSUME TypeOK, Valid # {} => \E m \in Index : IsMaxCell(m)
  PROVE  /\ Load \in Nat
         /\ \A i \in Valid : ring[i] <= Load
         /\ Valid # {} => MaxCell \in Index /\ IsMaxCell(MaxCell)
                          /\ Load = ring[MaxCell] /\ Load \in Counter
<1>1. CASE Valid = {}
  BY <1>1 DEF Load
<1>2. CASE Valid # {}
  <2>1. PICK m \in Index : IsMaxCell(m)
    BY <1>2
  <2>2. MaxCell = m /\ Load = ring[m]
    BY <2>1, MaxCellIs
  <2>3. ring[m] \in Counter /\ \A j \in Valid : ring[j] <= ring[m]
    BY <2>1 DEF IsMaxCell, Valid, Counter
  <2> QED BY <1>2, <2>1, <2>2, <2>3 DEF Counter
<1> QED BY <1>1, <1>2

\* Writing bytes into a cell that is not in force leaves the counter alone.
LEMMA TornIsHarmless ==
  ASSUME TypeOK, TypeOK', Valid # {} => \E m \in Index : IsMaxCell(m),
         NEW t \in Index, Valid # {} => t # MaxCell,
         ring' = [ring EXCEPT ![t] = Torn]
  PROVE  /\ Load' = Load
         /\ Valid' # {} => \E m \in Index : IsMaxCell(m)'
         /\ Valid' # {} => t # MaxCell'
<1>1. CASE Valid = {}
  <2>1. Valid' = {}
    BY <1>1 DEF Valid, TypeOK, Counter, Index
  <2> QED BY <1>1, <2>1 DEF Load
<1>2. CASE Valid # {}
  <2>1. PICK m \in Index : IsMaxCell(m)
    BY <1>2
  <2>2. MaxCell = m /\ Load = ring[m] /\ t # m
    BY <1>2, <2>1, MaxCellIs
  <2>3. Valid' = Valid \ { t } /\ ring'[m] = ring[m]
        /\ \A j \in Index : j # t => ring'[j] = ring[j]
    BY <2>2 DEF Valid, TypeOK, Counter, Index
  <2>4. IsMaxCell(m)'
    BY <2>1, <2>2, <2>3 DEF IsMaxCell, Valid
  <2>5. MaxCell' = m /\ Load' = ring'[m]
    BY <2>4, MaxCellIsNext
  <2> QED BY <2>1, <2>2, <2>3, <2>4, <2>5
<1> QED BY <1>1, <1>2

\* A finished write puts its counter in force.
LEMMA WrittenIsMax ==
  ASSUME TypeOK, TypeOK', Valid # {} => \E m \in Index : IsMaxCell(m),
         NEW t \in Index, NEW c \in Counter, c > Load,
         ring' = [ring EXCEPT ![t] = c]
  PROVE  Load' = c /\ \E m \in Index : IsMaxCell(m)'
<1>1. \A j \in Valid : ring[j] < c
  BY LoadBounds DEF Valid, Counter
<1>2. IsMaxCell(t)'
  <2>1. ring'[t] = c /\ \A j \in Index : j # t => ring'[j] = ring[j]
    BY DEF TypeOK
  <2>2. t \in Valid' /\ \A j \in Valid' : j = t \/ j \in Valid
    BY <2>1 DEF Valid
  <2>3. \A j \in Valid' : j = t \/ ring'[j] < ring'[t]
    BY <1>1, <2>1, <2>2 DEF Valid
  <2> QED BY <2>1, <2>2, <2>3 DEF IsMaxCell, Index
<1>3. Load' = ring'[t]
  BY <1>2, MaxCellIsNext
<1> QED BY <1>2, <1>3 DEF TypeOK

LEMMA RingInit == ASSUME Init PROVE RingInv
<1>1. TypeOK BY DEF Init, TypeOK
<1>2. Valid = {} BY DEF Init, Valid, Counter
<1> QED BY <1>1, <1>2 DEF Init, RingInv, WriteInv, RanInv

LEMMA RingTypes ==
  ASSUME RingInv, [Next]_vars
  PROVE  TypeOK'
<1> USE DEF RingInv, TypeOK
<1>0. Valid # {} => MaxCell \in Index
  BY LoadBounds DEF WriteInv
<1>1. NextCell \in Index
  BY <1>0 DEF NextCell, Index
<1>2. ASSUME NEW c \in 0 .. (Ceiling + 1), Receive(c) PROVE TypeOK'
  BY <1>1, <1>2 DEF Receive, Fresh, Counter
<1>3. CASE WriteBytes BY <1>3 DEF WriteBytes
<1>4. CASE WriteCrc BY <1>4 DEF WriteCrc, WriteInv
<1>5. CASE Run BY <1>5 DEF Run, WriteInv
<1>6. CASE Drop BY <1>6 DEF Drop
<1>7. CASE Reset BY <1>7 DEF Reset
<1>8. CASE UNCHANGED vars BY <1>8 DEF vars
<1> QED BY <1>2, <1>3, <1>4, <1>5, <1>6, <1>7, <1>8 DEF Next

\* What a step does to the counter in force.
LEMMA RingKept ==
  ASSUME UNCHANGED ring
  PROVE  /\ Valid' = Valid /\ Load' = Load /\ MaxCell' = MaxCell
         /\ \A m \in Index : IsMaxCell(m)' <=> IsMaxCell(m)
BY DEF Valid, Load, MaxCell, IsMaxCell

LEMMA RingNext ==
  ASSUME RingInv, [Next]_vars
  PROVE  RingInv'
<1>1. TypeOK' BY RingTypes
<1>2. WriteInv' /\ RanInv'
  <2> USE DEF RingInv
  <2>0. Load \in Nat
    BY LoadBounds DEF WriteInv
  <2>1. ASSUME NEW c \in 0 .. (Ceiling + 1), Receive(c)
        PROVE  WriteInv' /\ RanInv'
    <3>1. /\ c \in Counter /\ c > Load /\ ctr' = c /\ cell' = NextCell
          /\ pc' = "bytes" /\ UNCHANGED << ring, ran >>
      BY <2>1, <2>0 DEF Receive, Fresh, Counter
    <3>2. NextCell \in Index /\ (Valid # {} => NextCell # MaxCell)
      <4>1. Valid # {} => MaxCell \in Index
        BY LoadBounds DEF WriteInv
      <4> QED BY <4>1 DEF NextCell, Index
    <3>3. WriteInv'
      BY <3>1, <3>2, RingKept DEF WriteInv
    <3>4. \A d \in ran : d <= Load /\ d \in Counter
      BY DEF RanInv, TypeOK
    <3> QED BY <2>0, <3>1, <3>3, <3>4, RingKept DEF RanInv, Counter
  <2>2. CASE WriteBytes
    <3>1. /\ cell \in Index /\ (Valid # {} => cell # MaxCell) /\ pc' = "crc"
          /\ ring' = [ring EXCEPT ![cell] = Torn]
          /\ UNCHANGED << ctr, cell, ran >> /\ ctr \in Counter /\ ctr > Load
          /\ pc # "idle"
      BY <2>2 DEF WriteBytes, WriteInv
    <3>2. /\ Load' = Load
          /\ Valid' # {} => \E m \in Index : IsMaxCell(m)'
          /\ Valid' # {} => cell # MaxCell'
      BY <1>1, <3>1, TornIsHarmless DEF WriteInv
    <3> QED BY <3>1, <3>2 DEF WriteInv, RanInv
  <2>3. CASE WriteCrc
    <3>1. /\ cell \in Index /\ pc' = "run" /\ pc # "idle"
          /\ ring' = [ring EXCEPT ![cell] = ctr]
          /\ UNCHANGED << ctr, cell, ran >> /\ ctr \in Counter /\ ctr > Load
      BY <2>3 DEF WriteCrc, WriteInv
    <3>2. Load' = ctr /\ \E m \in Index : IsMaxCell(m)'
      BY <1>1, <3>1, WrittenIsMax DEF WriteInv
    <3>3. \A d \in ran : d < ctr /\ d \in Counter
      BY <3>1 DEF RanInv, TypeOK
    <3> QED BY <3>1, <3>2, <3>3 DEF WriteInv, RanInv, Counter
  <2>4. CASE Run
    <3>1. /\ ran' = ran \cup { ctr } /\ pc' = "idle" /\ UNCHANGED ring
          /\ ctr = Load
      BY <2>4 DEF Run, WriteInv
    <3> QED BY <2>0, <3>1, RingKept DEF WriteInv, RanInv
  <2>5. CASE Drop \/ Reset
    <3>1. pc' = "idle" /\ UNCHANGED << ring, ran >>
      BY <2>5 DEF Drop, Reset
    <3> QED BY <3>1, RingKept DEF WriteInv, RanInv
  <2>6. CASE UNCHANGED vars
    <3>1. UNCHANGED << ring, pc, ctr, cell, ran >>
      BY <2>6 DEF vars
    <3> QED BY <3>1, RingKept DEF WriteInv, RanInv
  <2> QED BY <2>1, <2>2, <2>3, <2>4, <2>5, <2>6 DEF Next
<1> QED BY <1>1, <1>2 DEF RingInv

\* The ring's bookkeeping holds in every reachable state.
THEOREM RingInvariance == Spec => []RingInv
<1>1. Init => RingInv BY RingInit
<1>2. RingInv /\ [Next]_vars => RingInv' BY RingNext
<1> QED BY <1>1, <1>2, PTL DEF Spec

\* ee_save_counter stores no counter of the reserved band.
THEOREM RingTypeCorrect == Spec => []TypeOK
<1>1. RingInv => TypeOK BY DEF RingInv
<1> QED BY <1>1, RingInvariance, PTL

\* process_line never carries out two commands under one counter, or a command
\* under a lower counter than an earlier one, wherever the Nano is reset.
THEOREM CountersRunOnce == Spec => RunOnce
<1>1. RingInv /\ [Next]_vars => [Run => \A c \in ran : c < ctr]_vars
  BY DEF RingInv, RanInv, Run
<1> QED BY <1>1, RingInvariance, PTL DEF Spec, RunOnce

\* eeprom.h's ring of two or more cells implements ReplayGuard's counter.
THEOREM RingIsAtomic == Spec => ImplementsGuard
<1>1. Init => Guard!Init
  BY DEF Init, Guard!Init, Load, Valid, Counter
<1>2. RingInv /\ RingInv' /\ [Next]_vars => [Guard!Next]_(Guard!vars)
  <2> SUFFICES ASSUME RingInv, RingInv', [Next]_vars
               PROVE  Guard!Next \/ UNCHANGED Guard!vars
    OBVIOUS
  <2> USE DEF Guard!vars
  <2>1. ASSUME NEW c \in 0 .. (Ceiling + 1), Receive(c)
        PROVE  UNCHANGED Guard!vars
    BY <2>1, RingKept DEF Receive
  <2>2. CASE WriteBytes
    <3>1. Load' = Load
      BY <2>2, TornIsHarmless DEF WriteBytes, RingInv, WriteInv
    <3> QED BY <2>2, <3>1 DEF WriteBytes
  <2>3. CASE WriteCrc
    <3>1. ctr \in Counter /\ ctr > Load /\ Load' = ctr
      BY <2>3, WrittenIsMax DEF WriteCrc, RingInv, WriteInv
    <3>2. Load \in Nat
      BY LoadBounds DEF RingInv, WriteInv
    <3>3. Guard!Accept
      BY <2>3, <3>1, <3>2 DEF WriteCrc, Guard!Accept, Counter
    <3> QED BY <3>3 DEF Guard!Next
  <2>4. CASE Run \/ Drop \/ Reset
    <3>1. Guard!Stop
      BY <2>4, RingKept DEF Run, Drop, Reset, Guard!Stop
    <3> QED BY <3>1 DEF Guard!Next
  <2>5. CASE UNCHANGED vars
    BY <2>5, RingKept DEF vars
  <2> QED BY <2>1, <2>2, <2>3, <2>4, <2>5 DEF Next
<1> QED BY <1>1, <1>2, RingInvariance, PTL DEF Spec, Guard!Spec, ImplementsGuard

=============================================================================
