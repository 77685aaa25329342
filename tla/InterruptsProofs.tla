-------------------------- MODULE InterruptsProofs --------------------------
(* Proofs about module Interrupts, for any table length, periods, waits    *)
(* and width of the tick counter.                                          *)
EXTENDS Interrupts, TLAPS

(* At most the line whose handler runs is in service, and the flag is      *)
(* clear exactly as long as it runs.                                       *)
InService ==
  /\ handling = None <=> stage = "none"
  /\ handling = None => master = {} /\ slave = {}
  /\ handling # None =>
       /\ master = {Line(handling)} /\ ~enabled
       /\ slave = IF handling < 8 THEN {} ELSE {handling}
  /\ stage = "routines" => handling = 0

(* Interrupts are enabled, and handlers run, only after both drivers have  *)
(* installed their handlers.                                               *)
BootOrder ==
  /\ enabled \/ handling # None => pc \in {"run", "size_run", "wait"}
  /\ pc # "install_pit" => 0 \in irq_routines
  /\ pc \notin {"install_pit", "install_kbd"} => 1 \in irq_routines

(* Every slot below the size has been filled, and the one about to be      *)
(* counted as well.                                                        *)
SlotsFilled ==
  /\ \A j \in 0 .. size - 1 : routines[j] = 0 => j \in uninstalled
  /\ pc \in {"size_task", "size_run"} => size < MaxRoutines /\ routines[size] # 0

(* The loop of the handler: the routines called so far are the ones due    *)
(* among those looked at, none of which had been uninstalled.              *)
LoopSoFar ==
  /\ stage = "routines" =>
       /\ n <= size /\ \A j \in 0 .. n - 1 : routines[j] # 0
       /\ ran = {j \in 0 .. n - 1 : ticks % routines[j] = 0}
  /\ halted => stage = "routines" /\ n < size /\ routines[n] = 0

(* A wait whose sum fits waits for exactly the ticks that remain. *)
WaitExact ==
  pc = "wait" /\ ~overflowed /\ remaining # 0 => desired_ticks = ticks + remaining

(* The inductive invariant. *)
IInv ==
  TypeOK /\ InService /\ BootOrder /\ SlotsFilled /\ LoopSoFar /\ WaitExact
         /\ DriversHandleTheirLines

-----------------------------------------------------------------------------
(* The constants as numbers. *)
LEMMA Numbers ==
  /\ Wrap \in Nat /\ Wrap > 0 /\ MaxRoutines \in Nat
  /\ 0 \notin Periods /\ Periods \subseteq Nat
  /\ Waits \subseteq Nat /\ Rates \subseteq Nat
  BY TicksAssumption, PeriodsAssumption

(* The highest priority of a single line in service is that line. *)
LEMMA MinSingle == \A x \in Nat : Min({x}) = x
  BY DEF Min

(* The counter stays below its range. *)
LEMMA WrapRange == \A t \in Nat : t % Wrap \in 0 .. Wrap - 1 /\ (t < Wrap => t % Wrap = t)
  BY Numbers

(* Before boot nothing is installed, enabled or in service. *)
LEMMA InitIInv == Init => IInv
<1> SUFFICES ASSUME Init PROVE IInv
  OBVIOUS
<1>1. TypeOK
  <2>1. routines \in [Slots -> Periods \cup {0}]
    BY DEF Init
  <2>2. ticks \in 0 .. Wrap - 1 /\ size \in 0 .. MaxRoutines
    BY Numbers DEF Init
  <2> QED
    BY <2>1, <2>2 DEF Init, TypeOK
<1>2. InService /\ BootOrder /\ WaitExact
  BY DEF Init, InService, BootOrder, WaitExact
<1>3. SlotsFilled /\ LoopSoFar
  BY DEF Init, SlotsFilled, LoopSoFar
<1>4. DriversHandleTheirLines
  BY DEF Init, DriversHandleTheirLines
<1> QED
  BY <1>1, <1>2, <1>3, <1>4 DEF IInv

(* A line is raised at its controller. *)
LEMMA RaiseIInv ==
  ASSUME IInv, NEW k \in Lines, Raise(k)
  PROVE  IInv'
<1> USE DEF IInv, Raise, timer, table, wait
<1>1. TypeOK'
  BY DEF TypeOK
<1>2. InService' /\ BootOrder' /\ WaitExact'
  BY DEF InService, BootOrder, WaitExact
<1>3. SlotsFilled' /\ LoopSoFar'
  BY DEF SlotsFilled, LoopSoFar
<1>4. DriversHandleTheirLines'
  BY DEF DriversHandleTheirLines
<1> QED
  BY <1>1, <1>2, <1>3, <1>4

(* A line is delivered: outside handlers nothing else is in service. *)
LEMMA DeliverIInv ==
  ASSUME IInv, NEW k \in Lines, Deliver(k)
  PROVE  IInv'
<1> USE DEF IInv, timer, table, wait
<1>0. k \in Nat /\ k # None /\ Line(k) \in 0 .. 7 /\ (k >= 8 => k \in 8 .. 15)
  BY DEF Lines, None, Line
<1>1. TypeOK'
  <2>1. master' \subseteq 0 .. 7
    BY <1>0 DEF TypeOK, Deliver
  <2>2. slave' \subseteq 8 .. 15
    BY <1>0 DEF TypeOK, Deliver
  <2> QED
    BY <2>1, <2>2 DEF TypeOK, Deliver
<1>2. InService'
  BY <1>0 DEF InService, Deliver, Main
<1>3. BootOrder' /\ WaitExact'
  BY DEF BootOrder, WaitExact, Deliver
<1>4. SlotsFilled' /\ LoopSoFar'
  BY DEF SlotsFilled, LoopSoFar, Deliver, Main
<1>5. DriversHandleTheirLines'
  BY DEF DriversHandleTheirLines, Deliver
<1> QED
  BY <1>1, <1>2, <1>3, <1>4, <1>5

(* The timer's handler up to its loop: a wait under way comes one tick     *)
(* closer, and the counter cannot wrap before it is over.                  *)
LEMMA TimerEntryIInv ==
  ASSUME IInv, TimerEntry
  PROVE  IInv'
<1> USE DEF IInv, table
<1>0. /\ ticks' = (ticks + 1) % Wrap /\ ticks \in 0 .. Wrap - 1 /\ ticks' \in 0 .. Wrap - 1
      /\ ticks + 1 < Wrap => ticks' = ticks + 1
  BY Numbers, WrapRange DEF TimerEntry, TypeOK
<1>1. TypeOK'
  <2>1. remaining' \in Nat
    BY Numbers DEF TypeOK, TimerEntry
  <2> QED
    BY <1>0, <2>1, Numbers DEF TypeOK, TimerEntry
<1>2. InService' /\ BootOrder'
  BY DEF InService, BootOrder, TimerEntry, None
<1>3. WaitExact'
  BY <1>0, Numbers DEF WaitExact, TimerEntry, TypeOK
<1>4. SlotsFilled'
  BY DEF SlotsFilled, TimerEntry
<1>5. LoopSoFar'
  BY Numbers DEF LoopSoFar, TimerEntry, TypeOK
<1>6. DriversHandleTheirLines'
  BY DEF DriversHandleTheirLines, TimerEntry
<1> QED
  BY <1>1, <1>2, <1>3, <1>4, <1>5, <1>6

(* One turn of the handler's loop. *)
LEMMA TimerRoutineIInv ==
  ASSUME IInv, TimerRoutine
  PROVE  IInv'
<1> USE DEF IInv, cpu, table, wait
<1>0. n \in Nat /\ size \in Nat /\ n < size /\ n \in Slots
  BY Numbers DEF TypeOK, TimerRoutine, Slots
<1>1. TypeOK'
  <2>1. halted' \in BOOLEAN
    BY DEF TimerRoutine
  <2>2. n' \in 0 .. MaxRoutines /\ ran' \subseteq Slots
    BY <1>0, Numbers DEF TypeOK, TimerRoutine
  <2> QED
    BY <2>1, <2>2 DEF TypeOK, TimerRoutine
<1>2. InService' /\ BootOrder' /\ WaitExact'
  BY DEF InService, BootOrder, WaitExact, TimerRoutine
<1>3. SlotsFilled'
  BY DEF SlotsFilled, TimerRoutine
<1>4. LoopSoFar'
  <2>1. CASE routines[n] = 0
    BY <1>0, <2>1 DEF LoopSoFar, TimerRoutine
  <2>2. CASE routines[n] # 0
    <3>1. n' = n + 1 /\ halted' = FALSE
      BY <2>2 DEF TimerRoutine
    <3>2. \A j \in 0 .. n' - 1 : routines[j] # 0
      BY <1>0, <2>2, <3>1 DEF LoopSoFar, TimerRoutine
    <3>3. ran' = {j \in 0 .. n' - 1 : ticks % routines[j] = 0}
      BY <1>0, <2>2, <3>1 DEF LoopSoFar, TimerRoutine
    <3> QED
      BY <1>0, <3>1, <3>2, <3>3 DEF LoopSoFar, TimerRoutine
  <2> QED
    BY <2>1, <2>2
<1>5. DriversHandleTheirLines'
  BY DEF DriversHandleTheirLines, TimerRoutine
<1> QED
  BY <1>1, <1>2, <1>3, <1>4, <1>5

(* Another handler, or none.  Lines 0 and 1 have one by now. *)
LEMMA OtherEntryIInv ==
  ASSUME IInv, OtherEntry
  PROVE  IInv'
<1> USE DEF IInv, timer, table, wait
<1>1. TypeOK'
  BY DEF TypeOK, OtherEntry
<1>2. InService' /\ BootOrder' /\ WaitExact'
  BY DEF InService, BootOrder, WaitExact, OtherEntry, None
<1>3. SlotsFilled' /\ LoopSoFar'
  BY DEF SlotsFilled, LoopSoFar, OtherEntry
<1>4. DriversHandleTheirLines'
  <2>1. 0 \in irq_routines /\ 1 \in irq_routines
    BY DEF BootOrder, OtherEntry
  <2> QED
    BY <2>1 DEF DriversHandleTheirLines, OtherEntry
<1> QED
  BY <1>1, <1>2, <1>3, <1>4

(* The end of interrupt reaches every controller that has a line in        *)
(* service.                                                                *)
LEMMA EoiIInv ==
  ASSUME IInv, Eoi
  PROVE  IInv'
<1> USE DEF IInv, timer, table, wait
<1>0. handling # None /\ handling \in Lines /\ ~halted
  BY DEF Eoi, InService, TypeOK
<1>1. master' = {} /\ slave' = {}
  <2>1. Line(handling) \in Nat /\ handling \in Nat
    BY <1>0 DEF Lines, Line
  <2>2. master' = {}
    BY <1>0, <2>1, MinSingle DEF Eoi, InService
  <2>3. ASSUME handling < 8 PROVE slave' = {}
    <3>1. ~(int_no(handling) >= 40)
      BY <1>0, <2>1, <2>3 DEF int_no
    <3> QED
      BY <1>0, <2>3, <3>1 DEF Eoi, InService
  <2>4. ASSUME ~(handling < 8) PROVE slave' = {}
    <3>1. handling = 8
      BY <1>0, <2>4 DEF Lines
    <3>2. int_no(handling) >= 40 /\ slave = {handling} /\ Min({handling}) = handling
      BY <1>0, <2>1, <2>4, <3>1, MinSingle DEF InService, int_no
    <3> QED
      BY <3>2 DEF Eoi
  <2> QED
    BY <2>2, <2>3, <2>4
<1>2. TypeOK'
  BY <1>1 DEF TypeOK, Eoi
<1>3. InService' /\ WaitExact'
  BY <1>1 DEF InService, WaitExact, Eoi
<1>4. BootOrder'
  BY <1>0 DEF BootOrder, Eoi
<1>5. SlotsFilled' /\ LoopSoFar'
  BY <1>0 DEF SlotsFilled, LoopSoFar, Eoi
<1>6. DriversHandleTheirLines'
  BY DEF DriversHandleTheirLines, Eoi
<1> QED
  BY <1>2, <1>3, <1>4, <1>5, <1>6

-----------------------------------------------------------------------------
(* The main flow.  Its actions happen outside handlers. *)

(* A handler is installed while interrupts are still disabled. *)
LEMMA InstallHandlerIInv ==
  ASSUME IInv, InstallHandler
  PROVE  IInv'
<1> USE DEF IInv, cpu, timer, table, wait
<1>1. TypeOK'
  BY DEF TypeOK, InstallHandler, Lines
<1>2. InService' /\ WaitExact'
  BY DEF InService, WaitExact, InstallHandler
<1>3. BootOrder'
  BY DEF BootOrder, InstallHandler
<1>4. SlotsFilled' /\ LoopSoFar'
  BY DEF SlotsFilled, LoopSoFar, InstallHandler
<1>5. DriversHandleTheirLines'
  BY DEF DriversHandleTheirLines, InstallHandler
<1> QED
  BY <1>1, <1>2, <1>3, <1>4, <1>5

(* sti: nothing is in service when interrupts are first let in. *)
LEMMA EnableIInv ==
  ASSUME IInv, EnableInterrupts
  PROVE  IInv'
<1> USE DEF IInv, timer, table, wait
<1>1. TypeOK'
  BY DEF TypeOK, EnableInterrupts
<1>2. InService' /\ WaitExact'
  BY DEF InService, WaitExact, EnableInterrupts, Main
<1>3. BootOrder'
  BY DEF BootOrder, EnableInterrupts
<1>4. SlotsFilled' /\ LoopSoFar'
  BY DEF SlotsFilled, LoopSoFar, EnableInterrupts
<1>5. DriversHandleTheirLines'
  BY DEF DriversHandleTheirLines, EnableInterrupts
<1> QED
  BY <1>1, <1>2, <1>3, <1>4, <1>5

(* pit_install_scheduler_routine writes the slot above the size. *)
LEMMA InstallSlotIInv ==
  ASSUME IInv, NEW hz \in Periods, InstallSlot(hz)
  PROVE  IInv'
<1> USE DEF IInv, cpu, timer, wait
<1>0. /\ size \in Slots /\ size \in Nat /\ size < MaxRoutines /\ hz # 0
      /\ routines' = [routines EXCEPT ![size] = hz] /\ size' = size /\ uninstalled' = uninstalled
  BY Numbers DEF TypeOK, Slots, InstallSlot
<1>1. TypeOK'
  <2>1. routines' \in [Slots -> Periods \cup {0}]
    BY <1>0 DEF TypeOK
  <2> QED
    BY <2>1 DEF TypeOK, InstallSlot
<1>2. InService' /\ WaitExact'
  BY DEF InService, WaitExact, InstallSlot
<1>3. BootOrder'
  BY DEF BootOrder, InstallSlot
<1>4. SlotsFilled'
  <2>1. routines'[size] = hz /\ \A j \in 0 .. size - 1 : routines'[j] = routines[j]
    BY <1>0 DEF TypeOK, Slots
  <2> QED
    BY <1>0, <2>1 DEF SlotsFilled
<1>5. LoopSoFar'
  BY DEF LoopSoFar, InService, InstallSlot, Main
<1>6. DriversHandleTheirLines'
  BY DEF DriversHandleTheirLines, InstallSlot
<1> QED
  BY <1>1, <1>2, <1>3, <1>4, <1>5, <1>6

(* Only then is the slot counted. *)
LEMMA InstallSizeIInv ==
  ASSUME IInv, InstallSize
  PROVE  IInv'
<1> USE DEF IInv, cpu, timer, wait
<1>0. /\ size \in Nat /\ size < MaxRoutines /\ size' = size + 1 /\ routines[size] # 0
      /\ routines' = routines /\ uninstalled' = uninstalled
  BY Numbers DEF TypeOK, InstallSize, SlotsFilled
<1>1. TypeOK'
  <2>1. size' \in 0 .. MaxRoutines
    BY <1>0, Numbers
  <2> QED
    BY <2>1 DEF TypeOK, InstallSize
<1>2. InService' /\ WaitExact'
  BY DEF InService, WaitExact, InstallSize
<1>3. BootOrder'
  BY DEF BootOrder, InstallSize
<1>4. SlotsFilled'
  BY <1>0 DEF SlotsFilled, InstallSize
<1>5. LoopSoFar'
  BY DEF LoopSoFar, InService, InstallSize, Main
<1>6. DriversHandleTheirLines'
  BY DEF DriversHandleTheirLines, InstallSize
<1> QED
  BY <1>1, <1>2, <1>3, <1>4, <1>5, <1>6

(* pit_uninstall_scheduler_routine *)
LEMMA UninstallIInv ==
  ASSUME IInv, NEW j \in Slots, Uninstall(j)
  PROVE  IInv'
<1> USE DEF IInv, cpu, timer, wait
<1>0. /\ size' = size /\ uninstalled' = uninstalled \cup {j} /\ pc' = pc /\ pc = "run"
      /\ \A i \in Slots : routines'[i] = IF i = j THEN 0 ELSE routines[i]
      /\ size \in 0 .. MaxRoutines
  BY DEF Uninstall, TypeOK
<1>1. TypeOK'
  <2>1. routines' \in [Slots -> Periods \cup {0}]
    BY DEF TypeOK, Uninstall
  <2> QED
    BY <2>1 DEF TypeOK, Uninstall
<1>2. InService' /\ WaitExact'
  BY DEF InService, WaitExact, Uninstall
<1>3. BootOrder'
  BY DEF BootOrder, Uninstall
<1>4. SlotsFilled'
  <2>1. \A i \in 0 .. size - 1 : i \in Slots
    BY <1>0, Numbers DEF Slots
  <2> QED
    BY <1>0, <2>1 DEF SlotsFilled
<1>5. LoopSoFar'
  BY DEF LoopSoFar, InService, Uninstall, Main
<1>6. DriversHandleTheirLines'
  BY DEF DriversHandleTheirLines, Uninstall
<1> QED
  BY <1>1, <1>2, <1>3, <1>4, <1>5, <1>6

(* pit_timer_wait computes its product and its sum. *)
LEMMA WaitIInv ==
  ASSUME IInv, NEW time \in Waits, NEW rate \in Rates, Wait(time, rate)
  PROVE  IInv'
<1> USE DEF IInv, cpu, timer, table
<1> DEFINE w == time * rate
<1>w. w \in Nat
  <2>1. time \in Nat /\ rate \in Nat
    BY Numbers
  <2> QED BY <2>1
<1>v. /\ desired_ticks' = (ticks + (w % Wrap)) % Wrap /\ remaining' = w
      /\ overflowed' = (ticks + w >= Wrap)
  BY DEF Wait
<1> HIDE DEF w
<1>0. ticks \in 0 .. Wrap - 1 /\ ticks + w \in Nat
  BY <1>w, Numbers DEF TypeOK
<1>1. TypeOK'
  <2>1. desired_ticks' \in 0 .. Wrap - 1 /\ remaining' \in Nat
    <3>1. w % Wrap \in 0 .. Wrap - 1
      BY <1>w, WrapRange
    <3>2. ticks + (w % Wrap) \in Nat
      BY <1>0, <3>1, Numbers
    <3> QED
      BY <1>w, <1>v, <3>2, WrapRange
  <2>2. overflowed' \in BOOLEAN
    BY <1>v
  <2> QED
    BY <2>1, <2>2 DEF TypeOK, Wait
<1>2. InService'
  BY DEF InService, Wait
<1>3. BootOrder'
  BY DEF BootOrder, Wait
<1>4. SlotsFilled' /\ LoopSoFar'
  BY DEF SlotsFilled, LoopSoFar, Wait
<1>5. WaitExact'
  <2>1. ASSUME ~overflowed' PROVE desired_ticks' = ticks + w
    <3>1. ~(ticks + w >= Wrap)
      BY <1>v, <2>1, Zenon
    <3>2. ticks + w < Wrap /\ w < Wrap
      BY <1>w, <1>0, <3>1, Numbers
    <3>3. w % Wrap = w
      BY <1>w, <3>2, WrapRange
    <3> QED
      BY <1>0, <1>v, <3>2, <3>3, WrapRange
  <2>2. ticks' = ticks /\ remaining' = w
    BY <1>v DEF Wait
  <2> QED
    BY <2>1, <2>2 DEF WaitExact
<1>6. DriversHandleTheirLines'
  BY DEF DriversHandleTheirLines, Wait
<1> QED
  BY <1>1, <1>2, <1>3, <1>4, <1>5, <1>6

(* The loop of a wait, and its end. *)
LEMMA WaitingIInv ==
  ASSUME IInv, WaitSpin \/ WaitDone
  PROVE  IInv'
<1> USE DEF IInv, cpu, timer, table, wait
<1>1. TypeOK'
  <2>1. CASE WaitSpin
    BY <2>1 DEF TypeOK, WaitSpin
  <2>2. CASE WaitDone
    <3>1. 0 \in 0 .. Wrap - 1
      BY Numbers
    <3> QED
      BY <2>2, <3>1 DEF TypeOK, WaitDone
  <2> QED
    BY <2>1, <2>2
<1>2. InService' /\ WaitExact'
  BY DEF InService, WaitExact, WaitSpin, WaitDone, Main
<1>3. BootOrder'
  BY DEF BootOrder, WaitSpin, WaitDone
<1>4. SlotsFilled' /\ LoopSoFar'
  BY DEF SlotsFilled, LoopSoFar, WaitSpin, WaitDone
<1>5. DriversHandleTheirLines'
  BY DEF DriversHandleTheirLines, WaitSpin, WaitDone
<1> QED
  BY <1>1, <1>2, <1>3, <1>4, <1>5

(* Nothing happens. *)
LEMMA StutterIInv == IInv /\ UNCHANGED vars => IInv'
<1> SUFFICES ASSUME IInv, UNCHANGED vars PROVE IInv'
  OBVIOUS
<1> USE DEF IInv, vars, cpu, timer, table, wait
<1>1. TypeOK'
  BY DEF TypeOK
<1>2. InService' /\ BootOrder' /\ WaitExact'
  BY DEF InService, BootOrder, WaitExact
<1>3. SlotsFilled' /\ LoopSoFar'
  BY DEF SlotsFilled, LoopSoFar
<1>4. DriversHandleTheirLines'
  BY DEF DriversHandleTheirLines
<1> QED
  BY <1>1, <1>2, <1>3, <1>4

(* Every reachable state satisfies the inductive invariant. *)
THEOREM InterruptsInvariant == Spec => []IInv
<1>1. IInv /\ [Next]_vars => IInv'
  <2> SUFFICES ASSUME IInv, [Next]_vars PROVE IInv'
    OBVIOUS
  <2>1. CASE \E k \in Lines : Raise(k) \/ Deliver(k)
    BY <2>1, RaiseIInv, DeliverIInv
  <2>2. CASE Handler
    BY <2>2, TimerEntryIInv, TimerRoutineIInv, OtherEntryIInv, EoiIInv DEF Handler
  <2>3. CASE InstallHandler \/ EnableInterrupts \/ InstallSize \/ WaitSpin \/ WaitDone
    BY <2>3, InstallHandlerIInv, EnableIInv, InstallSizeIInv, WaitingIInv
  <2>4. CASE \E hz \in Periods : InstallSlot(hz)
    BY <2>4, InstallSlotIInv
  <2>5. CASE \E j \in Slots : Uninstall(j)
    BY <2>5, UninstallIInv
  <2>6. CASE \E time \in Waits, rate \in Rates : Wait(time, rate)
    BY <2>6, WaitIInv
  <2>7. CASE Aborted \/ UNCHANGED vars
    BY <2>7, StutterIInv DEF Aborted
  <2> QED
    BY <2>1, <2>2, <2>3, <2>4, <2>5, <2>6, <2>7 DEF Next
<1> QED
  BY <1>1, InitIInv, PTL DEF Spec

(* pit_total_timer_ticks, the routine table and the controllers' registers *)
(* stay within their ranges.                                               *)
THEOREM InterruptsTypeOK == Spec => []TypeOK
<1>1. IInv => TypeOK
  BY DEF IInv
<1> QED
  BY <1>1, InterruptsInvariant, PTL

(* Whenever a tick meets pit_install_scheduler_routine, the division in    *)
(* pit_irq_timer_handler fails only on a slot that was uninstalled.        *)
THEOREM InterruptsFaultOnlyUninstalled == Spec => []FaultOnlyUninstalled
<1>1. IInv => FaultOnlyUninstalled
  BY Numbers DEF IInv, TypeOK, SlotsFilled, LoopSoFar, FaultOnlyUninstalled
<1> QED
  BY <1>1, InterruptsInvariant, PTL

(* A tick calls exactly the routines whose period divides its number. *)
THEOREM InterruptsRoutinesOnTime == Spec => []RoutinesOnTime
<1>1. IInv => RoutinesOnTime
  <2> SUFFICES ASSUME IInv, stage = "routines", n >= size
               PROVE  ran = {j \in 0 .. size - 1 : ticks % routines[j] = 0}
    BY DEF RoutinesOnTime
  <2>1. n = size
    BY Numbers DEF IInv, TypeOK, LoopSoFar
  <2> QED
    BY <2>1 DEF IInv, LoopSoFar
<1> QED
  BY <1>1, InterruptsInvariant, PTL

(* _irq_handler ends the service of every line it was entered for. *)
THEOREM InterruptsNothingLeftInService == Spec => []NothingLeftInService
<1>1. IInv => NothingLeftInService
  BY DEF IInv, InService, NothingLeftInService
<1> QED
  BY <1>1, InterruptsInvariant, PTL

(* kernel_early enables interrupts late enough: timer and keyboard never   *)
(* interrupt without a handler.                                            *)
THEOREM InterruptsDriversHandleTheirLines == Spec => []DriversHandleTheirLines
<1>1. IInv => DriversHandleTheirLines
  BY DEF IInv
<1> QED
  BY <1>1, InterruptsInvariant, PTL

(* pit_timer_wait waits for the ticks asked for, whatever the width of the *)
(* counter, unless its own product or sum overflows.                       *)
THEOREM InterruptsWaitNotShort == Spec => WaitNotShort
<1>1. IInv /\ [Next]_vars => [pc = "wait" /\ pc' # "wait" => remaining = 0 \/ overflowed]_vars
  <2> SUFFICES ASSUME IInv, Next, pc = "wait", pc' # "wait", remaining # 0, ~overflowed
               PROVE  FALSE
    BY DEF vars
  <2>1. WaitDone
    BY DEF Next, Raise, Deliver, Handler, TimerEntry, TimerRoutine, OtherEntry, Eoi,
           InstallHandler, EnableInterrupts, InstallSize, InstallSlot, Uninstall, Wait,
           WaitSpin, Aborted, vars
  <2>2. desired_ticks = ticks + remaining
    BY DEF IInv, WaitExact
  <2> QED
    BY <2>1, <2>2, Numbers DEF WaitDone, IInv, TypeOK
<1> QED
  BY <1>1, InterruptsInvariant, PTL DEF Spec, WaitNotShort
=============================================================================
