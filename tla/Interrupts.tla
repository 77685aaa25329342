----------------------------- MODULE Interrupts -----------------------------
(***************************************************************************)
(* Interrupt dispatch (arch/i386/irq.c, isr.c) and the timer driver        *)
(* (drivers/pc/pit.c) running between the instructions of the kernel's     *)
(* main flow (kernel_early, kernel_main), which installs the handlers,     *)
(* enables interrupts, adds timer routines and waits for ticks.            *)
(*                                                                         *)
(* The gates are interrupt gates: a handler runs with interrupts disabled  *)
(* and is never interrupted itself.  Of the keyboard only its line is      *)
(* here; line 8, on the second controller, has no handler.                 *)
(***************************************************************************)
EXTENDS Naturals, FiniteSets, FiniteSetsExt

CONSTANTS
  MaxRoutines,   \* length of _pit_routines (64)
  Periods,       \* the hz values given to pit_install_scheduler_routine
  Waits,         \* the times given to pit_timer_wait and pit_timer_wait_ms
  Rates,         \* PIT_TIMER_CONSTANT and PIT_TIMER_CONSTANT/1000, their factors
  Wrap           \* 2^32, the range of pit_total_timer_ticks

ASSUME PeriodsAssumption == Periods \subseteq Nat \ {0}
ASSUME TicksAssumption ==
  /\ Wrap \in Nat \ {0} /\ MaxRoutines \in Nat
  /\ Waits \subseteq Nat /\ Rates \subseteq Nat

Lines == {0, 1, 8}
Slots == 0 .. MaxRoutines - 1
None == 99

VARIABLES
  enabled,        \* the processor's interrupt flag
  requested,      \* lines waiting at the controllers
  master, slave,  \* lines in service at the two controllers
  irq_routines,   \* the lines that have a handler
  handling,       \* the line whose handler runs, None in the main flow
  stage,          \* where that handler is
  ticks,          \* pit_total_timer_ticks
  routines,       \* _pit_routines: the hz field (0: never written or uninstalled)
  size,           \* _pit_routines_size
  n,              \* loop index of pit_irq_timer_handler
  ran,            \* routines called for this tick
  pc,             \* where the main flow is
  desired_ticks,
  remaining,      \* history: the ticks that pit_timer_wait was asked to wait and has not
  overflowed,     \* history: its product or its sum did not fit in 32 bits
  uninstalled,    \* slots that were uninstalled
  unhandled,      \* lines that found no handler
  halted          \* a fault has stopped the kernel

cpu == <<enabled, requested, master, slave, handling, stage>>
timer == <<ticks, n, ran>>
table == <<routines, size, uninstalled>>
wait == <<desired_ticks, remaining, overflowed>>
vars == <<cpu, timer, table, wait, irq_routines, pc, unhandled, halted>>

Main == handling = None /\ ~halted

-----------------------------------------------------------------------------
(* Vectors: the processor's exceptions have the gates 0 to 31, and         *)
(* __irq_remap gives the lines 32 to 47.                                   *)

Exceptions == 0 .. 31
int_no(k) == 32 + k

(* The exceptions with a routine: i386_paging_init installs one for page   *)
(* faults.  _fault_handler prints and aborts for the others.               *)
isr_routines == {14}
Aborts(exception) == exception \in Exceptions \ isr_routines

DivideError == 0

-----------------------------------------------------------------------------
(* The interrupt controllers, and the entry of a handler. *)

Line(k) == IF k < 8 THEN k ELSE 2      \* the input of the first controller

Raise(k) ==
  /\ k \notin requested
  /\ requested' = requested \cup {k}
  /\ UNCHANGED <<enabled, master, slave, handling, stage,
                 timer, table, wait, irq_routines, pc, unhandled, halted>>

Deliverable(k) ==
  /\ k \in requested
  /\ \A l \in master : Line(k) < l
  /\ \A l \in slave : k >= 8 => k < l

Deliver(k) ==
  /\ Main /\ enabled
  /\ Deliverable(k) /\ \A l \in requested : Deliverable(l) => k <= l
  /\ requested' = requested \ {k}
  /\ master' = master \cup {Line(k)}
  /\ slave' = IF k < 8 THEN slave ELSE slave \cup {k}
  /\ enabled' = FALSE
  /\ handling' = k
  /\ stage' = "dispatch"
  /\ UNCHANGED <<timer, table, wait, irq_routines, pc, unhandled, halted>>

-----------------------------------------------------------------------------
(* _irq_handler *)

(* Mutant: the loop starts at the second routine. *)
TimerEntry_SkipsFirst ==
  /\ ~halted /\ handling = 0 /\ stage = "dispatch" /\ 0 \in irq_routines
  /\ ticks' = (ticks + 1) % Wrap
  /\ remaining' = IF pc = "wait" /\ remaining > 0 THEN remaining - 1 ELSE remaining
  /\ n' = 1 /\ ran' = {}
  /\ stage' = "routines"
  /\ UNCHANGED <<enabled, requested, master, slave, handling, desired_ticks, overflowed,
                 table, irq_routines, pc, unhandled, halted>>

(* pit_irq_timer_handler up to its loop. *)
TimerEntry ==
  /\ ~halted /\ handling = 0 /\ stage = "dispatch" /\ 0 \in irq_routines
  /\ ticks' = (ticks + 1) % Wrap
  /\ remaining' = IF pc = "wait" /\ remaining > 0 THEN remaining - 1 ELSE remaining
  /\ n' = 0 /\ ran' = {}
  /\ stage' = "routines"
  /\ UNCHANGED <<enabled, requested, master, slave, handling, desired_ticks, overflowed,
                 table, irq_routines, pc, unhandled, halted>>

(* One turn of the loop, with its division by the period; a routine takes  *)
(* no part in the interrupts.                                              *)
TimerRoutine ==
  /\ ~halted /\ stage = "routines" /\ n < size
  /\ halted' = (routines[n] = 0 /\ Aborts(DivideError))
  /\ ran' = IF routines[n] # 0 /\ ticks % routines[n] = 0 THEN ran \cup {n} ELSE ran
  /\ n' = IF routines[n] = 0 THEN n ELSE n + 1
  /\ UNCHANGED <<cpu, ticks, table, wait, irq_routines, pc, unhandled>>

(* Another handler (the keyboard's) or none: nothing of this module's      *)
(* state changes before the end of interrupt.                              *)
OtherEntry ==
  /\ ~halted /\ handling # None /\ stage = "dispatch"
  /\ ~(handling = 0 /\ 0 \in irq_routines)
  /\ unhandled' = IF handling \in irq_routines THEN unhandled ELSE unhandled \cup {handling}
  /\ stage' = "eoi"
  /\ UNCHANGED <<enabled, requested, master, slave, handling,
                 timer, table, wait, irq_routines, pc, halted>>

(* Mutant: the second controller is never told. *)
Eoi_MasterOnly ==
  /\ ~halted
  /\ stage = "eoi" \/ (stage = "routines" /\ n >= size)
  /\ master' = master \ {Min(master)}
  /\ enabled' = TRUE
  /\ handling' = None
  /\ stage' = "none"
  /\ UNCHANGED <<requested, slave, timer, table, wait, irq_routines, pc, unhandled, halted>>

(* The end of interrupt goes to the second controller for lines 8 to 15,   *)
(* then to the first; each ends the service of its highest priority line.  *)
(* The iret of the stub restores the interrupt flag.                       *)
Eoi ==
  /\ ~halted
  /\ stage = "eoi" \/ (stage = "routines" /\ n >= size)
  /\ slave' = IF int_no(handling) >= 40 THEN slave \ {Min(slave)} ELSE slave
  /\ master' = master \ {Min(master)}
  /\ enabled' = TRUE
  /\ handling' = None
  /\ stage' = "none"
  /\ UNCHANGED <<requested, timer, table, wait, irq_routines, pc, unhandled, halted>>

-----------------------------------------------------------------------------
(* The main flow. *)

Init ==
  /\ enabled = FALSE /\ requested = {} /\ master = {} /\ slave = {}
  /\ irq_routines = {} /\ handling = None /\ stage = "none"
  /\ ticks = 0 /\ n = 0 /\ ran = {}
  /\ routines = [j \in Slots |-> 0] /\ size = 0 /\ uninstalled = {}
  /\ pc = "install_pit"
  /\ desired_ticks = 0 /\ remaining = 0 /\ overflowed = FALSE
  /\ unhandled = {} /\ halted = FALSE

(* pit_timer_install_irq and pckbd_install_irq, in kernel_early. *)
InstallHandler ==
  /\ Main /\ pc \in {"install_pit", "install_kbd"}
  /\ irq_routines' = irq_routines \cup (IF pc = "install_pit" THEN {0} ELSE {1})
  /\ pc' = IF pc = "install_pit" THEN "install_kbd" ELSE "install_task"
  /\ UNCHANGED <<cpu, timer, table, wait, unhandled, halted>>

(* Mutant: interrupts are enabled before the keyboard's handler is there. *)
EnableInterrupts_Early ==
  /\ Main /\ pc \in {"install_kbd", "sti"} /\ ~enabled
  /\ enabled' = TRUE
  /\ pc' = IF pc = "sti" THEN "run" ELSE "install_kbd"
  /\ UNCHANGED <<requested, master, slave, handling, stage,
                 timer, table, wait, irq_routines, unhandled, halted>>

EnableInterrupts ==
  /\ Main /\ pc = "sti"
  /\ enabled' = TRUE
  /\ pc' = "run"
  /\ UNCHANGED <<requested, master, slave, handling, stage,
                 timer, table, wait, irq_routines, unhandled, halted>>

(* Mutant: the table is never full. *)
InstallSlot_Unlimited(hz) ==
  /\ Main /\ pc \in {"install_task", "run"}
  /\ routines' = [routines EXCEPT ![size] = hz]
  /\ pc' = IF pc = "run" THEN "size_run" ELSE "size_task"
  /\ UNCHANGED <<cpu, timer, size, uninstalled, wait, irq_routines, unhandled, halted>>

(* Mutant: the size is counted before the slot is written. *)
InstallSlot_SizeFirst(hz) ==
  /\ Main /\ pc \in {"install_task", "run"} /\ size < MaxRoutines
  /\ size' = size + 1
  /\ pc' = IF pc = "run" THEN "size_run" ELSE "size_task"
  /\ UNCHANGED <<cpu, timer, routines, uninstalled, wait, irq_routines, unhandled, halted>>

(* pit_install_scheduler_routine: first the slot, then the size (a full    *)
(* table is left alone).  kernel_early adds kernel_task this way before it *)
(* enables interrupts.                                                     *)
InstallSlot(hz) ==
  /\ Main /\ pc \in {"install_task", "run"} /\ size < MaxRoutines
  /\ routines' = [routines EXCEPT ![size] = hz]
  /\ pc' = IF pc = "run" THEN "size_run" ELSE "size_task"
  /\ UNCHANGED <<cpu, timer, size, uninstalled, wait, irq_routines, unhandled, halted>>

InstallSize ==
  /\ Main /\ pc \in {"size_task", "size_run"}
  /\ size' = size + 1
  /\ pc' = IF pc = "size_task" THEN "sti" ELSE "run"
  /\ UNCHANGED <<cpu, timer, routines, uninstalled, wait, irq_routines, unhandled, halted>>

(* pit_uninstall_scheduler_routine leaves the slot in the table. *)
Uninstall(j) ==
  /\ Main /\ pc = "run" /\ j < size
  /\ routines' = [routines EXCEPT ![j] = 0]
  /\ uninstalled' = uninstalled \cup {j}
  /\ UNCHANGED <<cpu, timer, size, wait, irq_routines, pc, unhandled, halted>>

(* pit_timer_wait and pit_timer_wait_ms, which differ in their factor.     *)
(* Product and sum are computed in 32 bits.                                *)
Wait(time, rate) ==
  /\ Main /\ pc = "run"
  /\ desired_ticks' = (ticks + ((time * rate) % Wrap)) % Wrap
  /\ remaining' = time * rate
  /\ overflowed' = (ticks + time * rate >= Wrap)
  /\ pc' = "wait"
  /\ UNCHANGED <<cpu, timer, table, irq_routines, unhandled, halted>>

(* Mutant: of the loop's assembly only the cli is assembled. *)
WaitSpin_Cli ==
  /\ Main /\ pc = "wait" /\ desired_ticks > ticks
  /\ enabled' = FALSE
  /\ UNCHANGED <<requested, master, slave, handling, stage,
                 timer, table, wait, irq_routines, pc, unhandled, halted>>

(* One turn of the loop: of its assembly only the sti is assembled. *)
WaitSpin ==
  /\ Main /\ pc = "wait" /\ desired_ticks > ticks
  /\ enabled' = TRUE
  /\ UNCHANGED <<requested, master, slave, handling, stage,
                 timer, table, wait, irq_routines, pc, unhandled, halted>>

(* Mutant: the wait ends one tick early. *)
WaitDone_Early ==
  /\ Main /\ pc = "wait" /\ desired_ticks <= ticks + 1
  /\ pc' = "run"
  /\ desired_ticks' = 0 /\ remaining' = 0 /\ overflowed' = FALSE
  /\ UNCHANGED <<cpu, timer, table, irq_routines, unhandled, halted>>

WaitDone ==
  /\ Main /\ pc = "wait" /\ desired_ticks <= ticks
  /\ pc' = "run"
  /\ desired_ticks' = 0 /\ remaining' = 0 /\ overflowed' = FALSE
  /\ UNCHANGED <<cpu, timer, table, irq_routines, unhandled, halted>>

Handler == TimerEntry \/ TimerRoutine \/ OtherEntry \/ Eoi
Aborted == halted /\ UNCHANGED vars

Next ==
  \/ \E k \in Lines : Raise(k) \/ Deliver(k)
  \/ Handler
  \/ InstallHandler \/ EnableInterrupts \/ InstallSize
  \/ \E hz \in Periods : InstallSlot(hz)
  \/ \E j \in Slots : Uninstall(j)
  \/ \E time \in Waits, rate \in Rates : Wait(time, rate)
  \/ WaitSpin \/ WaitDone
  \/ Aborted

(* The timer ticks, a handler that has begun goes on, the first controller *)
(* delivers what it may deliver, and the main flow gets its turn between   *)
(* interrupts (keys and ticks are further apart than handlers take).       *)
Fairness ==
  /\ WF_vars(Raise(0)) /\ WF_vars(Deliver(0)) /\ WF_vars(Handler)
  /\ SF_vars(WaitDone)

Spec == Init /\ [][Next]_vars /\ Fairness

-----------------------------------------------------------------------------
TypeOK ==
  /\ {enabled, halted} \subseteq BOOLEAN
  /\ requested \subseteq Lines /\ master \subseteq 0 .. 7 /\ slave \subseteq 8 .. 15
  /\ irq_routines \subseteq Lines /\ unhandled \subseteq Lines
  /\ handling \in Lines \cup {None}
  /\ stage \in {"none", "dispatch", "routines", "eoi"}
  /\ ticks \in 0 .. Wrap - 1
  /\ routines \in [Slots -> Periods \cup {0}] /\ size \in 0 .. MaxRoutines
  /\ n \in 0 .. MaxRoutines /\ ran \subseteq Slots /\ uninstalled \subseteq Slots
  /\ pc \in {"install_pit", "install_kbd", "install_task", "size_task", "sti",
            "run", "size_run", "wait"}
  /\ desired_ticks \in 0 .. Wrap - 1 /\ remaining \in Nat /\ overflowed \in BOOLEAN

(* A tick that arrives while a routine is being installed never uses a     *)
(* slot that is not filled: a division by zero in the handler happens only *)
(* on a slot that was uninstalled.                                         *)
FaultOnlyUninstalled == halted => n \in uninstalled

(* When the handler of a tick has gone through the table, it has called    *)
(* exactly the routines, of those installed, whose period divides the      *)
(* number of the tick.                                                     *)
RoutinesOnTime ==
  stage = "routines" /\ n >= size /\ ~halted =>
    ran = {j \in 0 .. size - 1 : ticks % routines[j] = 0}

(* Outside a handler no line is in service at either controller, whatever  *)
(* lines were served: no later interrupt is held back for good.            *)
NothingLeftInService == handling = None => master = {} /\ slave = {}

(* Ticks and keys that arrive during boot stay pending until both handlers *)
(* are installed; neither ever meets an empty entry of irq_routines.       *)
DriversHandleTheirLines == unhandled \cap {0, 1} = {}

(* pit_timer_wait does not return before the ticks asked for have passed   *)
(* since it was called, unless the product of time and rate, or the sum of *)
(* that and the counter, has passed 2^32; and it does return in either  *)
(* case, even if the counter wraps while it waits.                         *)
WaitNotShort == [][pc = "wait" /\ pc' # "wait" => remaining = 0 \/ overflowed]_vars
WaitEnds == pc = "wait" ~> (pc # "wait" \/ halted)
=============================================================================
