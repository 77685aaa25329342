--------------------------- MODULE ConsoleProofs ---------------------------
(***************************************************************************)
(* What module Console's runs check of the cursor on one small screen,     *)
(* proved for every size of the screen and of the cursor registers, every  *)
(* length of text and every moment at which a key arrives.                 *)
(***************************************************************************)
EXTENDS Console, TLAPS

(* Where the values an actor is about to use were read: up to the          *)
(* increment of the row, and at the cursor's registers.                    *)
BeforeRow == {"zero", "entry", "advance", "next_row"}
AtRegisters == {"select_high", "high", "select_low", "low"}
Labels == {"idle", "scroll", "scroll_zero", "reread", "position"} \cup BeforeRow \cup AtRegisters

Characters == {Newline, Blank, Nothing, "a", "A", "1", "!"}
Locals == [c : Characters, r : Nat, x : 0 .. Width - 1, y : Nat, cur_pos : Nat]

(* The type invariant of what the cursor depends on. *)
Types ==
  /\ row \in Nat /\ column \in 0 .. Width - 1
  /\ index \in Registers /\ crtc \in [{14, 15} -> Nat]
  /\ at \in [Actors -> Labels]
  /\ local \in [Actors -> Locals]
  /\ disturbed \in BOOLEAN

(* The row lies beyond the screen only while an actor is about to scroll.  *)
RowOnScreen == (\A a \in Actors : at[a] # "scroll") => row < Height

(* The main flow starts from a row on the screen: no handler is under way  *)
(* when it reads it.                                                       *)
MainRowOnScreen == at["main"] \in BeforeRow => local["main"].r < Height

(* The handler may find the row beyond the screen, but only while the main *)
(* flow stands in front of a scroll that mends whatever the handler leaves.*)
HandlerRowOnScreen ==
  at["irq"] \in BeforeRow /\ at["main"] # "scroll" => local["irq"].r < Height

(* No other actor has begun a character since the last one was begun       *)
(* alone.                                                                  *)
OneWriter == ~disturbed => at["main"] = "idle" \/ at["irq"] = "idle"

(* What a writer that nothing disturbed has read is still so.              *)
ReadsCurrent == ~disturbed => \A a \in Actors :
  /\ at[a] \in BeforeRow \cup {"position"} => local[a].r = row
  /\ at[a] = "advance" => local[a].x = column
  /\ at[a] \in AtRegisters => local[a].cur_pos = row * Width + column

(* The register it has selected is the one it is about to write, and the   *)
(* one it has written holds the upper half of the position.                *)
PortCurrent == ~disturbed => \A a \in Actors :
  /\ at[a] = "high" => index = 14
  /\ at[a] = "low" => index = 15
  /\ at[a] \in {"select_low", "low"} => crtc[14] = (local[a].cur_pos \div Base) % Base

(* The inductive invariant. *)
IInv ==
  /\ Types /\ RowOnScreen /\ MainRowOnScreen /\ HandlerRowOnScreen
  /\ OneWriter /\ ReadsCurrent /\ PortCurrent /\ HardwareCursor

-----------------------------------------------------------------------------
(* Numbers *)

(* The screen and the registers are not empty. *)
LEMMA Sizes == Width \in Nat /\ Width >= 1 /\ Height \in Nat /\ Height >= 1
               /\ Base \in Nat /\ Base >= 1 /\ Width * Height <= Base * Base
<1>1. Width \in Nat \ {0} /\ Height \in Nat \ {0} /\ Base \in Nat \ {0}
  BY ScreenAssumption
<1> QED
  BY <1>1, ScreenAssumption

(* A position on the screen is below what two registers hold. *)
LEMMA PositionFits ==
  ASSUME NEW r \in Nat, NEW x \in 0 .. Width - 1, r < Height
  PROVE  r * Width + x \in Nat /\ r * Width + x < Base * Base
<1> DEFINE below == r * Width
           all == Width * Height
<1>1. /\ Width \in Nat /\ Height \in Nat /\ Base \in Nat
      /\ below \in Nat /\ all \in Nat /\ Base * Base \in Nat
  BY Sizes
<1>2. (r + 1) * Width <= Height * Width
  BY <1>1
<1>3. (r + 1) * Width = below + Width /\ Height * Width = all
  BY <1>1
<1>4. all <= Base * Base
  BY Sizes
<1> HIDE DEF below, all
<1>5. below + x < all
  BY <1>1, <1>2, <1>3
<1>6. below + x \in Nat /\ below + x < Base * Base
  BY <1>1, <1>4, <1>5
<1> QED
  BY <1>6 DEF below

(* The two halves of such a position make it up again. *)
LEMMA HalvesOf ==
  ASSUME NEW p \in Nat, p < Base * Base
  PROVE  /\ (p \div Base) % Base \in Nat /\ p % Base \in Nat
         /\ ((p \div Base) % Base) * Base + (p % Base) = p
<1>1. Base \in Nat /\ Base >= 1
  BY Sizes
<1> DEFINE q == p \div Base
           m == p % Base
<1>2. q \in Nat /\ m \in Nat /\ p = Base * q + m
  BY <1>1
<1>3. q < Base
  <2>1. SUFFICES ASSUME q >= Base PROVE FALSE
    BY <1>1, <1>2
  <2>2. Base * q >= Base * Base
    BY <1>1, <1>2, <2>1
  <2> QED
    <3> DEFINE bq == Base * q
               bb == Base * Base
    <3>1. bq \in Nat /\ bb \in Nat /\ bq >= bb /\ p = bq + m /\ p < bb /\ m \in Nat
      BY <1>1, <1>2, <2>2
    <3> HIDE DEF bq, bb, m
    <3> QED
      BY <3>1
<1>4. q % Base = q
  <2> HIDE DEF q
  <2> QED
    BY <1>1, <1>2, <1>3
<1>5. q * Base = Base * q
  BY <1>1, <1>2
<1>6. (q % Base) * Base + m = p
  BY <1>2, <1>4, <1>5
<1> QED
  BY <1>2, <1>4, <1>6

-----------------------------------------------------------------------------
(* One lemma per step of vga_textmode_putchar *)

(* The character is stored and the column read. *)
LEMMA PutEntryStep ==
  ASSUME IInv, NEW a \in Actors, PutEntry(a)
  PROVE  IInv'
<1> USE Sizes DEF IInv, Types, Registers, Actors, Labels, BeforeRow, AtRegisters, Locals
<1> USE DEF PutEntry, At, Runs, Goto, cursor, port, keyboard, history
<1>1. Types'
  OBVIOUS
<1>2. RowOnScreen' /\ MainRowOnScreen' /\ HandlerRowOnScreen'
  BY DEF RowOnScreen, MainRowOnScreen, HandlerRowOnScreen
<1>3. OneWriter'
  BY DEF OneWriter, Idle
<1>4. ReadsCurrent'
  BY DEF ReadsCurrent, OneWriter, Idle
<1>5. PortCurrent'
  BY DEF PortCurrent, ReadsCurrent, OneWriter, Idle
<1>6. HardwareCursor'
  BY DEF HardwareCursor, Idle
<1> QED
  BY <1>1, <1>2, <1>3, <1>4, <1>5, <1>6

(* The column moves on. *)
LEMMA AdvanceStep ==
  ASSUME IInv, NEW a \in Actors, Advance(a)
  PROVE  IInv'
<1> USE Sizes DEF IInv, Types, Registers, Actors, Labels, BeforeRow, AtRegisters, Locals
<1> USE DEF Advance, At, Runs, Goto, cursor, port, keyboard, history, AfterRow
<1>1. Types'
  OBVIOUS
<1>2. RowOnScreen' /\ MainRowOnScreen' /\ HandlerRowOnScreen'
  BY DEF RowOnScreen, MainRowOnScreen, HandlerRowOnScreen
<1>3. OneWriter'
  BY DEF OneWriter, Idle
<1>4. ReadsCurrent'
  BY DEF ReadsCurrent, OneWriter, Idle
<1>5. PortCurrent'
  BY DEF PortCurrent, ReadsCurrent, OneWriter, Idle
<1>6. HardwareCursor'
  BY DEF HardwareCursor, Idle
<1> QED
  BY <1>1, <1>2, <1>3, <1>4, <1>5, <1>6

(* The column goes back to 0. *)
LEMMA ZeroColumnStep ==
  ASSUME IInv, NEW a \in Actors, ZeroColumn(a)
  PROVE  IInv'
<1> USE Sizes DEF IInv, Types, Registers, Actors, Labels, BeforeRow, AtRegisters, Locals
<1> USE DEF ZeroColumn, At, Runs, Goto, cursor, port, keyboard, history
<1>1. Types'
  OBVIOUS
<1>2. RowOnScreen' /\ MainRowOnScreen' /\ HandlerRowOnScreen'
  BY DEF RowOnScreen, MainRowOnScreen, HandlerRowOnScreen
<1>3. OneWriter'
  BY DEF OneWriter, Idle
<1>4. ReadsCurrent'
  BY DEF ReadsCurrent, OneWriter, Idle
<1>5. PortCurrent'
  BY DEF PortCurrent, ReadsCurrent, OneWriter, Idle
<1>6. HardwareCursor'
  BY DEF HardwareCursor, Idle
<1> QED
  BY <1>1, <1>2, <1>3, <1>4, <1>5, <1>6

(* The row moves on, and with Height ahead of it a scroll follows. *)
LEMMA NextRowStep ==
  ASSUME IInv, NEW a \in Actors, NextRow(a)
  PROVE  IInv'
<1> USE Sizes DEF IInv, Types, Registers, Actors, Labels, BeforeRow, AtRegisters, Locals
<1> USE DEF NextRow, At, Runs, Goto, cursor, port, keyboard, history, AfterRow
<1>1. Types'
  OBVIOUS
<1>2. RowOnScreen' /\ MainRowOnScreen' /\ HandlerRowOnScreen'
  BY DEF RowOnScreen, MainRowOnScreen, HandlerRowOnScreen
<1>3. OneWriter'
  BY DEF OneWriter, Idle
<1>4. ReadsCurrent'
  BY DEF ReadsCurrent, OneWriter, Idle
<1>5. PortCurrent'
  BY DEF PortCurrent, ReadsCurrent, OneWriter, Idle
<1>6. HardwareCursor'
  BY DEF HardwareCursor, Idle
<1> QED
  BY <1>1, <1>2, <1>3, <1>4, <1>5, <1>6

(* A turn of the loop that scrolls changes no cursor. *)
LEMMA ScrollRowStep ==
  ASSUME IInv, NEW a \in Actors, ScrollRow(a)
  PROVE  IInv'
<1> USE Sizes DEF IInv, Types, Registers, Actors, Labels, BeforeRow, AtRegisters, Locals
<1> USE DEF ScrollRow, At, Runs, Goto, cursor, port, keyboard, history
<1>1. Types'
  OBVIOUS
<1>2. RowOnScreen' /\ MainRowOnScreen' /\ HandlerRowOnScreen'
  BY DEF RowOnScreen, MainRowOnScreen, HandlerRowOnScreen
<1>3. OneWriter'
  BY DEF OneWriter, Idle
<1>4. ReadsCurrent'
  BY DEF ReadsCurrent, OneWriter, Idle
<1>5. PortCurrent'
  BY DEF PortCurrent, ReadsCurrent, OneWriter, Idle
<1>6. HardwareCursor'
  BY DEF HardwareCursor, Idle
<1> QED
  BY <1>1, <1>2, <1>3, <1>4, <1>5, <1>6

(* A scroll ends with the row on the screen. *)
LEMMA ScrollEndStep ==
  ASSUME IInv, NEW a \in Actors, ScrollEnd(a)
  PROVE  IInv'
<1> USE Sizes DEF IInv, Types, Registers, Actors, Labels, BeforeRow, AtRegisters, Locals
<1> USE DEF ScrollEnd, At, Runs, Goto, cursor, port, keyboard, history
<1>1. Types'
  OBVIOUS
<1>2. RowOnScreen' /\ MainRowOnScreen' /\ HandlerRowOnScreen'
  BY DEF RowOnScreen, MainRowOnScreen, HandlerRowOnScreen
<1>3. OneWriter'
  BY DEF OneWriter, Idle
<1>4. ReadsCurrent'
  BY DEF ReadsCurrent, OneWriter, Idle
<1>5. PortCurrent'
  BY DEF PortCurrent, ReadsCurrent, OneWriter, Idle
<1>6. HardwareCursor'
  BY DEF HardwareCursor, Idle
<1> QED
  BY <1>1, <1>2, <1>3, <1>4, <1>5, <1>6

(* The row is read again. *)
LEMMA RereadStep ==
  ASSUME IInv, NEW a \in Actors, Reread(a)
  PROVE  IInv'
<1> USE Sizes DEF IInv, Types, Registers, Actors, Labels, BeforeRow, AtRegisters, Locals
<1> USE DEF Reread, At, Runs, Goto, cursor, port, keyboard, history
<1>1. Types'
  OBVIOUS
<1>2. RowOnScreen' /\ MainRowOnScreen' /\ HandlerRowOnScreen'
  BY DEF RowOnScreen, MainRowOnScreen, HandlerRowOnScreen
<1>3. OneWriter'
  BY DEF OneWriter, Idle
<1>4. ReadsCurrent'
  BY DEF ReadsCurrent, OneWriter, Idle
<1>5. PortCurrent'
  BY DEF PortCurrent, ReadsCurrent, OneWriter, Idle
<1>6. HardwareCursor'
  BY DEF HardwareCursor, Idle
<1> QED
  BY <1>1, <1>2, <1>3, <1>4, <1>5, <1>6

(* The position is computed from the row read and the column. *)
LEMMA PositionStep ==
  ASSUME IInv, NEW a \in Actors, Position(a)
  PROVE  IInv'
<1> USE Sizes DEF IInv, Types, Registers, Actors, Labels, BeforeRow, AtRegisters, Locals
<1> USE DEF Position, At, Runs, Goto, cursor, port, keyboard, history
<1>1. Types'
  OBVIOUS
<1>2. RowOnScreen' /\ MainRowOnScreen' /\ HandlerRowOnScreen'
  BY DEF RowOnScreen, MainRowOnScreen, HandlerRowOnScreen
<1>3. OneWriter'
  BY DEF OneWriter, Idle
<1>4. ReadsCurrent'
  BY DEF ReadsCurrent, OneWriter, Idle
<1>5. PortCurrent'
  BY DEF PortCurrent, ReadsCurrent, OneWriter, Idle
<1>6. HardwareCursor'
  BY DEF HardwareCursor, Idle
<1> QED
  BY <1>1, <1>2, <1>3, <1>4, <1>5, <1>6

(* A register is selected. *)
LEMMA SelectRegisterStep ==
  ASSUME IInv, NEW a \in Actors, SelectRegister(a)
  PROVE  IInv'
<1> USE Sizes DEF IInv, Types, Registers, Actors, Labels, BeforeRow, AtRegisters, Locals
<1> USE DEF SelectRegister, At, Runs, Goto, cursor, port, keyboard, history
<1>1. Types'
  OBVIOUS
<1>2. RowOnScreen' /\ MainRowOnScreen' /\ HandlerRowOnScreen'
  BY DEF RowOnScreen, MainRowOnScreen, HandlerRowOnScreen
<1>3. OneWriter'
  BY DEF OneWriter, Idle
<1>4. ReadsCurrent'
  BY DEF ReadsCurrent, OneWriter, Idle
<1>5. PortCurrent'
  BY DEF PortCurrent, ReadsCurrent, OneWriter, Idle
<1>6. HardwareCursor'
  BY DEF HardwareCursor, Idle
<1> QED
  BY <1>1, <1>2, <1>3, <1>4, <1>5, <1>6

(* A register is written.  Behind the second one the hardware cursor is    *)
(* where the writer has left the row and the column.                       *)
LEMMA WriteRegisterStep ==
  ASSUME IInv, NEW a \in Actors, WriteRegister(a)
  PROVE  IInv'
<1> USE Sizes DEF IInv, Types, Registers, Actors, Labels, BeforeRow, AtRegisters
<1> DEFINE p == local[a].cur_pos
           high == (p \div Base) % Base
           low == p % Base
<1>1. p \in Nat /\ high \in Nat /\ low \in Nat
  BY DEF Locals
<1>2. /\ at[a] \in {"high", "low"} /\ Runs(a)
      /\ crtc' = [crtc EXCEPT ![index] = IF at[a] = "high" THEN high ELSE low]
      /\ at' = [at EXCEPT ![a] = IF at[a] = "high" THEN "select_low" ELSE "idle"]
      /\ local' = [local EXCEPT ![a] = IF at[a] = "high" THEN @ ELSE NoLocals]
      /\ UNCHANGED <<row, column, index, disturbed>>
  BY DEF WriteRegister, At, Goto, cursor, history
<1>3. NoLocals \in Locals
  BY DEF NoLocals, Locals, Characters
<1>4. Types'
  <2> HIDE DEF high, low
  <2>1. crtc' \in [{14, 15} -> Nat]
    BY <1>1, <1>2
  <2> QED
    BY <1>2, <1>3, <2>1
<1>5. RowOnScreen' /\ MainRowOnScreen' /\ HandlerRowOnScreen'
  BY <1>2 DEF RowOnScreen, MainRowOnScreen, HandlerRowOnScreen
<1>6. OneWriter'
  BY <1>2 DEF OneWriter
<1>7. ReadsCurrent'
  BY <1>2 DEF ReadsCurrent
<1>8. PortCurrent'
  BY <1>2 DEF PortCurrent, OneWriter
<1>9. HardwareCursor'
  <2> SUFFICES ASSUME Idle', ~disturbed
               PROVE  crtc'[14] * Base + crtc'[15] = row * Width + column
    BY <1>2 DEF HardwareCursor
  <2>1. at[a] = "low" /\ \A b \in Actors : b # a => at[b] = "idle"
    BY <1>2 DEF Idle
  <2>2. index = 15 /\ crtc[14] = high /\ p = row * Width + column
    BY <2>1 DEF PortCurrent, ReadsCurrent
  <2>3. crtc'[14] = high /\ crtc'[15] = low
    BY <1>2, <2>1, <2>2
  <2>4. row < Height
    BY <2>1 DEF RowOnScreen
  <2>5. p < Base * Base
    BY <2>2, <2>4, PositionFits
  <2>6. high * Base + low = p
    BY <1>1, <2>5, HalvesOf
  <2> HIDE DEF high, low, p
  <2> QED
    BY <2>2, <2>3, <2>6
<1> QED
  BY <1>4, <1>5, <1>6, <1>7, <1>8, <1>9

(* Any step of either actor. *)
LEMMA StepStep ==
  ASSUME IInv, NEW a \in Actors, Step(a)
  PROVE  IInv'
BY PutEntryStep, AdvanceStep, ZeroColumnStep, NextRowStep, ScrollRowStep, ScrollEndStep,
   RereadStep, PositionStep, SelectRegisterStep, WriteRegisterStep
   DEF Step

-----------------------------------------------------------------------------
(* Characters begun, the screen cleared *)

(* An actor that begins a character reads the row, and is alone or         *)
(* disturbs the other.                                                     *)
LEMMA PutcharStep ==
  ASSUME IInv, NEW a \in Actors, NEW ch \in Characters, Putchar(a, ch)
  PROVE  IInv'
<1> USE Sizes DEF IInv, Types, Registers, Actors, Labels, BeforeRow, AtRegisters, Locals
<1> USE DEF Putchar, At, Runs, Goto, cursor, port, keyboard, history, Idle
<1>1. Types'
  <2>1. disturbed' \in BOOLEAN
    BY Zenon
  <2>2. local' \in [Actors -> Locals]
    <3>1. [local[a] EXCEPT !.c = ch, !.r = row] \in Locals
      OBVIOUS
    <3>2. local' = [local EXCEPT ![a] = [local[a] EXCEPT !.c = ch, !.r = row]]
      BY ONLY Putchar(a, ch) DEF Putchar
    <3> QED
      BY ONLY <3>1, <3>2, local \in [Actors -> Locals]
  <2>3. at' \in [Actors -> Labels] /\ UNCHANGED <<row, column, index, crtc>>
    OBVIOUS
  <2> QED
    BY ONLY Types, <2>1, <2>2, <2>3 DEF Types
<1>2. RowOnScreen' /\ MainRowOnScreen' /\ HandlerRowOnScreen'
  BY DEF RowOnScreen, MainRowOnScreen, HandlerRowOnScreen
<1>3. OneWriter'
  BY DEF OneWriter, Idle
<1>4. ReadsCurrent'
  BY DEF ReadsCurrent, OneWriter, Idle
<1>5. PortCurrent'
  BY DEF PortCurrent, ReadsCurrent, OneWriter, Idle
<1>6. HardwareCursor'
  BY DEF HardwareCursor, Idle
<1> QED
  BY <1>1, <1>2, <1>3, <1>4, <1>5, <1>6

(* A cleared screen has both cursors in its first cell. *)
LEMMA ClearStep ==
  ASSUME IInv, Clear
  PROVE  IInv'
<1> USE Sizes DEF IInv, Types, Registers, Actors, Labels, BeforeRow, AtRegisters, Locals
<1> USE DEF Clear, At, Runs, Goto, cursor, port, keyboard, history, Idle
<1>1. Types'
  <2>1. disturbed' \in BOOLEAN
    BY Zenon
  <2>2. /\ row' \in Nat /\ column' \in 0 .. Width - 1 /\ index' \in Registers
        /\ crtc' \in [{14, 15} -> Nat] /\ UNCHANGED <<at, local>>
    OBVIOUS
  <2> QED
    BY ONLY Types, <2>1, <2>2 DEF Types
<1>2. RowOnScreen' /\ MainRowOnScreen' /\ HandlerRowOnScreen'
  BY DEF RowOnScreen, MainRowOnScreen, HandlerRowOnScreen
<1>3. OneWriter'
  BY DEF OneWriter, Idle
<1>4. ReadsCurrent'
  BY DEF ReadsCurrent, OneWriter, Idle
<1>5. PortCurrent'
  BY DEF PortCurrent, ReadsCurrent, OneWriter, Idle
<1>6. HardwareCursor'
  BY DEF HardwareCursor, Idle
<1> QED
  BY <1>1, <1>2, <1>3, <1>4, <1>5, <1>6

(* A key prints a character or changes a flag the cursor does not depend   *)
(* on.                                                                     *)
LEMMA KeyStep ==
  ASSUME IInv, Key
  PROVE  IInv'
<1>1. \A k, s, l : Character(k, s, l) \in Characters
  BY DEF Character, Characters
<1>2. PICK k \in Keys : KeyDown(k) \/ KeyUp(k)
  BY DEF Key
<1>3. CASE UNCHANGED <<cursor, cells, port, at, local, history>>
  BY <1>3 DEF IInv, Types, RowOnScreen, MainRowOnScreen, HandlerRowOnScreen, OneWriter,
     ReadsCurrent, PortCurrent, HardwareCursor, Idle, cursor, port, history
<1>4. CASE \E ch \in Characters : Putchar("irq", ch)
  BY <1>4, PutcharStep DEF Actors
<1> QED
  BY <1>1, <1>2, <1>3, <1>4 DEF KeyDown, KeyUp

-----------------------------------------------------------------------------
(* The theorems *)

(* vga_textmode_initialize leaves an idle screen, and the controller's     *)
(* registers as they were.                                                 *)
LEMMA InitIInv == Init => IInv
<1> SUFFICES ASSUME Init PROVE IInv
  OBVIOUS
<1>1. NoLocals \in Locals
  BY Sizes DEF NoLocals, Locals, Characters
<1>2. disturbed = TRUE /\ index \in Registers
  BY Zenon DEF Init
<1>3. Types
  <2>1. row \in Nat /\ column \in 0 .. Width - 1
    BY Sizes DEF Init
  <2>2. crtc \in [{14, 15} -> Nat]
    BY Sizes DEF Init
  <2>3. at \in [Actors -> Labels]
    BY DEF Init, Labels
  <2>4. local \in [Actors -> Locals]
    BY <1>1 DEF Init
  <2>5. disturbed \in BOOLEAN
    BY <1>2, Zenon
  <2> QED
    BY <1>2, <2>1, <2>2, <2>3, <2>4, <2>5 DEF Types
<1>4. row = 0 /\ \A a \in Actors : at[a] = "idle"
  BY DEF Init
<1>5. RowOnScreen /\ MainRowOnScreen /\ HandlerRowOnScreen
  BY <1>4, Sizes DEF RowOnScreen, MainRowOnScreen, HandlerRowOnScreen, Actors, BeforeRow
<1>6. OneWriter /\ ReadsCurrent /\ PortCurrent /\ HardwareCursor
  BY <1>2, Zenon DEF OneWriter, ReadsCurrent, PortCurrent, HardwareCursor
<1> QED
  BY <1>3, <1>5, <1>6 DEF IInv

(* Every step keeps the invariant. *)
LEMMA NextIInv == IInv /\ [Next]_vars => IInv'
<1> SUFFICES ASSUME IInv, [Next]_vars
             PROVE  IInv'
  OBVIOUS
<1>1. CASE \E a \in Actors : Step(a)
  BY <1>1, StepStep
<1>2. CASE Writestring
  BY <1>2, PutcharStep DEF Writestring, Actors, Characters
<1>3. CASE Key
  BY <1>3, KeyStep
<1>4. CASE Clear
  BY <1>4, ClearStep
<1>5. CASE UNCHANGED vars
  BY <1>5 DEF vars, IInv, Types, RowOnScreen, MainRowOnScreen, HandlerRowOnScreen, OneWriter,
     ReadsCurrent, PortCurrent, HardwareCursor, Idle, cursor, port, history
<1> QED
  BY <1>1, <1>2, <1>3, <1>4, <1>5 DEF Next

(* The inductive invariant holds of every behaviour of the console. *)
THEOREM ConsoleInvariant == Spec => []IInv
BY InitIInv, NextIInv, PTL DEF Spec

(* Wherever a key's echo interrupts the main flow's character, between any *)
(* two accesses of vga_textmode_putchar to the row it keeps without a      *)
(* lock: when both are done the row is on the screen.                      *)
THEOREM ConsoleCursorOnScreen == Spec => []CursorOnScreen
<1>1. IInv => CursorOnScreen
  BY DEF IInv, RowOnScreen, CursorOnScreen, Idle
<1> QED
  BY <1>1, ConsoleInvariant, PTL

(* The two registers of the hardware cursor make up the position of the    *)
(* next character, unless none was printed alone yet or the last one was   *)
(* printed in the middle of another: whatever the boot loader or           *)
(* interrupted calls left in the controller, one uninterrupted             *)
(* vga_textmode_putchar, or vga_textmode_clear, mends it.                  *)
THEOREM ConsoleHardwareCursor == Spec => []HardwareCursor
<1>1. IInv => HardwareCursor
  BY DEF IInv
<1> QED
  BY <1>1, ConsoleInvariant, PTL
=============================================================================
