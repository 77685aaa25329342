------------------------------ MODULE Console ------------------------------
(***************************************************************************)
(* The text console (drivers/vga/textmode.c) and its two writers: the main *)
(* flow, and the keyboard's interrupt handler (drivers/pc/pckbd.c), which  *)
(* echoes a key with printf.  Both end in vga_textmode_putchar, which      *)
(* keeps its cursor in global variables without any lock.                  *)
(*                                                                         *)
(* A step is one access to those variables, to the video memory or to the  *)
(* controller's ports.  The variables are not volatile.  As in the build   *)
(* (-O2), putchar reads the row once, counts up and tests the row it has   *)
(* in a register, and reads it again only after a scroll; the column is    *)
(* read to store the character and again to place the hardware cursor.     *)
(*                                                                         *)
(* Colours are left out.  Keys are a letter, a digit, Enter, Shift and     *)
(* Caps Lock; the US layout's other keys behave like one of these.         *)
(***************************************************************************)
EXTENDS Naturals, Sequences, SequencesExt

CONSTANTS
  Width, Height,   \* VGA_WIDTH and VGA_HEIGHT (80 and 25)
  VideoRows,       \* bound: rows of video memory looked at, the screen's included
  Base,            \* values of one cursor register (256)
  MaxText          \* bound: characters printed

ASSUME ScreenAssumption ==
  /\ {Width, Height, VideoRows, Base, MaxText} \subseteq Nat \ {0}
  /\ VideoRows > Height + MaxText
  /\ Width * Height <= Base * Base   \* two registers hold every position on the screen

Newline == "\n"
Blank == " "
Stale == "?"       \* what video memory below the screen holds
Nothing == "0"     \* the entry 0 of a scancode table

Actors == {"main", "irq"}

VARIABLES
  row, column,     \* vga_textmode_row, vga_textmode_column
  cells,           \* video memory from the screen's first character on
  index, crtc,     \* the controller's selected register, its registers 14 and 15
                   \*   (the cursor's position, high and low)
  at,              \* where each actor is in vga_textmode_putchar
  local,           \* its parameter c, the row r and the column x it has read, the
                   \* row y that vga_textmode_scroll copies next, and cur_pos
  pckbd_is_shift, pckbd_is_capslock,
  text,            \* what was printed since the screen was last clear
  interrupted,     \* a character was printed in the middle of another
  disturbed        \* no character was begun and ended alone since another met
                   \*   one, or since boot, and the screen was not cleared

cursor == <<row, column>>
port == <<index, crtc>>
keyboard == <<pckbd_is_shift, pckbd_is_capslock>>
history == <<text, interrupted, disturbed>>
vars == <<cursor, cells, port, at, local, keyboard, history>>

BlankScreen == [j \in 0 .. VideoRows * Width - 1 |-> IF j < Height * Width THEN Blank ELSE Stale]

(* Registers of the controller: the cursor's two, and 0 for all others. *)
Registers == {0, 14, 15}

NoLocals == [c |-> Blank, r |-> 0, x |-> 0, y |-> 0, cur_pos |-> 0]

(* vga_textmode_initialize.  It writes no port: the controller is as the   *)
(* boot loader left it.                                                    *)
Init ==
  /\ row = 0 /\ column = 0
  /\ cells = BlankScreen
  /\ index \in Registers /\ crtc \in [{14, 15} -> 0 .. Base - 1]
  /\ at = [a \in Actors |-> "idle"]
  /\ local = [a \in Actors |-> NoLocals]
  /\ pckbd_is_shift = FALSE /\ pckbd_is_capslock = FALSE
  /\ text = <<>> /\ interrupted = FALSE /\ disturbed = TRUE

Idle == \A a \in Actors : at[a] = "idle"

(* The handler runs with interrupts disabled: the main flow stands still.  *)
Runs(a) == a = "main" => at["irq"] = "idle"
At(a, l) == at[a] = l /\ Runs(a)
Goto(a, l) == at' = [at EXCEPT ![a] = l]

-----------------------------------------------------------------------------
(* vga_textmode_putchar *)

Putchar(a, ch) ==
  /\ At(a, "idle") /\ Len(text) < MaxText
  /\ local' = [local EXCEPT ![a].c = ch, ![a].r = row]
  /\ text' = Append(text, ch)
  /\ interrupted' = (interrupted \/ ~Idle)
  /\ disturbed' = ~Idle
  /\ Goto(a, IF ch = Newline THEN "zero" ELSE "entry")
  /\ UNCHANGED <<cursor, cells, port>>

(* vga_textmode_putentryat: nothing keeps the index on the screen. *)
PutEntry(a) ==
  /\ At(a, "entry")
  /\ local' = [local EXCEPT ![a].x = column]
  /\ cells' = [cells EXCEPT ![local[a].r * Width + column] = local[a].c]
  /\ Goto(a, "advance")
  /\ UNCHANGED <<cursor, port, keyboard, history>>

(* if (vga_textmode_row == VGA_HEIGHT), on the row it has in a register. *)
AfterRow(r) == IF r = Height THEN "scroll" ELSE "position"

(* ++vga_textmode_column, and back to 0 behind the last one of a row. *)
Advance(a) ==
  /\ At(a, "advance")
  /\ column' = IF local[a].x + 1 = Width THEN 0 ELSE local[a].x + 1
  /\ Goto(a, IF local[a].x + 1 = Width THEN "next_row" ELSE AfterRow(local[a].r))
  /\ UNCHANGED <<row, cells, port, local, keyboard, history>>

(* vga_textmode_column = 0, for a newline and at the end of a scroll. *)
ZeroColumn(a) ==
  /\ At(a, "zero") \/ At(a, "scroll_zero")
  /\ column' = 0
  /\ Goto(a, IF at[a] = "zero" THEN "next_row" ELSE "reread")
  /\ UNCHANGED <<row, cells, port, local, keyboard, history>>

(* Mutant: the row is read again before it is counted up. *)
NextRow_Reread(a) ==
  /\ At(a, "next_row")
  /\ row' = row + 1
  /\ local' = [local EXCEPT ![a].r = @ + 1]
  /\ Goto(a, AfterRow(local[a].r + 1))
  /\ UNCHANGED <<column, cells, port, keyboard, history>>

(* ++vga_textmode_row *)
NextRow(a) ==
  /\ At(a, "next_row")
  /\ row' = local[a].r + 1
  /\ local' = [local EXCEPT ![a].r = @ + 1]
  /\ Goto(a, AfterRow(local[a].r + 1))
  /\ UNCHANGED <<column, cells, port, keyboard, history>>


(* One turn of the outer loop of vga_textmode_scroll.  Its y never is      *)
(* VGA_HEIGHT, so the last row is taken from below the screen.             *)
ScrollRow(a) ==
  /\ At(a, "scroll") /\ local[a].y < Height
  /\ cells' = [j \in DOMAIN cells |-> IF j \div Width = local[a].y THEN cells[j + Width] ELSE cells[j]]
  /\ local' = [local EXCEPT ![a].y = @ + 1]
  /\ UNCHANGED <<cursor, port, at, keyboard, history>>

ScrollEnd(a) ==
  /\ At(a, "scroll") /\ local[a].y = Height
  /\ row' = Height - 1
  /\ Goto(a, "scroll_zero")
  /\ UNCHANGED <<column, cells, port, local, keyboard, history>>

(* After the call of vga_textmode_scroll the row is read again. *)
Reread(a) ==
  /\ At(a, "reread")
  /\ local' = [local EXCEPT ![a].r = row]
  /\ Goto(a, "position")
  /\ UNCHANGED <<cursor, cells, port, keyboard, history>>

Position(a) ==
  /\ At(a, "position")
  /\ local' = [local EXCEPT ![a].cur_pos = local[a].r * Width + column]
  /\ Goto(a, "select_high")
  /\ UNCHANGED <<cursor, cells, port, keyboard, history>>

(* outportb(0x3D4, ...): which register the next write goes to. *)
SelectRegister(a) ==
  /\ At(a, "select_high") \/ At(a, "select_low")
  /\ index' = IF at[a] = "select_high" THEN 14 ELSE 15
  /\ Goto(a, IF at[a] = "select_high" THEN "high" ELSE "low")
  /\ UNCHANGED <<cursor, cells, crtc, local, keyboard, history>>

(* Mutant: the low byte is written to both registers. *)
WriteRegister_LowTwice(a) ==
  /\ At(a, "high") \/ At(a, "low")
  /\ crtc' = [crtc EXCEPT ![index] = local[a].cur_pos % Base]
  /\ Goto(a, IF at[a] = "high" THEN "select_low" ELSE "idle")
  /\ local' = [local EXCEPT ![a] = IF at[a] = "high" THEN @ ELSE NoLocals]
  /\ UNCHANGED <<cursor, cells, index, keyboard, history>>

(* outportb(0x3D5, ...). *)
WriteRegister(a) ==
  /\ At(a, "high") \/ At(a, "low")
  /\ crtc' = [crtc EXCEPT ![index] =
                IF at[a] = "high" THEN (local[a].cur_pos \div Base) % Base ELSE local[a].cur_pos % Base]
  /\ Goto(a, IF at[a] = "high" THEN "select_low" ELSE "idle")
  /\ local' = [local EXCEPT ![a] = IF at[a] = "high" THEN @ ELSE NoLocals]
  /\ UNCHANGED <<cursor, cells, index, keyboard, history>>

Step(a) ==
  \/ PutEntry(a) \/ Advance(a) \/ ZeroColumn(a) \/ NextRow(a)
  \/ ScrollRow(a) \/ ScrollEnd(a) \/ Reread(a)
  \/ Position(a) \/ SelectRegister(a) \/ WriteRegister(a)

-----------------------------------------------------------------------------
(* The main flow prints character by character (vga_textmode_writestring,  *)
(* printf).                                                                *)
Writestring == \E ch \in {Newline, "a"} : Putchar("main", ch) /\ UNCHANGED keyboard

(* vga_textmode_clear, with no character under way: its caller, the        *)
(* terminal, is not started by this kernel.  Bound: only screens no two    *)
(* writers have met on are cleared.                                        *)
Clear ==
  /\ Idle /\ ~interrupted
  /\ row' = 0 /\ column' = 0
  /\ cells' = [j \in DOMAIN cells |-> IF j < Height * Width THEN Blank ELSE cells[j]]
  /\ index' = 15 /\ crtc' = [k \in {14, 15} |-> 0]
  /\ text' = <<>> /\ disturbed' = FALSE
  /\ UNCHANGED <<at, local, keyboard, interrupted>>

(* The four scancode tables: Caps Lock and Shift undo each other on        *)
(* letters, digits and signs follow Shift alone, and Shift and Caps Lock   *)
(* themselves print nothing.                                               *)
Keys == {"letter", "digit", "enter", "shift", "capslock"}
Character(k, shift, capslock) ==
  CASE k = "letter" -> IF shift # capslock THEN "A" ELSE "a"
    [] k = "digit" -> IF shift THEN "!" ELSE "1"
    [] k = "enter" -> Newline
    [] OTHER -> Nothing

(* pckbd_irq_input_handler for a key pressed, or repeated while held. *)
KeyDown(k) ==
  /\ at["irq"] = "idle"
  /\ pckbd_is_shift' = IF k = "shift" THEN ~pckbd_is_shift ELSE pckbd_is_shift
  /\ pckbd_is_capslock' = IF k = "capslock" THEN ~pckbd_is_capslock ELSE pckbd_is_capslock
  /\ LET ch == Character(k, pckbd_is_shift', pckbd_is_capslock')
     IN  IF ch = Nothing THEN UNCHANGED <<cursor, cells, port, at, local, history>>
         ELSE Putchar("irq", ch)

(* For a key released, either Shift key toggles the flag again. *)
KeyUp(k) ==
  /\ at["irq"] = "idle" /\ k = "shift"
  /\ pckbd_is_shift' = ~pckbd_is_shift
  /\ UNCHANGED <<cursor, cells, port, at, local, pckbd_is_capslock, history>>

Key == \E k \in Keys : KeyDown(k) \/ KeyUp(k)

(* The controller delivers a key at any moment, in the middle of another   *)
(* character of the main flow too.                                         *)
Next == (\E a \in Actors : Step(a)) \/ Writestring \/ Key \/ Clear

Spec == Init /\ [][Next]_vars

-----------------------------------------------------------------------------
(* The lines of a text, the last one being where the next character goes:  *)
(* a newline begins one, and so does the character that fills one.         *)
Lines(t) ==
  LET put(lines, ch) ==
        LET grown == [lines EXCEPT ![Len(lines)] = Append(@, ch)]
        IN  IF ch = Newline THEN Append(lines, <<>>)
            ELSE IF Len(Last(grown)) = Width THEN Append(grown, <<>>)
            ELSE grown
  IN  FoldLeft(put, << <<>> >>, t)


(* Once a character was printed alone or the screen was cleared, the       *)
(* hardware cursor is where the next character goes, unless the last one   *)
(* was printed in the middle of another: what a key echoed between the     *)
(* selection of a register and the write to it leaves behind is mended by  *)
(* the next character that nothing interrupts.  Before the first character *)
(* nothing has placed it.                                                  *)
HardwareCursor == Idle /\ ~disturbed =>
  crtc[14] * Base + crtc[15] = row * Width + column

(* The screen is scrolled when all rows are taken up, wherever a key       *)
(* arrives: a writer may find the row beyond the last one while the other  *)
(* is about to scroll, but when both are done the cursor is on the screen. *)
CursorOnScreen == Idle => row < Height
=============================================================================
