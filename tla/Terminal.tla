------------------------------ MODULE Terminal ------------------------------
(***************************************************************************)
(* The stdout buffer (kernel/kernel_stdio.c) and the terminal that shows   *)
(* it (kernel/kernel_terminal.c).  The main flow writes strings into the   *)
(* buffer; the keyboard handler echoes characters into it; a routine of    *)
(* the timer takes everything out and shows it.  Both handlers run with    *)
(* interrupts disabled, at once as the main flow sees it, but between any  *)
(* two of the main flow's accesses to the buffer and its length.  As the   *)
(* build (-O2) does, a string's length is read once and kept in a          *)
(* register, and a character is stored after the new length.               *)
(*                                                                         *)
(* The modelled system is the one with kernel_terminal_init and the call   *)
(* in putchar compiled in (kernel.c:45, putchar.c:12).  Colours are left   *)
(* out.                                                                    *)
(***************************************************************************)
EXTENDS Naturals, Sequences, SequencesExt

CONSTANTS
  Width, Height,     \* VGA_WIDTH and VGA_HEIGHT (80 and 25)
  MaxBuffer,         \* STDOUT_MAX_BUFFER (256)
  MaxString,         \* bound: characters of one string
  MaxText            \* bound: characters written in all

ASSUME TerminalAssumption ==
  {Width, Height, MaxBuffer, MaxString, MaxText} \subseteq Nat \ {0}

Newline == "\n"
Backspace == "BS"
Esc == "ESC"         \* 27
Nul == "NUL"         \* what an entry of the buffer holds before its first use
Blank == " "
Cursor == "_"
Written == {"a", "[", Newline, Backspace, Esc}
Chars == Written \cup {Nul}

VARIABLES
  kernel_buffer_stdout, kernel_buffer_stdout_length,
  writer,            \* the main flow: the characters left of its string, the length
                     \* in its register, and the access to the buffer it makes next
  terminal,          \* cur_xpos, cur_ypos, the ANSI escape's state, terminal_buffer
  screen,            \* video memory
  budget,            \* bound: characters that may still be written
  since,             \* history: characters stored since the buffer was last taken
  undisturbed,       \*   by a main flow that no handler met in the middle of a string
  shown              \* history: characters the terminal has taken out of the buffer

buffer == <<kernel_buffer_stdout, kernel_buffer_stdout_length>>
display == <<terminal, screen>>
history == <<since, undisturbed, shown>>
vars == <<buffer, writer, display, budget, history>>

Idle == writer.next = "nothing"

(* The screen has Width * Height cells.  terminal_buffer is as long, but   *)
(* the cursor is also drawn right behind it: the last cell here stands for *)
(* what the linker has put there.                                          *)
Cells == 0 .. Width * Height - 1
CellsAndBeyond == 0 .. Width * Height

-----------------------------------------------------------------------------
(* kernel_stdio.c *)

(* Mutant: the buffer is flushed one character late. *)
EntryAt_Late(length) == IF length > MaxBuffer THEN 0 ELSE length

(* Mutant: a full buffer goes on with its last entry. *)
EntryAt_NoFlush(length) == IF length >= MaxBuffer THEN MaxBuffer - 1 ELSE length

(* if (kernel_buffer_stdout_length >= STDOUT_MAX_BUFFER), flush: all that  *)
(* the buffer holds is dropped.                                            *)
EntryAt(length) == IF length >= MaxBuffer THEN 0 ELSE length

Writestring(s) ==
  /\ Idle /\ Len(s) <= budget
  /\ writer' = [left |-> s, length |-> kernel_buffer_stdout_length, next |-> "length"]
  /\ budget' = budget - Len(s)
  /\ UNCHANGED <<buffer, display, history>>

StoreLength ==
  /\ writer.next = "length"
  /\ kernel_buffer_stdout_length' = EntryAt(writer.length) + 1
  /\ writer' = [writer EXCEPT !.length = EntryAt(@) + 1, !.next = "char"]
  /\ UNCHANGED <<kernel_buffer_stdout, display, budget, history>>

StoreChar ==
  /\ writer.next = "char"
  /\ kernel_buffer_stdout' = [kernel_buffer_stdout EXCEPT ![writer.length - 1] = Head(writer.left)]
  /\ since' = Append(since, Head(writer.left))
  /\ writer' = IF Len(writer.left) > 1
               THEN [writer EXCEPT !.left = Tail(@), !.next = "length"]
               ELSE [left |-> <<>>, length |-> 0, next |-> "nothing"]
  /\ UNCHANGED <<kernel_buffer_stdout_length, display, budget, undisturbed, shown>>

(* kernel_buffer_stdout_writechar in the keyboard's handler. *)
Echo(c) ==
  /\ budget > 0 /\ budget' = budget - 1
  /\ kernel_buffer_stdout' = [kernel_buffer_stdout EXCEPT ![EntryAt(kernel_buffer_stdout_length)] = c]
  /\ kernel_buffer_stdout_length' = EntryAt(kernel_buffer_stdout_length) + 1
  /\ since' = Append(since, c)
  /\ undisturbed' = (undisturbed /\ Idle)
  /\ UNCHANGED <<writer, display, shown>>

(* kernel_buffer_stdout_get: what the buffer holds. *)
Pending == [k \in 1 .. kernel_buffer_stdout_length |-> kernel_buffer_stdout[k - 1]]

-----------------------------------------------------------------------------
(* kernel_terminal.c: what each function makes of the terminal's state t.  *)

putentry(t, c, x, y) == [t EXCEPT !.buffer[y * Width + x] = c]

update_cursor(t) == putentry(t, Cursor, t.x, t.y)

(* Mutant: the last row is left as it was. *)
handle_scroll_Unblanked(t) ==
  IF t.y # Height THEN t
  ELSE [t EXCEPT !.y = @ - 1,
                 !.buffer = [j \in CellsAndBeyond |->
                    IF j < Width * (Height - 1) THEN t.buffer[j + Width] ELSE t.buffer[j]]]

handle_scroll(t) ==
  IF t.y # Height THEN t
  ELSE [t EXCEPT !.y = @ - 1,
                 !.buffer = [j \in CellsAndBeyond |->
                    IF j < Width * (Height - 1) THEN t.buffer[j + Width]
                    ELSE IF j \in Cells THEN Blank
                    ELSE t.buffer[j]]]

handle_overflow(t) == IF t.x >= Width THEN [t EXCEPT !.x = 0, !.y = @ + 1] ELSE t

backspace(t) ==
  LET erased == putentry(t, Blank, t.x, t.y)
  IN  IF t.x = 0 THEN erased ELSE [erased EXCEPT !.x = @ - 1]

newline(t) == update_cursor([putentry(t, Blank, t.x, t.y) EXCEPT !.x = 0, !.y = @ + 1])

(* Its other entries are 0. *)
kernel_terminal_escapecodes == {Newline, Backspace, Nul}

(* check_escapecode: ESC begins an ANSI escape, even inside another one. *)
check_escapecode(t, c) ==
  IF c = Esc THEN [t EXCEPT !.is_ansi_escape = TRUE, !.ansi_escape_length = 1] ELSE t

(* The characters that end in ansi_fail: '[' too, as the second case runs  *)
(* into the label.                                                         *)
ansi_fail(t) == [t EXCEPT !.is_ansi_escape = FALSE, !.ansi_escape_length = 0]

handle_escapecode(t, c) ==
  CASE c = Newline -> newline(t)
    [] c = Backspace -> backspace(t)
    [] OTHER -> IF t.is_ansi_escape /\ t.ansi_escape_length = 1 /\ c = Esc
                THEN [t EXCEPT !.ansi_escape_length = 2]
                ELSE ansi_fail(t)

put(t, c) == [putentry(t, c, t.x, t.y) EXCEPT !.x = @ + 1]

(* One turn of the loop of kernel_terminal_update_tick. *)
show(t, c) ==
  LET checked == check_escapecode(t, c)
  IN  IF c \in kernel_terminal_escapecodes \cup {Esc} \/ t.is_ansi_escape
      THEN update_cursor(handle_scroll(handle_escapecode(checked, c)))
      ELSE update_cursor(put(handle_scroll(handle_overflow(t)), c))

(* vga_textmode_writebuffer, after vga_textmode_clear. *)
writebuffer(t) == [j \in Cells |-> t.buffer[j]]

(* kernel_terminal_init.  Nothing was written before it. *)
Init ==
  /\ kernel_buffer_stdout = [j \in 0 .. MaxBuffer - 1 |-> Nul]
  /\ kernel_buffer_stdout_length = 0
  /\ writer = [left |-> <<>>, length |-> 0, next |-> "nothing"]
  /\ terminal = [x |-> 0, y |-> 0, is_ansi_escape |-> FALSE, ansi_escape_length |-> 0,
                 buffer |-> [j \in CellsAndBeyond |-> Blank]]
  /\ screen = [j \in Cells |-> Blank]
  /\ budget = MaxText
  /\ since = <<>> /\ undisturbed = TRUE /\ shown = <<>>

UpdateTick ==
  /\ kernel_buffer_stdout_length # 0
  /\ kernel_buffer_stdout_length' = 0
  /\ terminal' = FoldLeft(show, terminal, Pending)
  /\ screen' = writebuffer(terminal')
  /\ since' = <<>> /\ undisturbed' = Idle
  /\ shown' = shown \o Pending
  /\ UNCHANGED <<kernel_buffer_stdout, writer, budget>>

(* With nothing to show the tick leaves everything as it is. *)
EmptyTick == kernel_buffer_stdout_length = 0 /\ UNCHANGED vars

Next ==
  \/ \E s \in BoundedSeq(Written, MaxString) \ {<<>>} : Writestring(s)
  \/ StoreLength \/ StoreChar
  \/ \E c \in Written : Echo(c)
  \/ UpdateTick \/ EmptyTick

Spec == Init /\ [][Next]_vars

-----------------------------------------------------------------------------
(* However the writers and the tick meet: the length never passes the end  *)
(* of the buffer, the cursor is on the screen or right behind its row, and *)
(* an ANSI escape is under way between two ticks only with its ESC read.   *)
TypeOK ==
  /\ kernel_buffer_stdout \in [0 .. MaxBuffer - 1 -> Chars]
  /\ kernel_buffer_stdout_length \in 0 .. MaxBuffer
  /\ writer \in [left : BoundedSeq(Written, MaxString), length : 0 .. MaxBuffer,
                 next : {"nothing", "length", "char"}]
  /\ terminal \in [x : 0 .. Width, y : 0 .. Height - 1, is_ansi_escape : BOOLEAN,
                   ansi_escape_length : {0, 2},
                   buffer : [CellsAndBeyond -> {"a", "[", Blank, Cursor}]]
  /\ screen \in [Cells -> {"a", "[", Blank, Cursor}]
  /\ budget \in 0 .. MaxText
  /\ since \in Seq(Written) /\ undisturbed \in BOOLEAN /\ shown \in Seq(Chars)

(* What the terminal will be handed next are the characters written since  *)
(* it was last handed any, each once and in order, less whole buffers of   *)
(* the oldest ones: as long as no handler met the main flow inside a       *)
(* string since then, whatever happened before.                            *)
PendingExact == Idle /\ undisturbed =>
  LET dropped == IF since = <<>> THEN 0 ELSE MaxBuffer * ((Len(since) - 1) \div MaxBuffer)
  IN  Pending = SubSeq(since, dropped + 1, Len(since))

(* The meaning of a text: its lines, where a character that finds the last *)
(* line full begins one, as a newline does, and a backspace takes back a   *)
(* character of the last line only.  ESC swallows the next character that  *)
(* is not one of these two.                                                *)
Meaning(t) ==
  LET Onto(lines, c) ==
        IF Len(Last(lines)) = Width THEN Append(lines, <<c>>)
        ELSE [lines EXCEPT ![Len(lines)] = Append(@, c)]
      read(m, c) ==
        CASE c = Newline -> [m EXCEPT !.lines = Append(@, <<>>)]
          [] c = Backspace -> [m EXCEPT !.lines[Len(m.lines)] = SubSeq(@, 1, Len(@) - 1)]
          [] c = Esc -> [m EXCEPT !.escaped = TRUE]
          [] c = Nul \/ (m.escaped /\ c \notin {Newline, Backspace, Esc}) -> [m EXCEPT !.escaped = FALSE]
          [] OTHER -> [m EXCEPT !.lines = Onto(@, c)]
  IN  FoldLeft(read, [lines |-> << <<>> >>, escaped |-> FALSE], t).lines

(* The screen shows the last lines of all that the terminal was handed,    *)
(* with the cursor behind the last character and nothing else on it,       *)
(* through wrapped lines, scrolls, backspaces, escapes cut in two by a     *)
(* tick, and leftovers of a string that a tick met in the middle.          *)
ScreenShowsOutput ==
  LET lines == Meaning(shown)
      hidden == IF Len(lines) > Height THEN Len(lines) - Height ELSE 0
      visible == SubSeq(lines, hidden + 1, Len(lines))
      cursor == (Len(visible) - 1) * Width + Len(Last(visible))
  IN  \A j \in Cells :
        LET l == j \div Width + 1
            k == (j % Width) + 1
        IN  screen[j] = IF l <= Len(visible) /\ k <= Len(visible[l]) THEN visible[l][k]
                        ELSE IF j = cursor /\ shown # <<>> THEN Cursor
                        ELSE Blank
=============================================================================
