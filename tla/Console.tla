------------------------------- MODULE Console -------------------------------
(***************************************************************************)
(* The text console of kernel/kernel_main64.cpp: clear_screen, scroll_up   *)
(* and putchar on the VGA text screen.  print, print_hex, print_dec and    *)
(* sys_write are loops of putchar.  Colours are left out.                  *)
(***************************************************************************)
EXTENDS Naturals

CONSTANTS VGA_WIDTH,    \* 80 in the build
          VGA_HEIGHT,   \* 25 in the build
          Tab,          \* 8 in the build
          Chars,        \* printable characters
          MaxX          \* bound on the cursor, which tabs move without limit

ConsoleAssumption ==
    /\ VGA_WIDTH \in Nat \ {0} /\ VGA_HEIGHT \in Nat \ {0}
    /\ Tab \in Nat \ {0}
    /\ MaxX \in Nat /\ MaxX >= VGA_WIDTH + Tab
    /\ " " \notin Chars

Blank == " "

Row  == 0 .. VGA_HEIGHT - 1
Col  == 0 .. VGA_WIDTH - 1

VARIABLES screen,      \* VGA_MEMORY, row by row
          g_cursor_x,
          g_cursor_y,
          returned,    \* ghost: a carriage return on the current row
          last         \* ghost: the last printable character put, Blank if the
                       \* last call put none

vars == <<screen, g_cursor_x, g_cursor_y, returned, last>>

BlankScreen == [r \in Row |-> [c \in Col |-> Blank]]

Init ==
    /\ screen = BlankScreen
    /\ g_cursor_x = 0 /\ g_cursor_y = 0
    /\ returned = FALSE
    /\ last = Blank

ClearScreen ==
    /\ screen' = BlankScreen
    /\ g_cursor_x' = 0 /\ g_cursor_y' = 0
    /\ returned' = FALSE
    /\ last' = Blank

\* Mutant: the last row keeps its text.
ScrolledNoClear(s) == [r \in Row |-> IF r + 1 \in Row THEN s[r + 1] ELSE s[r]]

\* scroll_up moves every row up by one and blanks the last one.
Scrolled(s) == [r \in Row |-> IF r + 1 \in Row THEN s[r + 1] ELSE [c \in Col |-> Blank]]

\* The end of putchar: scroll when the cursor has left the screen.
Settle(s, y) ==
    IF y >= VGA_HEIGHT
      THEN screen' = Scrolled(s) /\ g_cursor_y' = VGA_HEIGHT - 1
      ELSE screen' = s /\ g_cursor_y' = y

NewLine ==
    /\ g_cursor_x' = 0
    /\ Settle(screen, g_cursor_y + 1)
    /\ returned' = FALSE
    /\ last' = Blank

CarriageReturn ==
    /\ g_cursor_x' = 0
    /\ Settle(screen, g_cursor_y)
    /\ returned' = TRUE
    /\ last' = Blank

\* (x + 8) & ~7
TabStop ==
    /\ g_cursor_x + Tab <= MaxX
    /\ g_cursor_x' = ((g_cursor_x + Tab) \div Tab) * Tab
    /\ Settle(screen, g_cursor_y)
    /\ UNCHANGED returned
    /\ last' = Blank

\* A store past the last row misses the screen.
Stored(s, x, y, ch) == IF y \in Row THEN [s EXCEPT ![y][x] = ch] ELSE s

PutChar(ch) ==
    LET wraps == g_cursor_x >= VGA_WIDTH
        x == IF wraps THEN 0 ELSE g_cursor_x
        y == IF wraps THEN g_cursor_y + 1 ELSE g_cursor_y
    IN  /\ g_cursor_x' = x + 1
        /\ Settle(Stored(screen, x, y, ch), y)
        /\ returned' = (returned /\ ~wraps)
        /\ last' = ch

Next == \/ ClearScreen \/ NewLine \/ CarriageReturn \/ TabStop
        \/ \E ch \in Chars : PutChar(ch)

Spec == Init /\ [][Next]_vars

-----------------------------------------------------------------------------
TypeOK ==
    /\ screen \in [Row -> [Col -> Chars \cup {Blank}]]
    /\ g_cursor_x \in 0 .. MaxX
    /\ g_cursor_y \in Row
    /\ returned \in BOOLEAN
    /\ last \in Chars \cup {Blank}

(***************************************************************************)
(* Output never runs over text: whatever mixture of characters, tabs,      *)
(* newlines, wraps and scrolls came before, the cells below the cursor are *)
(* blank, and so are the ones from the cursor to the end of its row unless *)
(* a carriage return moved it back.                                        *)
(***************************************************************************)
BlankAhead ==
    \A r \in Row, c \in Col :
        (r > g_cursor_y \/ (r = g_cursor_y /\ ~returned /\ c >= g_cursor_x))
            => screen[r][c] = Blank

(***************************************************************************)
(* A printable character that putchar has put is on the screen, left of    *)
(* the cursor.  Violated: a character that wraps off the last row is       *)
(* stored below the screen before scroll_up runs, and is lost.             *)
(***************************************************************************)
CharVisible ==
    last # Blank => /\ g_cursor_x > 0
                    /\ screen[g_cursor_y][g_cursor_x - 1] = last
=============================================================================
