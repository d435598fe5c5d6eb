------------------------------ MODULE Terminal ------------------------------
(***************************************************************************)
(* The keyboard and the screen: kbdgetc of drivers/src/kbd.rs, the line    *)
(* editor consoleintr and the CGA output of console/src/lib.rs, and        *)
(* consolewrite of kernel/src/glue.rs.                                     *)
(*                                                                         *)
(* A key sends one byte, or two when it is one of the extended keys; the   *)
(* controller holds one byte at a time, so an interrupt may find half of   *)
(* a key.                                                                  *)
(* A program's characters are written with no lock held, and with          *)
(* interrupts on when its call has slept: a key echoed, or another         *)
(* program's character written, between the first and the last access of   *)
(* cgaputc to the cursor's index and data ports makes the position read or *)
(* set any 16-bit number.  The screen is then torn, and followed no more.  *)
(* The serial port never appears: UART_EXISTS is set by uartearlyinit,     *)
(* which nobody calls, and without it uartputc and uartgetc do nothing.    *)
(* For the same reason consoleread finds nothing, and nobody moves         *)
(* INPUT.r.                                                                *)
(***************************************************************************)
EXTENDS Naturals

CONSTANTS INPUT_BUF_SIZE,
          COLS, ROWS,   \* the part of the screen in use, 80 by 24
          Keys          \* scan codes of the keys there are, with 256 added
                        \* for an extended key

\* Scan codes are seven bits wide, and E0 with the top bit taken off is no key.
ASSUME TermConstants == /\ {INPUT_BUF_SIZE, COLS, ROWS} \subseteq Nat \ {0}
                        /\ Keys \subseteq ((1..127) \cup (257..383)) \ {\h60, \h160}

VARIABLES term,         \* SHIFT_STATE, INPUT, the screen and its cursor
          out,          \* the character a program is in the middle of writing
          torn,         \* something fell into the middle of it
          port,         \* the byte in the keyboard's data port, or 0
          half,         \* the byte that follows the E0 just sent, or 0
          last,         \* whether a key of this modifier last went down
          mixed         \* a program wrote while the line was being edited

termVars == <<term, out, torn, port, half, last, mixed>>

Blank == " "
Cells == 0..(COLS * (ROWS + 1) - 1)     \* with the row below

-----------------------------------------------------------------------------
\* The tables of kbd.rs, for the keys d, enter, backspace and up.
SHIFTCODE(d)  == IF d \in {\h1D, \h9D} THEN {"CTL"} ELSE IF d \in {\h2A, \h36} THEN {"SHIFT"}
                 ELSE IF d \in {\h38, \hB8} THEN {"ALT"} ELSE {}
TOGGLECODE(d) == IF d = \h3A THEN {"CAPSLOCK"} ELSE {}

NORMALMAP(d) == CASE d = \h20 -> "d" [] d = \h0E -> "bs" [] d \in {\h1C, \h9C} -> "nl" [] d = \hC8 -> "up" [] OTHER -> "no"
SHIFTMAP(d)  == IF d = \h20 THEN "D" ELSE NORMALMAP(d)
CTLMAP(d)    == CASE d = \h20 -> "^D" [] d = \h0E -> "no" [] OTHER -> NORMALMAP(d)

\* Variant: the escape is not forgotten when an extended key is released.
ReleasedKeepsEscape(s, data) ==
  s \ SHIFTCODE(IF "E0ESC" \in s THEN data ELSE data - 128)

\* A key goes up.
Released(s, data) ==
  s \ (SHIFTCODE(IF "E0ESC" \in s THEN data ELSE data - 128) \cup {"E0ESC"})

\* A key goes down: the shift state, and the character.
Pressed(s, data) == LET t == (s \ {"E0ESC"}) \cup SHIFTCODE(data)
                    IN (t \ TOGGLECODE(data)) \cup (TOGGLECODE(data) \ t)
Char(s, data) ==
  LET c == IF "CTL" \in s THEN CTLMAP(data) ELSE IF "SHIFT" \in s THEN SHIFTMAP(data) ELSE NORMALMAP(data)
  IN IF "CAPSLOCK" \notin s THEN c ELSE CASE c = "d" -> "D" [] c = "D" -> "d" [] OTHER -> c

-----------------------------------------------------------------------------
\* Variant: the screen scrolls one character late.
cgaputcLate(t, c) ==
  LET pos  == CASE c = "nl" -> t.pos + (COLS - (t.pos % COLS))
                [] c = "bs" -> IF t.pos > 0 THEN t.pos - 1 ELSE 0
                [] OTHER    -> t.pos + 1
      crt  == IF c \in {"nl", "bs"} THEN t.crt ELSE [t.crt EXCEPT ![t.pos] = c]
      full == pos > ROWS * COLS
      new  == IF full THEN pos - COLS ELSE pos
  IN [t EXCEPT !.pos = new,
               !.crt = [i \in Cells |-> IF i = new THEN Blank
                                        ELSE IF full /\ i < (ROWS - 1) * COLS /\ i < new THEN crt[i + COLS]
                                        ELSE IF full /\ i \in new..(ROWS * COLS - 1) THEN Blank ELSE crt[i]]]

\* cgaputc: the character, the scrolling, and the cell under the cursor.
cgaputc(t, c) ==
  LET pos  == CASE c = "nl" -> t.pos + (COLS - (t.pos % COLS))
                [] c = "bs" -> IF t.pos > 0 THEN t.pos - 1 ELSE 0
                [] OTHER    -> t.pos + 1
      crt  == IF c \in {"nl", "bs"} THEN t.crt ELSE [t.crt EXCEPT ![t.pos] = c]
      full == pos \div COLS >= ROWS
      new  == IF full THEN pos - COLS ELSE pos
  IN [t EXCEPT !.pos = new,
               !.crt = [i \in Cells |-> IF i = new THEN Blank
                                        ELSE IF full /\ i < (ROWS - 1) * COLS /\ i < new THEN crt[i + COLS]
                                        ELSE IF full /\ i \in new..(ROWS * COLS - 1) THEN Blank ELSE crt[i]]]

\* What is on a screen that is torn is not followed.
Follow(t, lost) == IF lost THEN [t EXCEPT !.pos = 0, !.crt = [i \in Cells |-> Blank]] ELSE t

\* Variant: a backspace stops at what has been read, and not at the line.
EraseFurther(t) == IF t.e # t.r THEN cgaputc([t EXCEPT !.e = @ - 1], "bs") ELSE t

Erase(t) == IF t.e # t.w THEN cgaputc([t EXCEPT !.e = @ - 1], "bs") ELSE t

\* One turn of the loop of consoleintr.
consoleintr(t, c) ==
  CASE c \in {"no", "^C"} -> t
    [] c = "bs" -> Erase(t)
    [] OTHER ->
         IF t.e - t.r >= INPUT_BUF_SIZE THEN t
         ELSE LET u == cgaputc([t EXCEPT !.buf[t.e % INPUT_BUF_SIZE] = c, !.e = @ + 1], c)
              IN IF c \in {"nl", "^D"} \/ u.e = u.r + INPUT_BUF_SIZE THEN [u EXCEPT !.w = u.e] ELSE u

\* kbdgetc on one byte, and what consoleintr does with the result.
kbdgetc(t, data) ==
  IF data = \hE0 THEN [t EXCEPT !.shift = @ \cup {"E0ESC"}]
  ELSE IF data >= 128 THEN [t EXCEPT !.shift = Released(@, data)]
  ELSE LET d == IF "E0ESC" \in t.shift THEN data + 128 ELSE data
           s == Pressed(t.shift, d)
       IN consoleintr([t EXCEPT !.shift = s], Char(s, d))

-----------------------------------------------------------------------------
Modifier(key) == SHIFTCODE(IF key >= 256 THEN key - 128 ELSE key)

\* A key goes down (or repeats) or up; the byte is sent, or the E0 before it.
KeyEvent(key, up) ==
  /\ half = 0 /\ port = 0
  /\ LET byte == (key % 256) + (IF up THEN 128 ELSE 0)
     IN IF key >= 256 THEN port' = \hE0 /\ half' = byte
                      ELSE port' = byte /\ half' = 0
  /\ last' = [m \in DOMAIN last |-> IF m \in Modifier(key) THEN ~up ELSE last[m]]
  /\ UNCHANGED <<term, out, torn, mixed>>

SecondByte ==
  /\ half # 0 /\ port = 0
  /\ port' = half /\ half' = 0
  /\ UNCHANGED <<term, out, torn, last, mixed>>

\* kbdintr on the byte there is; another makes another interrupt.  Every
\* character echoed, or erased, moves e.
Kbdintr ==
  /\ port # 0
  /\ LET t == kbdgetc(term, port)
     IN /\ torn' = (torn \/ (out # "none" /\ t.e # term.e))
        /\ term' = Follow(t, torn')
  /\ port' = 0
  /\ mixed' = (mixed /\ term'.w = term.w)
  /\ UNCHANGED <<out, half, last>>

\* consolewrite comes to a character: it reads the cursor's position.
Consolewrite(c) ==
  /\ out' = c
  /\ torn' = (torn \/ out # "none")
  /\ term' = Follow(term, torn')
  /\ UNCHANGED <<port, half, last, mixed>>

\* The character is on the screen and the cursor moved.
Written ==
  /\ out # "none"
  /\ term' = Follow(cgaputc(term, out), torn)
  /\ out' = "none"
  /\ mixed' = (mixed \/ term.e # term.w)
  /\ UNCHANGED <<torn, port, half, last>>

TermInit ==
  /\ term = [shift |-> {}, buf |-> [i \in 0..(INPUT_BUF_SIZE - 1) |-> Blank], r |-> 0, w |-> 0, e |-> 0,
             crt |-> [i \in Cells |-> Blank], pos |-> 0]
  /\ out = "none" /\ torn = FALSE
  /\ port = 0 /\ half = 0
  /\ last = [m \in {"SHIFT", "CTL"} |-> FALSE]
  /\ mixed = FALSE

TermNext == \/ \E key \in Keys, up \in BOOLEAN : KeyEvent(key, up)
            \/ SecondByte \/ Kbdintr
            \/ \E c \in {"x", "nl"} : Consolewrite(c)
            \/ Written

TermSpec == TermInit /\ [][TermNext]_termVars

-----------------------------------------------------------------------------
\* When all bytes of the keys have been read, SHIFT and CTL are on exactly
\* when the last key of that kind to move went down, and no escape is left
\* over: interrupts in the middle of a key, and other keys held or released
\* in between, leave no modifier stuck and lose none.
ModifiersExact ==
  port = 0 /\ half = 0 =>
    "E0ESC" \notin term.shift /\ \A m \in DOMAIN last : m \in term.shift <=> last[m]

\* As long as nothing fell into the middle of a program's character, the
\* line being edited is what stands before the cursor, character for
\* character, over backspaces, wrapped and scrolled rows, unless a program
\* wrote between its characters; behind the cursor the screen is empty.
EditShown ==
  ~torn =>
    /\ term.pos < ROWS * COLS
    /\ \A i \in Cells : i >= term.pos => term.crt[i] = Blank
    /\ ~mixed => \A k \in 1..(term.e - term.w) :
         k <= term.pos => term.crt[term.pos - k] = term.buf[(term.e - k) % INPUT_BUF_SIZE]

\* A line that has been handed over is never changed by the editing after it.
CommittedKept ==
  [][/\ term'.w >= term.w
     /\ \A i \in term.r..(term.w - 1) : term'.buf[i % INPUT_BUF_SIZE] = term.buf[i % INPUT_BUF_SIZE]]_termVars
=============================================================================
