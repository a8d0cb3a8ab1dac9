-------------------------------- MODULE Melt --------------------------------
(***************************************************************************)
(* e1-melt.h: the clock that turns milliseconds into ticks of 35 a second,  *)
(* the columns that fall, and where a pixel of the composed picture comes   *)
(* from.  Operators only; Media drives them.                                *)
(***************************************************************************)
EXTENDS Integers

CONSTANTS
  COLUMNS,    \* E1_MELT_COLUMNS, 320
  ROWS,       \* E1_MELT_LOGICAL_ROWS, 200
  DELAY,      \* a column waits fewer ticks than this, 16
  KNEE, FAST, \* the row from which a column falls at a steady speed, 16, and that speed, 8
  RATE,       \* E1_MELT_RATE_HZ, 35
  SECOND,     \* milliseconds of a second, 1000
  MAX_TICKS   \* E1_MELT_MAX_TICKS_PER_UPDATE, 200

ASSUME MeltAssumption ==
    /\ COLUMNS \in Nat \ {0} /\ ROWS \in Nat \ {0} /\ DELAY \in Nat \ {0}
    /\ KNEE \in Nat /\ FAST \in Nat \ {0}
    /\ RATE \in Nat \ {0} /\ SECOND \in Nat \ {0} /\ MAX_TICKS \in Nat \ {0}

Columns == 0 .. COLUMNS - 1
Rows == [Columns -> (1 - DELAY) .. ROWS]

(* e1_melt_clock_ticks: the ticks of an update, and the clock after it. *)
Clock == [last_ms : Nat, remainder : Nat]
Scaled(clock, now) == (now - clock.last_ms) * RATE + clock.remainder
Starts(clock) == clock.last_ms = 0
Late(clock, now) == now - clock.last_ms > (SECOND * MAX_TICKS) \div RATE
Ticks(clock, now) ==
    CASE Starts(clock) \/ now <= clock.last_ms -> 0
      [] ~Starts(clock) /\ now > clock.last_ms /\ Late(clock, now) -> MAX_TICKS
      [] OTHER -> Scaled(clock, now) \div SECOND
ClockAfter(clock, now) ==
    CASE Starts(clock) -> [clock EXCEPT !.last_ms = now]
      [] ~Starts(clock) /\ now <= clock.last_ms -> clock
      [] ~Starts(clock) /\ now > clock.last_ms /\ Late(clock, now) -> [last_ms |-> now, remainder |-> 0]
      [] OTHER -> [last_ms |-> now, remainder |-> Scaled(clock, now) % SECOND]

(* e1_melt_init: delays that differ by at most one between neighbours. *)
MeltStart ==
    {row \in [Columns -> (1 - DELAY) .. 0] : \A c \in 1 .. COLUMNS - 1 : row[c] - row[c - 1] \in {-1, 0, 1}}

(* e1_melt_advance, one tick of one column: it waits, gathers speed, falls. *)
Fall(row) ==
    LET next == row + (IF row < KNEE THEN row + 1 ELSE FAST) IN
    CASE row < 0 -> row + 1
      [] row \in 0 .. ROWS - 1 -> IF next > ROWS THEN ROWS ELSE next
      [] OTHER -> row
Advance(rows) == [c \in Columns |-> Fall(rows[c])]
AdvanceBy(rows, ticks) ==
    LET after[n \in 0 .. ticks] == IF n = 0 THEN rows ELSE Advance(after[n - 1]) IN after[ticks]
Done(rows) == \A c \in Columns : rows[c] >= ROWS

(* e1_melt_scaled_row, and the row of the falling picture that the composition
   reads for row y of an output column; above drop it reads the picture behind. *)
ScaledRow(row, height) ==
    CASE row <= 0 -> 0 [] row >= ROWS -> height [] OTHER -> (row * height) \div ROWS
Behind(rows, c, y, height) == y < ScaledRow(rows[c], height)
FallingRow(rows, c, y, height) == y - ScaledRow(rows[c], height)
ColumnOf(x, width) == (x * COLUMNS) \div width
=============================================================================
