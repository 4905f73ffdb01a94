----------------------------- MODULE TextEditor -----------------------------
(***************************************************************************)
(* What a prompt line promises its user: characters are inserted and       *)
(* erased at a point between two characters, the point moves by one        *)
(* character at a time, and submitting empties the line.  While every      *)
(* character of the line is narrow, the cursor is drawn at the point and   *)
(* no key breaks the editor down.  In a line with a wide one the cursor    *)
(* may be drawn elsewhere, a move may be too short to reach the next       *)
(* character, and the editor may break down; still it does nothing else to *)
(* the text.                                                               *)
(***************************************************************************)
EXTENDS Integers, Sequences

CONSTANTS Chars,
          Wide    \* those of them that promise less

VARIABLES
  text,    \* the characters of the line
  point,   \* how many of them are before the place where keys take effect
  column,  \* where the cursor is drawn
  broken   \* the program has ended over a key

vars == <<text, point, column, broken>>

HasWide == \E i \in DOMAIN text : text[i] \in Wide

Aligned == column = point \/ HasWide

Init ==
  /\ text = <<>>
  /\ point = 0
  /\ column = 0
  /\ broken = FALSE

Before == SubSeq(text, 1, point)
After == SubSeq(text, point + 1, Len(text))

Type(c) ==
  /\ text' = Before \o <<c>> \o After
  /\ point' = point + 1
  /\ UNCHANGED broken

Erase ==
  /\ point > 0
  /\ text' = SubSeq(text, 1, point - 1) \o After
  /\ point' = point - 1
  /\ UNCHANGED broken

Move ==
  /\ point' \in (point - 1)..(point + 1) \intersect 0..Len(text)
  /\ UNCHANGED <<text, broken>>

Clear ==
  /\ text' = <<>>
  /\ point' = 0
  /\ UNCHANGED broken

BreakDown ==
  /\ HasWide
  /\ broken' = TRUE
  /\ UNCHANGED <<text, point, column>>

Next ==
  /\ ~ broken
  /\ Move \/ (\E c \in Chars : Type(c)) \/ Erase \/ Clear \/ BreakDown
  /\ Aligned'

Spec == Init /\ [][Next]_vars
=============================================================================
