---------------------------- MODULE PromptEditor ----------------------------
(***************************************************************************)
(* The prompt line of the client (app.rs): a UTF-8 string with a cursor    *)
(* that is an index into it.  A character is its first byte followed by    *)
(* the continuation bytes it needs; String::insert and String::remove      *)
(* panic at an index inside a character, and a panic ends the client.      *)
(***************************************************************************)
EXTENDS Integers, Sequences

CONSTANTS
  Chars,     \* the characters the user may type
  Width,     \* the bytes each takes in UTF-8
  Blanks,    \* the characters that trim() removes
  Cont,      \* a continuation byte
  MaxBytes   \* bound on the length of the line

ASSUME EditorAssumption ==
  /\ Width \in [Chars -> 1..4]
  /\ Blanks \subseteq Chars
  /\ Cont \notin Chars
  /\ MaxBytes \in Nat

VARIABLES
  input,            \* the bytes of the line
  cursor_position,
  input_mode,       \* keys are commands in Normal mode, text in Insert mode
  panicked

editorVars == <<input, cursor_position, input_mode, panicked>>

EditorInit ==
  /\ input = <<>>
  /\ cursor_position = 0
  /\ input_mode = "Normal"
  /\ panicked = FALSE

Bytes(c) == <<c>> \o [i \in 1..(Width[c] - 1) |-> Cont]

(* str::is_char_boundary *)
IsBoundary(i) == i = Len(input) \/ (i < Len(input) /\ input[i + 1] # Cont)

(* The end of the character that begins at index i. *)
CharEnd(i) == i + Width[input[i + 1]]

Panic ==
  /\ panicked' = TRUE
  /\ UNCHANGED <<input, cursor_position, input_mode>>

Typing == input_mode = "Insert" /\ ~ panicked

(* Variant: the cursor stays where it was. *)
EnterCharStays(c) ==
  /\ Typing
  /\ \/ /\ IsBoundary(cursor_position)
        /\ Len(input) + Width[c] <= MaxBytes
        /\ input' = SubSeq(input, 1, cursor_position) \o Bytes(c)
                      \o SubSeq(input, cursor_position + 1, Len(input))
        /\ UNCHANGED <<cursor_position, input_mode, panicked>>
     \/ ~ IsBoundary(cursor_position) /\ Panic

(* enter_char: insert, and then a move to the right by one byte. *)
EnterChar(c) ==
  /\ Typing
  /\ \/ /\ IsBoundary(cursor_position)
        /\ Len(input) + Width[c] <= MaxBytes
        /\ input' = SubSeq(input, 1, cursor_position) \o Bytes(c)
                      \o SubSeq(input, cursor_position + 1, Len(input))
        /\ cursor_position' = cursor_position + 1
        /\ UNCHANGED <<input_mode, panicked>>
     \/ ~ IsBoundary(cursor_position) /\ Panic

(* delete_char: remove the character that begins one byte before the        *)
(* cursor, and move to the left by one byte.                                *)
DeleteChar ==
  LET at == cursor_position - 1 IN
  /\ Typing
  /\ cursor_position # 0
  /\ \/ /\ IsBoundary(at)
        /\ input' = SubSeq(input, 1, at)
                      \o SubSeq(input, CharEnd(at) + 1, Len(input))
        /\ cursor_position' = at
        /\ UNCHANGED <<input_mode, panicked>>
     \/ ~ IsBoundary(at) /\ Panic

MoveCursorLeft ==
  /\ Typing
  /\ cursor_position > 0
  /\ cursor_position' = cursor_position - 1
  /\ UNCHANGED <<input, input_mode, panicked>>

(* Variant: nothing stops the cursor at the end of the line. *)
MoveCursorRightUnbounded ==
  /\ Typing
  /\ cursor_position' = cursor_position + 1
  /\ UNCHANGED <<input, input_mode, panicked>>

MoveCursorRight ==
  /\ Typing
  /\ cursor_position + 1 <= Len(input)
  /\ cursor_position' = cursor_position + 1
  /\ UNCHANGED <<input, input_mode, panicked>>

(* The keys i, a and Esc, or a click inside or outside of the prompt box. *)
SwitchMode ==
  /\ ~ panicked
  /\ input_mode' = IF input_mode = "Normal" THEN "Insert" ELSE "Normal"
  /\ UNCHANGED <<input, cursor_position, panicked>>

(* What submit_prompt leaves of the line: it is cleared, or it is kept when *)
(* there is nothing in it but blanks or it cannot be sent.                  *)
IsBlank == \A i \in DOMAIN input : input[i] \in Blanks \union {Cont}

ClearLine ==
  /\ input' = <<>>
  /\ cursor_position' = 0
  /\ UNCHANGED <<input_mode, panicked>>

EditorStep ==
  \/ \E c \in Chars : EnterChar(c)
  \/ DeleteChar
  \/ MoveCursorLeft
  \/ MoveCursorRight
  \/ SwitchMode

(* The editor with a user who submits now and then. *)
SubmitLine == Typing /\ ~ IsBlank /\ ClearLine

EditorSpec == EditorInit /\ [][EditorStep \/ SubmitLine]_editorVars

-----------------------------------------------------------------------------
EditorTypeOK ==
  /\ input \in Seq(Chars \union {Cont})
  /\ Len(input) <= MaxBytes
  /\ cursor_position \in 0..Len(input)
  /\ input_mode \in {"Normal", "Insert"}
  /\ panicked \in BOOLEAN

(* The characters of the line are the bytes that are no continuation.       *)
Characters(s) ==
  LET seen[i \in 0..Len(s)] ==
        IF i = 0 THEN <<>>
        ELSE IF s[i] = Cont THEN seen[i - 1] ELSE Append(seen[i - 1], s[i])
  IN seen[Len(s)]

(* PromptWidget::render puts the terminal's cursor this many columns behind *)
(* the first of the text; that a line too long for its box is wrapped, and  *)
(* the cursor then not drawn, is left out.                                  *)
CursorColumn == cursor_position

(* A key takes effect behind the characters that begin before the cursor.   *)
Text == INSTANCE TextEditor WITH
          Wide <- {c \in Chars : Width[c] > 1},
          text <- Characters(input),
          point <- Len(Characters(SubSeq(input, 1, cursor_position))),
          column <- CursorColumn,
          broken <- panicked

(* While every character of the line takes one byte, a key does what it     *)
(* says at the cursor that is drawn, and never breaks the client off.  The  *)
(* comment on cursor_position says that it counts characters; it counts     *)
(* bytes.  So with a character of several bytes in the line the drawn       *)
(* cursor runs ahead of the place where keys take effect, and a key may be  *)
(* a panic; but one that is not does only what it says, between two whole   *)
(* characters.                                                              *)
EditsRight == Text!Spec

(* The client breaks off over a key only if there is a character in the     *)
(* line that takes more than one byte.                                      *)
PanicNeedsWide == panicked => \E i \in DOMAIN input : input[i] = Cont
=============================================================================
