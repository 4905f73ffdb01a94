------------------------- MODULE PromptEditorProofs -------------------------
(***************************************************************************)
(* The prompt line for every alphabet and every length of the line: the    *)
(* cursor stays in the line, only characters of several bytes break the    *)
(* client off or draw the cursor away from where keys take effect, and the *)
(* bytes under the cursor implement the text editor of TextEditor.         *)
(***************************************************************************)
EXTENDS PromptEditor, WellFoundedInduction, TLAPS

Alphabet == Chars \union {Cont}

(* A character is between one and four bytes, all of them in the alphabet. *)
LEMMA BytesType ==
  ASSUME NEW c \in Chars
  PROVE  /\ Bytes(c) \in Seq(Alphabet)
         /\ Len(Bytes(c)) = Width[c]
         /\ Width[c] \in 1..4
         /\ Width[c] = 1 => Bytes(c) = <<c>>
<1>1. Width[c] \in 1..4
  BY EditorAssumption
<1>2. PICK n \in Nat : n = Width[c] - 1
  BY <1>1
<1> DEFINE rest == [i \in 1..n |-> Cont]
<1>3. rest \in Seq(Alphabet) /\ Len(rest) = n
  BY DEF Alphabet
<1>4. <<c>> \in Seq(Alphabet) /\ Len(<<c>>) = 1
  BY DEF Alphabet
<1>5. Bytes(c) = <<c>> \o rest
  BY <1>2 DEF Bytes
<1>6. Bytes(c) \in Seq(Alphabet) /\ Len(Bytes(c)) = 1 + n
  BY <1>3, <1>4, <1>5
<1>7. n = 0 => Bytes(c) = <<c>>
  <2> HAVE n = 0
  <2>1. rest = <<>>
    BY <1>3
  <2>2. QED
    BY <1>4, <1>5, <2>1
<1>8. QED
  BY <1>1, <1>2, <1>6, <1>7

(* What is before and what is after a place in the line. *)
LEMMA Pieces ==
  ASSUME NEW s \in Seq(Alphabet), NEW i \in 0..Len(s),
         NEW j \in Nat, j >= i
  PROVE  /\ SubSeq(s, 1, i) \in Seq(Alphabet)
         /\ Len(SubSeq(s, 1, i)) = i
         /\ SubSeq(s, j + 1, Len(s)) \in Seq(Alphabet)
         /\ Len(SubSeq(s, j + 1, Len(s))) = IF j <= Len(s) THEN Len(s) - j ELSE 0
OBVIOUS

(* Three pieces put together. *)
LEMMA ThreePieces ==
  ASSUME NEW a \in Seq(Alphabet), NEW m \in Seq(Alphabet), NEW b \in Seq(Alphabet)
  PROVE  /\ a \o m \o b \in Seq(Alphabet)
         /\ Len(a \o m \o b) = Len(a) + Len(m) + Len(b)
<1>1. a \o m \in Seq(Alphabet) /\ Len(a \o m) = Len(a) + Len(m)
  OBVIOUS
<1>2. QED
  BY <1>1

(* The cursor is in the line, and a panic leaves its reason in it. *)
EditorInv == EditorTypeOK /\ PanicNeedsWide

(* A place in the line that is not a boundary is inside of a character. *)
LEMMA NoBoundary ==
  ASSUME EditorTypeOK, NEW i \in 0..Len(input), ~ IsBoundary(i)
  PROVE  \E k \in DOMAIN input : input[k] = Cont
<1>1. i < Len(input) /\ input[i + 1] = Cont /\ Len(input) \in Nat
  BY DEF IsBoundary, EditorTypeOK
<1>2. i + 1 \in DOMAIN input
  BY <1>1 DEF EditorTypeOK
<1>3. QED
  BY <1>1, <1>2

(* Typing a character. *)
LEMMA EnterInv ==
  ASSUME EditorInv, NEW c \in Chars, EnterChar(c)
  PROVE  EditorInv'
<1>1. /\ input \in Seq(Alphabet) /\ cursor_position \in 0..Len(input)
      /\ ~ panicked /\ Len(input) \in Nat
  BY DEF EditorInv, EditorTypeOK, Alphabet, EnterChar, Typing
<1>2. CASE ~ IsBoundary(cursor_position) /\ Panic
  <2>1. \E k \in DOMAIN input : input[k] = Cont
    BY <1>1, <1>2, NoBoundary DEF EditorInv
  <2>2. QED
    BY <1>1, <1>2, <2>1 DEF EditorInv, EditorTypeOK, PanicNeedsWide, Panic
<1>3. CASE IsBoundary(cursor_position) /\ UNCHANGED panicked
  <2> DEFINE a == SubSeq(input, 1, cursor_position)
             b == SubSeq(input, cursor_position + 1, Len(input))
  <2>1. /\ a \in Seq(Alphabet) /\ Len(a) = cursor_position
        /\ b \in Seq(Alphabet) /\ Len(b) = Len(input) - cursor_position
    <3>1. /\ cursor_position \in Nat /\ cursor_position >= cursor_position
          /\ cursor_position <= Len(input)
      BY <1>1
    <3>2. QED
      BY <1>1, <3>1, Pieces
  <2>2. /\ Bytes(c) \in Seq(Alphabet) /\ Len(Bytes(c)) = Width[c]
        /\ Width[c] \in 1..4
    BY BytesType
  <2>3. CASE /\ Len(input) + Width[c] <= MaxBytes
             /\ input' = a \o Bytes(c) \o b
             /\ cursor_position' = cursor_position + 1
             /\ UNCHANGED <<input_mode, panicked>>
    <3>1. PICK m \in Seq(Alphabet) : m = Bytes(c) /\ Len(m) = Width[c]
      BY <2>2
    <3>2. input' \in Seq(Alphabet) /\ Len(input') = Len(a) + Width[c] + Len(b)
      <4>1. input' = a \o m \o b
        BY <2>3, <3>1
      <4>2. /\ a \o m \o b \in Seq(Alphabet)
            /\ Len(a \o m \o b) = Len(a) + Len(m) + Len(b)
        BY <2>1, <3>1, ThreePieces
      <4>3. QED
        BY <3>1, <4>1, <4>2
    <3>3. Len(input') = Len(input) + Width[c]
      BY <1>1, <2>1, <2>2, <3>2
    <3>4. cursor_position' \in 0..Len(input')
      <4>1. PICK n \in Nat : n = Len(input)
        BY <1>1
      <4>2. PICK w \in 1..4 : w = Width[c]
        BY <2>2
      <4>3. cursor_position + 1 \in 0..(n + w)
        BY <1>1, <4>1
      <4>4. QED
        BY <2>3, <3>3, <4>1, <4>2, <4>3
    <3>5. QED
      BY <1>1, <2>3, <3>2, <3>3, <3>4
      DEF EditorInv, EditorTypeOK, PanicNeedsWide, Alphabet
  <2>4. QED
    BY <1>1, <1>3, <2>3 DEF EnterChar, Panic
<1>4. QED
  BY <1>2, <1>3 DEF EnterChar, Panic

(* Erasing the character before the cursor. *)
LEMMA DeleteInv ==
  ASSUME EditorInv, DeleteChar
  PROVE  EditorInv'
<1> DEFINE at == cursor_position - 1
<1>1. /\ input \in Seq(Alphabet) /\ at \in 0..Len(input) /\ at < Len(input)
      /\ ~ panicked /\ Len(input) \in Nat
  BY DEF EditorInv, EditorTypeOK, Alphabet, DeleteChar, Typing
<1>2. CASE ~ IsBoundary(at) /\ Panic
  <2>1. \E k \in DOMAIN input : input[k] = Cont
    BY <1>1, <1>2, NoBoundary DEF EditorInv
  <2>2. QED
    BY <1>1, <1>2, <2>1 DEF EditorInv, EditorTypeOK, PanicNeedsWide, Panic
<1>3. CASE /\ IsBoundary(at)
           /\ input' = SubSeq(input, 1, at)
                         \o SubSeq(input, CharEnd(at) + 1, Len(input))
           /\ cursor_position' = at
           /\ UNCHANGED <<input_mode, panicked>>
  <2>1. input[at + 1] \in Alphabet /\ input[at + 1] # Cont
    BY <1>1, <1>3 DEF IsBoundary
  <2>2. Width[input[at + 1]] \in 1..4
    BY <2>1, EditorAssumption DEF Alphabet
  <2>3. CharEnd(at) \in Nat /\ CharEnd(at) >= at
    BY <1>1, <2>2 DEF CharEnd
  <2> DEFINE a == SubSeq(input, 1, at)
             b == SubSeq(input, CharEnd(at) + 1, Len(input))
  <2>4. /\ a \in Seq(Alphabet) /\ Len(a) = at
        /\ b \in Seq(Alphabet)
        /\ Len(b) = IF CharEnd(at) <= Len(input) THEN Len(input) - CharEnd(at)
                    ELSE 0
    BY <1>1, <2>3, Pieces
  <2>5. Len(b) \in Nat /\ Len(b) <= Len(input) - at
    BY <1>1, <2>3, <2>4
  <2>6. input' \in Seq(Alphabet) /\ Len(input') = at + Len(b)
    BY <1>3, <2>4
  <2>7. Len(input') <= Len(input) /\ cursor_position' \in 0..Len(input')
    BY <1>1, <1>3, <2>5, <2>6
  <2>8. QED
    BY <1>1, <1>3, <2>6, <2>7, EditorAssumption
    DEF EditorInv, EditorTypeOK, PanicNeedsWide, Alphabet
<1>4. QED
  BY <1>2, <1>3 DEF DeleteChar

(* A key, and a line that is submitted. *)
LEMMA EditorStepInv ==
  ASSUME EditorInv, EditorStep
  PROVE  EditorInv'
<1>1. CASE \E c \in Chars : EnterChar(c)
  BY <1>1, EnterInv
<1>2. CASE DeleteChar
  BY <1>2, DeleteInv
<1>3. CASE MoveCursorLeft \/ MoveCursorRight \/ SwitchMode
  BY <1>3 DEF MoveCursorLeft, MoveCursorRight, SwitchMode, Typing,
              EditorInv, EditorTypeOK, PanicNeedsWide
<1>4. QED
  BY <1>1, <1>2, <1>3 DEF EditorStep

(* A line that is cleared. *)
LEMMA ClearInv ==
  ASSUME EditorInv, Typing, ClearLine
  PROVE  EditorInv'
BY EditorAssumption DEF ClearLine, Typing, EditorInv, EditorTypeOK,
   PanicNeedsWide

(* A line that has just begun. *)
LEMMA EditorInitInv ==
  EditorInit => EditorInv
<1>1. <<>> \in Seq(Alphabet) /\ Len(<<>>) = 0 /\ 0 <= MaxBytes
  BY EditorAssumption
<1>2. ASSUME EditorInit
      PROVE  EditorTypeOK
  <2>1. input = <<>> /\ cursor_position = 0 /\ 0 \in 0..0
    BY <1>2 DEF EditorInit
  <2>2. QED
    BY <1>1, <1>2, <2>1 DEF EditorInit, EditorTypeOK, Alphabet
<1>3. QED
  BY <1>2 DEF EditorInit, EditorInv, PanicNeedsWide

(* Any step of the line. *)
LEMMA EditorNextInv ==
  EditorInv /\ [EditorStep \/ SubmitLine]_editorVars => EditorInv'
<1> SUFFICES ASSUME EditorInv, [EditorStep \/ SubmitLine]_editorVars
             PROVE  EditorInv'
  OBVIOUS
<1>1. CASE EditorStep
  BY <1>1, EditorStepInv
<1>2. CASE SubmitLine
  BY <1>2, ClearInv DEF SubmitLine
<1>3. CASE UNCHANGED editorVars
  BY <1>3 DEF editorVars, EditorInv, EditorTypeOK, PanicNeedsWide
<1>4. QED
  BY <1>1, <1>2, <1>3

-----------------------------------------------------------------------------
(* Whatever is typed, the cursor stays in the line, and the client breaks   *)
(* off over a key only if the line has a character of several bytes.        *)
THEOREM EditorInvariant == EditorSpec => [](EditorTypeOK /\ PanicNeedsWide)
<1>1. EditorInv <=> EditorTypeOK /\ PanicNeedsWide
  BY DEF EditorInv
<1>2. QED
  BY <1>1, EditorInitInv, EditorNextInv, PTL DEF EditorSpec

-----------------------------------------------------------------------------
(* The characters of a line.                                                *)

(* A set of naturals has a least element: the form of induction that the    *)
(* facts about the recursion in Characters rest on.                         *)
LEMMA LeastNatural ==
  ASSUME NEW T, T \subseteq Nat, T # {}
  PROVE  \E n \in T : \A m \in T : n <= m
<1> DEFINE R == {ss \in Nat \X Nat : ss[1] < ss[2]}
<1>1. IsWellFoundedOn(R, Nat)
  BY NatLessThanWellFounded, Zenon DEF OpToRel
<1>2. \A x, y \in Nat : <<y, x>> \in R <=> y < x
  OBVIOUS
<1> HIDE DEF R
<1>3. PICK n \in T : \A m \in T : ~ (<<m, n>> \in R)
  BY <1>1, WFMin
<1>4. ASSUME NEW m \in T
      PROVE  n <= m
  <2>1. n \in Nat /\ m \in Nat
    OBVIOUS
  <2>2. ~ (m < n)
    BY <1>2, <1>3, <2>1
  <2>3. QED
    BY <2>1, <2>2
<1>5. QED
  BY <1>4

(* The recursion over the first n bytes of a line. *)
SeenBy(s, f, n) ==
  f = [i \in 0..n |->
        IF i = 0 THEN <<>>
        ELSE IF s[i] = Cont THEN f[i - 1] ELSE Append(f[i - 1], s[i])]

(* It has a solution. *)
LEMMA SeenExists ==
  ASSUME NEW s, NEW k \in Nat
  PROVE  \E f : SeenBy(s, f, k)
<1> DEFINE T == {n \in Nat : ~ \E f : SeenBy(s, f, n)}
<1>1. SUFFICES ASSUME T # {}
               PROVE  FALSE
  OBVIOUS
<1>2. PICK n \in T : \A m \in T : n <= m
  <2>1. T \subseteq Nat
    OBVIOUS
  <2> HIDE DEF T
  <2>2. QED
    BY <1>1, <2>1, LeastNatural
<1>3. n # 0
  <2>1. SeenBy(s, [i \in 0..0 |-> <<>>], 0)
    BY DEF SeenBy
  <2>2. QED
    BY <2>1
<1>4. PICK f : SeenBy(s, f, n - 1)
  <2>1. n - 1 \in Nat /\ n - 1 \notin T
    BY <1>2, <1>3
  <2>2. QED
    BY <2>1
<1> DEFINE last == IF s[n] = Cont THEN f[n - 1] ELSE Append(f[n - 1], s[n])
           g == [i \in 0..n |-> IF i < n THEN f[i] ELSE last]
<1>5. ASSUME NEW i \in 0..n
      PROVE  g[i] = IF i = 0 THEN <<>>
                    ELSE IF s[i] = Cont THEN g[i - 1]
                    ELSE Append(g[i - 1], s[i])
  <2> HIDE DEF last
  <2>1. CASE i < n
    <3>1. i \in 0..n - 1 /\ g[i] = f[i] /\ (i # 0 => g[i - 1] = f[i - 1])
      BY <2>1
    <3>2. f[i] = IF i = 0 THEN <<>>
                 ELSE IF s[i] = Cont THEN f[i - 1] ELSE Append(f[i - 1], s[i])
      BY <1>4, <3>1 DEF SeenBy
    <3>3. QED
      BY <3>1, <3>2
  <2>2. CASE i = n
    <3>1. g[n] = last /\ g[n - 1] = f[n - 1]
      BY <1>3
    <3>2. QED
      BY <1>3, <2>2, <3>1 DEF last
  <2>3. QED
    BY <2>1, <2>2
<1>6. SeenBy(s, g, n)
  <2>1. g = [i \in 0..n |-> g[i]]
    OBVIOUS
  <2> HIDE DEF g
  <2>2. QED
    BY <1>5, <2>1 DEF SeenBy
<1>7. QED
  BY <1>6

(* What it is at a place depends only on the bytes up to there. *)
LEMMA SeenAgrees ==
  ASSUME NEW s, NEW t, NEW f, NEW g, NEW n \in Nat, NEW m \in Nat,
         NEW k \in Nat, k <= n, k <= m, SeenBy(s, f, n), SeenBy(t, g, m),
         \A i \in 1..k : s[i] = t[i]
  PROVE  f[k] = g[k]
<1> DEFINE T == {i \in Nat : i <= k /\ f[i] # g[i]}
<1>1. SUFFICES ASSUME T # {}
               PROVE  FALSE
  OBVIOUS
<1>2. PICK i \in T : \A j \in T : i <= j
  <2>1. T \subseteq Nat
    OBVIOUS
  <2> HIDE DEF T
  <2>2. QED
    BY <1>1, <2>1, LeastNatural
<1>3. i \in 0..n /\ i \in 0..m /\ i <= k /\ f[i] # g[i]
  OBVIOUS
<1>4. /\ f[i] = IF i = 0 THEN <<>>
                ELSE IF s[i] = Cont THEN f[i - 1] ELSE Append(f[i - 1], s[i])
      /\ g[i] = IF i = 0 THEN <<>>
                ELSE IF t[i] = Cont THEN g[i - 1] ELSE Append(g[i - 1], t[i])
  BY <1>3 DEF SeenBy
<1>5. CASE i = 0
  BY <1>3, <1>4, <1>5
<1>6. CASE i # 0
  <2>1. i - 1 \in Nat /\ i - 1 \notin T /\ i \in 1..k
    BY <1>2, <1>3, <1>6
  <2>2. f[i - 1] = g[i - 1] /\ s[i] = t[i]
    BY <1>3, <2>1
  <2>3. QED
    BY <1>3, <1>4, <2>2
<1>7. QED
  BY <1>5, <1>6

(* The characters of a line are what the recursion comes to. *)
LEMMA CharactersSeen ==
  ASSUME NEW s \in Seq(Alphabet)
  PROVE  \E f : SeenBy(s, f, Len(s)) /\ Characters(s) = f[Len(s)]
<1> DEFINE f == CHOOSE f : SeenBy(s, f, Len(s))
<1>1. Len(s) \in Nat
  OBVIOUS
<1>2. SeenBy(s, f, Len(s))
  <2>1. \E h : SeenBy(s, h, Len(s))
    BY <1>1, SeenExists
  <2>2. QED
    BY <2>1
<1>3. Characters(s) = f[Len(s)]
  BY DEF Characters, SeenBy
<1>4. QED
  BY <1>2, <1>3

(* An empty line has none. *)
LEMMA CharactersEmpty == Characters(<<>>) = <<>>
<1>1. <<>> \in Seq(Alphabet) /\ Len(<<>>) = 0
  OBVIOUS
<1>2. PICK f : SeenBy(<<>>, f, Len(<<>>)) /\ Characters(<<>>) = f[Len(<<>>)]
  BY <1>1, CharactersSeen
<1>3. SeenBy(<<>>, f, 0) /\ Characters(<<>>) = f[0]
  BY <1>1, <1>2
<1>4. 0 \in 0..0
  OBVIOUS
<1>5. QED
  BY <1>3, <1>4 DEF SeenBy

(* A byte at the end of a line is one more unless it goes on with one.      *)
LEMMA CharactersAppend ==
  ASSUME NEW s \in Seq(Alphabet), NEW b \in Alphabet
  PROVE  Characters(Append(s, b)) =
           IF b = Cont THEN Characters(s) ELSE Append(Characters(s), b)
<1>1. PICK n \in Nat : n = Len(s)
  OBVIOUS
<1>2. PICK t \in Seq(Alphabet) : t = Append(s, b)
  <2>1. Append(s, b) \in Seq(Alphabet)
    OBVIOUS
  <2>2. QED
    BY <2>1
<1>3. /\ Len(t) = n + 1 /\ t[n + 1] = b /\ \A i \in 1..n : s[i] = t[i]
  BY <1>1, <1>2
<1>4. PICK f : SeenBy(s, f, n) /\ Characters(s) = f[n]
  BY <1>1, CharactersSeen
<1>5. PICK g : SeenBy(t, g, n + 1) /\ Characters(t) = g[n + 1]
  BY <1>3, CharactersSeen
<1>6. f[n] = g[n]
  <2>1. n + 1 \in Nat /\ n <= n /\ n <= n + 1
    OBVIOUS
  <2>2. QED
    BY <1>3, <1>4, <1>5, <2>1, SeenAgrees
<1>7. n + 1 \in 0..(n + 1) /\ n + 1 # 0 /\ (n + 1) - 1 = n
  OBVIOUS
<1>8. g[n + 1] = IF t[n + 1] = Cont THEN g[n] ELSE Append(g[n], t[n + 1])
  BY <1>5, <1>7 DEF SeenBy
<1>9. QED
  BY <1>2, <1>3, <1>4, <1>5, <1>6, <1>8

(* A character behind two pieces is one behind the second. *)
LEMMA AppendLast ==
  ASSUME NEW a \in Seq(Chars), NEW b \in Seq(Chars), NEW x \in Chars
  PROVE  Append(a \o b, x) = a \o Append(b, x)
OBVIOUS

(* The characters of two pieces put together are those of the first and     *)
(* then those of the second: by induction over the second, as the shortest  *)
(* one for which it fails would not be empty, and lose its last byte.       *)
LEMMA CharactersConcat ==
  ASSUME NEW s \in Seq(Alphabet), NEW t \in Seq(Alphabet)
  PROVE  /\ Characters(s \o t) = Characters(s) \o Characters(t)
         /\ Characters(t) \in Seq(Chars)
<1> DEFINE Good(u) == /\ Characters(u) \in Seq(Chars)
                      /\ Characters(s) \in Seq(Chars) =>
                           Characters(s \o u) = Characters(s) \o Characters(u)
           T == {n \in Nat : \E u \in Seq(Alphabet) : Len(u) = n /\ ~ Good(u)}
<1>1. T = {}
  <2>1. SUFFICES ASSUME T # {}
                 PROVE  FALSE
    OBVIOUS
  <2>2. PICK n \in T : \A m \in T : n <= m
    <3>1. T \subseteq Nat
      OBVIOUS
    <3> HIDE DEF T
    <3>2. QED
      BY <2>1, <3>1, LeastNatural
  <2>3. PICK u \in Seq(Alphabet) : Len(u) = n /\ ~ Good(u)
    OBVIOUS
  <2>4. CASE n = 0
    <3>1. u = <<>> /\ s \o u = s
      BY <2>3, <2>4
    <3>2. Characters(u) = <<>>
      BY <3>1, CharactersEmpty
    <3>3. Characters(s) \in Seq(Chars) => Characters(s) \o <<>> = Characters(s)
      OBVIOUS
    <3>4. QED
      BY <2>3, <3>1, <3>2, <3>3
  <2>5. CASE n # 0
    <3>1. n \in Nat /\ n - 1 \in Nat /\ n - 1 \notin T
      BY <2>2, <2>5
    <3>2. PICK v \in Seq(Alphabet), b \in Alphabet :
            u = Append(v, b) /\ Len(v) = n - 1
      <4>1. /\ SubSeq(u, 1, n - 1) \in Seq(Alphabet)
            /\ Len(SubSeq(u, 1, n - 1)) = n - 1
            /\ u[n] \in Alphabet /\ u = Append(SubSeq(u, 1, n - 1), u[n])
        BY <2>3, <2>5, <3>1
      <4>2. QED
        BY <4>1
    <3>3. Good(v)
      BY <3>1, <3>2
    <3>4. /\ s \o v \in Seq(Alphabet)
          /\ s \o u = Append(s \o v, b)
      BY <3>2
    <3>5. /\ Characters(u) =
               IF b = Cont THEN Characters(v) ELSE Append(Characters(v), b)
          /\ Characters(s \o u) =
               IF b = Cont THEN Characters(s \o v)
               ELSE Append(Characters(s \o v), b)
      BY <3>2, <3>4, CharactersAppend
    <3>6. b # Cont => b \in Chars
      BY DEF Alphabet
    <3>7. CASE b = Cont
      BY <2>3, <3>3, <3>5, <3>7
    <3>8. CASE b # Cont
      <4>1. Characters(v) \in Seq(Chars) /\ b \in Chars
        BY <3>3, <3>6, <3>8
      <4>2. Characters(u) = Append(Characters(v), b)
        BY <3>5, <3>8
      <4>3. ASSUME Characters(s) \in Seq(Chars)
            PROVE  Characters(s \o u) = Characters(s) \o Characters(u)
        <5>1. Characters(s \o u) = Append(Characters(s) \o Characters(v), b)
          BY <3>3, <3>5, <3>8, <4>3
        <5>2. Append(Characters(s) \o Characters(v), b)
                = Characters(s) \o Append(Characters(v), b)
          <6> HIDE DEF Good, T
          <6>1. QED
            BY <4>1, <4>3, AppendLast
        <5>3. QED
          BY <4>2, <5>1, <5>2
      <4>4. Characters(u) \in Seq(Chars)
        BY <4>1, <4>2
      <4>5. QED
        BY <2>3, <4>3, <4>4
    <3>9. QED
      BY <3>7, <3>8
  <2>6. QED
    BY <2>4, <2>5
<1>2. \A u \in Seq(Alphabet) : Good(u)
  <2>1. ASSUME NEW u \in Seq(Alphabet)
        PROVE  Good(u)
    <3>1. ~ Good(u) => Len(u) \in T
      <4> HIDE DEF Good
      <4>1. QED
        OBVIOUS
    <3> HIDE DEF T, Good
    <3>2. QED
      BY <1>1, <3>1
  <2>2. QED
    BY <2>1
<1>3. QED
  BY <1>2

(* A character has itself, and what goes on with one has none. *)
LEMMA CharactersOfConts ==
  ASSUME NEW s \in Seq(Alphabet), \A i \in DOMAIN s : s[i] = Cont
  PROVE  Characters(s) = <<>>
<1> DEFINE T == {n \in Nat : \E u \in Seq(Alphabet) :
                   /\ Len(u) = n /\ Characters(u) # <<>>
                   /\ \A i \in DOMAIN u : u[i] = Cont}
<1>1. T = {}
  <2>1. SUFFICES ASSUME T # {}
                 PROVE  FALSE
    OBVIOUS
  <2>2. PICK n \in T : \A m \in T : n <= m
    <3>1. T \subseteq Nat
      OBVIOUS
    <3> HIDE DEF T
    <3>2. QED
      BY <2>1, <3>1, LeastNatural
  <2>3. PICK u \in Seq(Alphabet) :
          /\ Len(u) = n /\ Characters(u) # <<>>
          /\ \A i \in DOMAIN u : u[i] = Cont
    OBVIOUS
  <2>4. CASE n = 0
    <3>1. u = <<>>
      BY <2>3, <2>4
    <3>2. QED
      BY <2>3, <3>1, CharactersEmpty
  <2>5. CASE n # 0
    <3>1. n \in Nat /\ n - 1 \in Nat /\ n - 1 \notin T
      BY <2>2, <2>5
    <3>2. PICK v \in Seq(Alphabet), b \in Alphabet :
            /\ u = Append(v, b) /\ Len(v) = n - 1 /\ b = Cont
            /\ \A i \in DOMAIN v : v[i] = Cont
      <4>1. /\ SubSeq(u, 1, n - 1) \in Seq(Alphabet)
            /\ Len(SubSeq(u, 1, n - 1)) = n - 1
            /\ u[n] \in Alphabet /\ u = Append(SubSeq(u, 1, n - 1), u[n])
            /\ \A i \in 1..(n - 1) : SubSeq(u, 1, n - 1)[i] = u[i]
        BY <2>3, <2>5, <3>1
      <4>2. u[n] = Cont /\ \A i \in 1..(n - 1) : u[i] = Cont
        BY <2>3, <2>5, <3>1
      <4>3. PICK v \in Seq(Alphabet) : v = SubSeq(u, 1, n - 1)
        BY <4>1
      <4>4. Len(v) = n - 1 /\ \A i \in DOMAIN v : v[i] = Cont
        <5>1. Len(v) = n - 1 /\ \A i \in 1..(n - 1) : v[i] = Cont
          BY <4>1, <4>2, <4>3
        <5>2. DOMAIN v = 1..(n - 1)
          BY <5>1
        <5>3. QED
          BY <5>1, <5>2
      <4> HIDE DEF T
      <4>5. QED
        BY <4>1, <4>2, <4>3, <4>4
    <3>3. Characters(v) = <<>>
      BY <3>1, <3>2
    <3> HIDE DEF T
    <3>4. QED
      BY <2>3, <3>2, <3>3, CharactersAppend
  <2>6. QED
    BY <2>4, <2>5
<1>2. Characters(s) # <<>> => Len(s) \in T
  OBVIOUS
<1> HIDE DEF T
<1>3. QED
  BY <1>1, <1>2

(* The first byte and the others. *)
LEMMA BytesAre ==
  ASSUME NEW c \in Chars
  PROVE  \E rest \in Seq(Alphabet) :
           /\ Bytes(c) = <<c>> \o rest
           /\ Len(rest) = Width[c] - 1
           /\ \A i \in DOMAIN rest : rest[i] = Cont
<1>1. PICK n \in Nat : n = Width[c] - 1
  BY EditorAssumption
<1> DEFINE rest == [i \in 1..n |-> Cont]
<1>2. /\ rest \in Seq(Alphabet) /\ Len(rest) = n
      /\ \A i \in DOMAIN rest : rest[i] = Cont
  BY DEF Alphabet
<1>3. QED
  BY <1>1, <1>2 DEF Bytes

(* A character that is typed is one character. *)
LEMMA CharactersOfOne ==
  ASSUME NEW c \in Chars
  PROVE  /\ Characters(<<c>>) = <<c>>
         /\ Characters(Bytes(c)) = <<c>>
<1>1. c \in Alphabet /\ c # Cont /\ <<c>> \in Seq(Alphabet)
  BY EditorAssumption DEF Alphabet
<1>2. Characters(<<c>>) = <<c>>
  <2>1. <<>> \in Seq(Alphabet) /\ Append(<<>>, c) = <<c>>
    OBVIOUS
  <2>2. Characters(Append(<<>>, c)) = Append(Characters(<<>>), c)
    BY <1>1, <2>1, CharactersAppend
  <2>3. QED
    BY <2>1, <2>2, CharactersEmpty
<1>3. PICK rest \in Seq(Alphabet) :
        Bytes(c) = <<c>> \o rest /\ \A i \in DOMAIN rest : rest[i] = Cont
  BY BytesAre
<1>4. Characters(rest) = <<>>
  BY <1>3, CharactersOfConts
<1>5. Characters(Bytes(c)) = <<c>> \o <<>>
  BY <1>1, <1>2, <1>3, <1>4, CharactersConcat
<1>6. QED
  BY <1>2, <1>5

-----------------------------------------------------------------------------
(* Whole characters.                                                        *)

(* Every character of a line has the bytes it needs. *)
Whole(s) ==
  \A i \in DOMAIN s : s[i] # Cont =>
    /\ i + Width[s[i]] - 1 <= Len(s)
    /\ \A j \in (i + 1)..(i + Width[s[i]] - 1) : s[j] = Cont

(* How wide a byte says its character is. *)
LEMMA WidthType ==
  ASSUME NEW s \in Seq(Alphabet), NEW i \in DOMAIN s, s[i] # Cont
  PROVE  s[i] \in Chars /\ Width[s[i]] \in 1..4
<1>1. s[i] \in Chars
  BY DEF Alphabet
<1>2. QED
  BY <1>1, EditorAssumption

(* Two pieces put together: where each byte of them is. *)
LEMMA ConcatAt ==
  ASSUME NEW s \in Seq(Alphabet), NEW t \in Seq(Alphabet)
  PROVE  /\ s \o t \in Seq(Alphabet)
         /\ Len(s \o t) = Len(s) + Len(t) /\ Len(s) \in Nat /\ Len(t) \in Nat
         /\ DOMAIN (s \o t) = 1..(Len(s) + Len(t))
         /\ \A i \in 1..Len(s) : (s \o t)[i] = s[i]
         /\ \A i \in 1..Len(t) : (s \o t)[Len(s) + i] = t[i]
OBVIOUS

(* Two pieces of whole characters put together are one. *)
LEMMA WholeConcat ==
  ASSUME NEW s \in Seq(Alphabet), NEW t \in Seq(Alphabet), Whole(s), Whole(t)
  PROVE  Whole(s \o t)
<1>1. PICK n \in Nat, m \in Nat : n = Len(s) /\ m = Len(t)
  OBVIOUS
<1>2. PICK u \in Seq(Alphabet) : u = s \o t
  BY ConcatAt
<1>3. /\ Len(u) = n + m /\ DOMAIN u = 1..(n + m) /\ DOMAIN s = 1..n
      /\ DOMAIN t = 1..m
      /\ \A i \in 1..n : u[i] = s[i]
      /\ \A i \in 1..m : u[n + i] = t[i]
  BY <1>1, <1>2, ConcatAt
<1>4. ASSUME NEW i \in DOMAIN u, u[i] # Cont
      PROVE  /\ i + Width[u[i]] - 1 <= Len(u)
             /\ \A j \in (i + 1)..(i + Width[u[i]] - 1) : u[j] = Cont
  <2>1. PICK w \in 1..4 : w = Width[u[i]]
    BY <1>4, WidthType
  <2>2. CASE i \in 1..n
    <3>1. u[i] = s[i] /\ s[i] # Cont
      BY <1>3, <1>4, <2>2
    <3>2. /\ i + w - 1 <= n
          /\ \A j \in (i + 1)..(i + w - 1) : s[j] = Cont
      BY <1>1, <1>3, <2>1, <2>2, <3>1 DEF Whole
    <3>3. \A j \in (i + 1)..(i + w - 1) : j \in 1..n
      BY <2>2, <3>2
    <3>4. i + w - 1 <= n + m
      BY <3>2
    <3>5. QED
      BY <1>3, <2>1, <3>2, <3>3, <3>4
  <2>3. CASE i \in (n + 1)..(n + m)
    <3>1. PICK k \in 1..m : i = n + k
      <4>1. i - n \in 1..m /\ i = n + (i - n)
        BY <2>3
      <4>2. QED
        BY <4>1
    <3>2. u[i] = t[k] /\ t[k] # Cont
      BY <1>3, <1>4, <3>1
    <3>3. /\ k + w - 1 <= m
          /\ \A j \in (k + 1)..(k + w - 1) : t[j] = Cont
      <4>1. k \in DOMAIN t /\ Width[t[k]] = w /\ Len(t) = m
        BY <1>1, <1>3, <2>1, <3>1, <3>2
      <4>2. /\ k + Width[t[k]] - 1 <= Len(t)
            /\ \A j \in (k + 1)..(k + Width[t[k]] - 1) : t[j] = Cont
        BY <3>2, <4>1 DEF Whole
      <4>3. QED
        BY <4>1, <4>2
    <3>4. ASSUME NEW j \in (i + 1)..(i + w - 1)
          PROVE  u[j] = Cont
      <4>1. j - n \in (k + 1)..(k + w - 1) /\ j - n \in 1..m /\ n + (j - n) = j
        BY <3>1, <3>3
      <4>2. u[n + (j - n)] = t[j - n]
        BY <1>3, <4>1
      <4>3. QED
        BY <3>3, <4>1, <4>2
    <3>5. i + w - 1 <= n + m
      BY <3>1, <3>3
    <3>6. QED
      BY <1>3, <2>1, <3>4, <3>5
  <2>4. QED
    BY <1>3, <2>2, <2>3
<1>5. QED
  BY <1>2, <1>4 DEF Whole

(* A character that is typed is whole. *)
LEMMA WholeBytes ==
  ASSUME NEW c \in Chars
  PROVE  Whole(Bytes(c))
<1>1. PICK rest \in Seq(Alphabet) :
        /\ Bytes(c) = <<c>> \o rest /\ Len(rest) = Width[c] - 1
        /\ \A i \in DOMAIN rest : rest[i] = Cont
  BY BytesAre
<1>2. PICK w \in 1..4 : w = Width[c]
  BY EditorAssumption
<1>3. PICK u \in Seq(Alphabet) : u = Bytes(c) /\ Len(u) = w
  BY <1>2, BytesType
<1>4. u[1] = c /\ \A i \in 2..w : u[i] = Cont
  <2>1. <<c>> \in Seq(Alphabet) /\ Len(<<c>>) = 1 /\ <<c>>[1] = c /\ 1 \in 1..1
    BY DEF Alphabet
  <2>2. u[1] = c /\ \A i \in 1..Len(rest) : u[1 + i] = rest[i]
    BY <1>1, <1>3, <2>1, ConcatAt
  <2>3. ASSUME NEW i \in 2..w
        PROVE  u[i] = Cont
    <3>1. PICK k \in 1..(w - 1) : i = 1 + k
      <4>1. i - 1 \in 1..(w - 1) /\ i = 1 + (i - 1)
        BY <1>2
      <4>2. QED
        BY <4>1
    <3>2. Len(rest) = w - 1 /\ k \in DOMAIN rest
      BY <1>1, <1>2
    <3>3. u[1 + k] = rest[k]
      BY <2>2, <3>2
    <3>4. QED
      BY <1>1, <3>1, <3>2, <3>3
  <2>4. QED
    BY <2>2, <2>3
<1>5. \A i \in DOMAIN u : u[i] # Cont => i = 1
  BY <1>3, <1>4
<1>6. Whole(u)
  BY <1>2, <1>3, <1>4, <1>5 DEF Whole
<1>7. QED
  BY <1>3, <1>6

(* The two pieces of a line at a place. *)
LEMMA PiecesAt ==
  ASSUME NEW s \in Seq(Alphabet), NEW i \in 0..Len(s)
  PROVE  /\ SubSeq(s, 1, i) \in Seq(Alphabet)
         /\ SubSeq(s, i + 1, Len(s)) \in Seq(Alphabet)
         /\ Len(SubSeq(s, 1, i)) = i
         /\ Len(SubSeq(s, i + 1, Len(s))) = Len(s) - i
         /\ \A j \in 1..i : SubSeq(s, 1, i)[j] = s[j]
         /\ \A j \in 1..(Len(s) - i) : SubSeq(s, i + 1, Len(s))[j] = s[i + j]
         /\ s = SubSeq(s, 1, i) \o SubSeq(s, i + 1, Len(s))
<1>1. PICK n \in Nat : n = Len(s)
  OBVIOUS
<1>2. PICK a \in Seq(Alphabet) : a = SubSeq(s, 1, i)
  <2>1. i \in Nat /\ i >= i
    OBVIOUS
  <2>2. SubSeq(s, 1, i) \in Seq(Alphabet)
    BY <2>1, Pieces
  <2>3. QED
    BY <2>2
<1>3. Len(a) = i /\ \A j \in 1..i : a[j] = s[j]
  BY <1>1, <1>2
<1>4. /\ SubSeq(s, i + 1, n) \in Seq(Alphabet)
      /\ Len(SubSeq(s, i + 1, n)) = n - i
      /\ \A j \in 1..(n - i) : SubSeq(s, i + 1, n)[j] = s[i + j]
  <2>1. i + 1 \in 1..(n + 1) /\ i \in 0..n
    BY <1>1
  <2>2. QED
    BY <1>1, <2>1
<1>5. PICK b \in Seq(Alphabet) : b = SubSeq(s, i + 1, n)
  BY <1>4
<1>6. PICK u \in Seq(Alphabet) : u = a \o b
  BY ConcatAt
<1>7. Len(u) = n /\ \A j \in 1..n : u[j] = s[j]
  <2>1. /\ Len(u) = i + (n - i)
        /\ \A j \in 1..i : u[j] = a[j]
        /\ \A j \in 1..(n - i) : u[i + j] = b[j]
    <3>1. PICK m \in Nat : m = Len(b) /\ m = n - i
      BY <1>4, <1>5
    <3>2. /\ Len(u) = i + m
          /\ \A j \in 1..i : u[j] = a[j]
          /\ \A j \in 1..m : u[i + j] = b[j]
      <4>1. /\ Len(a \o b) = Len(a) + Len(b)
            /\ \A j \in 1..Len(a) : (a \o b)[j] = a[j]
            /\ \A j \in 1..Len(b) : (a \o b)[Len(a) + j] = b[j]
        BY ConcatAt
      <4>2. Len(a) = i
        BY <1>3
      <4>3. QED
        BY <1>6, <3>1, <4>1, <4>2
    <3>3. QED
      BY <3>1, <3>2
  <2>2. ASSUME NEW j \in 1..n
        PROVE  u[j] = s[j]
    <3>1. CASE j \in 1..i
      BY <1>3, <2>1, <3>1
    <3>2. CASE j \notin 1..i
      <4>1. PICK k \in 1..(n - i) : j = i + k
        <5>1. j - i \in 1..(n - i) /\ j = i + (j - i)
          BY <1>1, <3>2
        <5>2. QED
          BY <5>1
      <4>2. QED
        BY <1>4, <1>5, <2>1, <4>1
    <3>3. QED
      BY <3>1, <3>2
  <2>3. QED
    BY <1>1, <2>1, <2>2
<1>8. u = s
  <2>1. DOMAIN u = 1..n /\ DOMAIN s = 1..n
    BY <1>1, <1>7
  <2>2. u = [j \in 1..n |-> u[j]] /\ s = [j \in 1..n |-> s[j]]
    BY <2>1
  <2>3. QED
    BY <1>7, <2>2
<1>9. QED
  BY <1>1, <1>2, <1>3, <1>4, <1>5, <1>6, <1>8

(* What is before a boundary is whole, and what is after any place. *)
LEMMA WholePieces ==
  ASSUME NEW s \in Seq(Alphabet), Whole(s), NEW i \in 0..Len(s)
  PROVE  /\ i = Len(s) \/ s[i + 1] # Cont => Whole(SubSeq(s, 1, i))
         /\ Whole(SubSeq(s, i + 1, Len(s)))
<1>1. PICK n \in Nat : n = Len(s) /\ DOMAIN s = 1..n
  OBVIOUS
<1>2. PICK a \in Seq(Alphabet), b \in Seq(Alphabet) :
        /\ a = SubSeq(s, 1, i) /\ b = SubSeq(s, i + 1, n)
        /\ Len(a) = i /\ Len(b) = n - i
        /\ \A j \in 1..i : a[j] = s[j]
        /\ \A j \in 1..(n - i) : b[j] = s[i + j]
  BY <1>1, PiecesAt
<1>3. ASSUME i = n \/ s[i + 1] # Cont, NEW k \in 1..i, a[k] # Cont
      PROVE  /\ k + Width[a[k]] - 1 <= i
             /\ \A j \in (k + 1)..(k + Width[a[k]] - 1) : a[j] = Cont
  <2>1. k \in DOMAIN s /\ a[k] = s[k] /\ s[k] # Cont
    BY <1>1, <1>2, <1>3
  <2>2. PICK w \in 1..4 : w = Width[s[k]]
    BY <2>1, WidthType
  <2>3. k + w - 1 <= n /\ \A j \in (k + 1)..(k + w - 1) : s[j] = Cont
    BY <1>1, <2>1, <2>2 DEF Whole
  <2>4. k + w - 1 <= i
    <3>1. SUFFICES ASSUME k + w - 1 > i
                   PROVE  FALSE
      BY <1>1, <2>2
    <3>2. i + 1 \in (k + 1)..(k + w - 1) /\ i # n
      BY <1>1, <2>3, <3>1
    <3>3. QED
      BY <1>3, <2>3, <3>2
  <2>5. \A j \in (k + 1)..(k + w - 1) : j \in 1..i
    BY <2>4
  <2>6. QED
    BY <1>2, <2>1, <2>2, <2>3, <2>4, <2>5
<1>4. ASSUME NEW k \in 1..(n - i), b[k] # Cont
      PROVE  /\ k + Width[b[k]] - 1 <= n - i
             /\ \A j \in (k + 1)..(k + Width[b[k]] - 1) : b[j] = Cont
  <2>1. PICK m \in 1..n : m = i + k
    BY <1>1
  <2>2. m \in DOMAIN s /\ b[k] = s[m] /\ s[m] # Cont
    BY <1>1, <1>2, <1>4, <2>1
  <2>3. PICK w \in 1..4 : w = Width[s[m]]
    BY <2>2, WidthType
  <2>4. m + w - 1 <= n /\ \A j \in (m + 1)..(m + w - 1) : s[j] = Cont
    BY <1>1, <2>2, <2>3 DEF Whole
  <2>5. \A j \in (k + 1)..(k + w - 1) :
          j \in 1..(n - i) /\ i + j \in (m + 1)..(m + w - 1)
    BY <1>1, <2>1, <2>4
  <2>6. k + w - 1 <= n - i
    BY <1>1, <2>1, <2>4
  <2>7. QED
    BY <1>2, <2>2, <2>3, <2>4, <2>5, <2>6
<1>5. DOMAIN a = 1..i /\ DOMAIN b = 1..(n - i)
  BY <1>1, <1>2
<1>6. (i = n \/ s[i + 1] # Cont) => Whole(a)
  BY <1>2, <1>3, <1>5 DEF Whole
<1>7. Whole(b)
  BY <1>2, <1>4, <1>5 DEF Whole
<1>8. QED
  BY <1>1, <1>2, <1>6, <1>7

(* Every continuation byte of a line belongs to a character before it. *)
Owned(s) ==
  \A j \in DOMAIN s : s[j] = Cont =>
    \E i \in 1..(j - 1) : s[i] # Cont /\ j <= i + Width[s[i]] - 1

(* Two pieces put together. *)
LEMMA OwnedConcat ==
  ASSUME NEW s \in Seq(Alphabet), NEW t \in Seq(Alphabet), Owned(s), Owned(t)
  PROVE  Owned(s \o t)
<1>1. PICK n \in Nat, m \in Nat : n = Len(s) /\ m = Len(t)
  OBVIOUS
<1>2. PICK u \in Seq(Alphabet) : u = s \o t
  BY ConcatAt
<1>3. /\ DOMAIN u = 1..(n + m) /\ DOMAIN s = 1..n /\ DOMAIN t = 1..m
      /\ \A i \in 1..n : u[i] = s[i]
      /\ \A i \in 1..m : u[n + i] = t[i]
  BY <1>1, <1>2, ConcatAt
<1>4. ASSUME NEW j \in DOMAIN u, u[j] = Cont
      PROVE  \E i \in 1..(j - 1) : u[i] # Cont /\ j <= i + Width[u[i]] - 1
  <2>1. CASE j \in 1..n
    <3>1. s[j] = Cont
      BY <1>3, <1>4, <2>1
    <3>2. PICK i \in 1..(j - 1) : s[i] # Cont /\ j <= i + Width[s[i]] - 1
      BY <1>3, <2>1, <3>1 DEF Owned
    <3>3. i \in 1..n
      BY <2>1
    <3>4. QED
      BY <1>3, <3>2, <3>3
  <2>2. CASE j \in (n + 1)..(n + m)
    <3>1. PICK k \in 1..m : j = n + k
      <4>1. j - n \in 1..m /\ j = n + (j - n)
        BY <2>2
      <4>2. QED
        BY <4>1
    <3>2. t[k] = Cont
      BY <1>3, <1>4, <3>1
    <3>3. PICK i \in 1..(k - 1) : t[i] # Cont /\ k <= i + Width[t[i]] - 1
      BY <1>3, <3>2 DEF Owned
    <3>4. i \in 1..m /\ n + i \in 1..(j - 1) /\ u[n + i] = t[i]
      BY <1>3, <3>1
    <3>5. PICK w \in 1..4 : w = Width[t[i]]
      BY <1>3, <3>3, <3>4, WidthType
    <3>6. j <= (n + i) + w - 1
      BY <3>1, <3>3, <3>5
    <3>7. QED
      BY <3>3, <3>4, <3>5, <3>6
  <2>3. QED
    BY <1>3, <2>1, <2>2
<1>5. QED
  BY <1>2, <1>4 DEF Owned

(* A character that is typed owns the bytes behind its first. *)
LEMMA OwnedBytes ==
  ASSUME NEW c \in Chars
  PROVE  Owned(Bytes(c))
<1>1. PICK rest \in Seq(Alphabet) : Bytes(c) = <<c>> \o rest
  BY BytesAre
<1>2. PICK u \in Seq(Alphabet) : u = Bytes(c) /\ Len(u) = Width[c]
  BY BytesType
<1>3. PICK w \in 1..4 : w = Width[c]
  BY EditorAssumption
<1>4. c # Cont
  BY EditorAssumption
<1>5. u[1] = c
  <2>1. <<c>> \in Seq(Alphabet) /\ Len(<<c>>) = 1 /\ <<c>>[1] = c /\ 1 \in 1..1
    BY DEF Alphabet
  <2>2. QED
    BY <1>1, <1>2, <2>1, ConcatAt
<1>6. ASSUME NEW j \in DOMAIN u, u[j] = Cont
      PROVE  \E i \in 1..(j - 1) : u[i] # Cont /\ j <= i + Width[u[i]] - 1
  <2>1. j \in 1..w /\ j # 1
    BY <1>2, <1>3, <1>4, <1>5, <1>6
  <2>2. 1 \in 1..(j - 1) /\ j <= 1 + w - 1
    BY <2>1
  <2>3. QED
    BY <1>3, <1>4, <1>5, <2>2
<1>7. QED
  BY <1>2, <1>6 DEF Owned

(* In a line of whole characters, the owner of a byte behind a boundary is  *)
(* behind it too.                                                           *)
LEMMA OwnerBehind ==
  ASSUME NEW s \in Seq(Alphabet), Whole(s), Owned(s), NEW i \in 0..Len(s),
         i < Len(s), s[i + 1] # Cont, NEW j \in DOMAIN s, j > i, s[j] = Cont
  PROVE  \E k \in (i + 1)..(j - 1) :
            s[k] # Cont /\ j <= k + Width[s[k]] - 1
<1>1. PICK n \in Nat : n = Len(s) /\ DOMAIN s = 1..n /\ j \in 1..n
  OBVIOUS
<1>2. PICK k \in 1..(j - 1) : s[k] # Cont /\ j <= k + Width[s[k]] - 1
  BY DEF Owned
<1>3. k \in DOMAIN s
  BY <1>1
<1>4. PICK w \in 1..4 : w = Width[s[k]]
  BY <1>2, <1>3, WidthType
<1>5. \A m \in (k + 1)..(k + w - 1) : s[m] = Cont
  BY <1>2, <1>3, <1>4 DEF Whole
<1>6. k > i
  <2>1. SUFFICES ASSUME k <= i
                 PROVE  FALSE
    BY <1>1
  <2>2. i + 1 \in (k + 1)..(k + w - 1)
    BY <1>1, <1>2, <1>4, <2>1
  <2>3. QED
    BY <1>5, <2>2
<1>7. QED
  BY <1>1, <1>2, <1>6

(* What is before any place is owned, and what is after a boundary. *)
LEMMA OwnedPieces ==
  ASSUME NEW s \in Seq(Alphabet), Whole(s), Owned(s), NEW i \in 0..Len(s)
  PROVE  /\ Owned(SubSeq(s, 1, i))
         /\ i = Len(s) \/ s[i + 1] # Cont => Owned(SubSeq(s, i + 1, Len(s)))
<1>1. PICK n \in Nat : n = Len(s) /\ DOMAIN s = 1..n
  OBVIOUS
<1>2. PICK a \in Seq(Alphabet), b \in Seq(Alphabet) :
        /\ a = SubSeq(s, 1, i) /\ b = SubSeq(s, i + 1, n)
        /\ Len(a) = i /\ Len(b) = n - i
        /\ \A j \in 1..i : a[j] = s[j]
        /\ \A j \in 1..(n - i) : b[j] = s[i + j]
  BY <1>1, PiecesAt
<1>3. DOMAIN a = 1..i /\ DOMAIN b = 1..(n - i)
  BY <1>1, <1>2
<1>4. ASSUME NEW j \in 1..i, a[j] = Cont
      PROVE  \E k \in 1..(j - 1) : a[k] # Cont /\ j <= k + Width[a[k]] - 1
  <2>1. j \in DOMAIN s /\ s[j] = Cont
    BY <1>1, <1>2, <1>4
  <2>2. PICK k \in 1..(j - 1) : s[k] # Cont /\ j <= k + Width[s[k]] - 1
    BY <2>1 DEF Owned
  <2>3. k \in 1..i
    BY <1>1
  <2>4. QED
    BY <1>2, <2>2, <2>3
<1>5. ASSUME i = n \/ s[i + 1] # Cont, NEW j \in 1..(n - i), b[j] = Cont
      PROVE  \E k \in 1..(j - 1) : b[k] # Cont /\ j <= k + Width[b[k]] - 1
  <2>1. /\ i < n /\ s[i + 1] # Cont /\ i + j \in 1..n /\ i + j > i
        /\ s[i + j] = Cont
    BY <1>1, <1>2, <1>5
  <2>2. PICK m \in (i + 1)..((i + j) - 1) :
          s[m] # Cont /\ i + j <= m + Width[s[m]] - 1
    BY <1>1, <2>1, OwnerBehind
  <2>3. m \in DOMAIN s
    BY <1>1, <2>1
  <2>4. PICK w \in 1..4 : w = Width[s[m]]
    BY <2>2, <2>3, WidthType
  <2>5. PICK k \in 1..(j - 1) : m = i + k
    <3>1. m - i \in 1..(j - 1) /\ m = i + (m - i)
      BY <1>1
    <3>2. QED
      BY <3>1
  <2>6. k \in 1..(n - i) /\ b[k] = s[m]
    BY <1>1, <1>2, <2>5
  <2>7. j <= k + w - 1
    BY <1>1, <2>2, <2>4, <2>5
  <2>8. QED
    BY <2>2, <2>4, <2>6, <2>7
<1>6. Owned(a)
  BY <1>3, <1>4 DEF Owned
<1>7. (i = n \/ s[i + 1] # Cont) => Owned(b)
  BY <1>3, <1>5 DEF Owned
<1>8. QED
  BY <1>1, <1>2, <1>6, <1>7

(* Behind a character is another one, or the end of the line. *)
LEMMA CharacterEnds ==
  ASSUME NEW s \in Seq(Alphabet), Whole(s), Owned(s), NEW q \in 0..Len(s),
         q < Len(s), s[q + 1] # Cont, NEW e, e = q + Width[s[q + 1]]
  PROVE  e \in 0..Len(s) /\ (e = Len(s) \/ s[e + 1] # Cont)
<1>1. PICK n \in Nat : n = Len(s) /\ DOMAIN s = 1..n /\ q + 1 \in 1..n
  OBVIOUS
<1>2. PICK w \in 1..4 : w = Width[s[q + 1]]
  BY <1>1, WidthType
<1>3. /\ (q + 1) + w - 1 <= n
      /\ \A m \in ((q + 1) + 1)..((q + 1) + w - 1) : s[m] = Cont
  BY <1>1, <1>2 DEF Whole
<1>4. e = q + w /\ e \in 0..n /\ e >= q + 1
  BY <1>1, <1>2, <1>3
<1>5. ASSUME e # n, s[e + 1] = Cont
      PROVE  FALSE
  <2>1. e + 1 \in DOMAIN s /\ e + 1 > q
    BY <1>1, <1>4, <1>5
  <2>2. PICK k \in (q + 1)..((e + 1) - 1) :
          s[k] # Cont /\ e + 1 <= k + Width[s[k]] - 1
    BY <1>5, <2>1, OwnerBehind
  <2>3. CASE k = q + 1
    BY <1>1, <1>2, <1>4, <2>2, <2>3
  <2>4. CASE k # q + 1
    <3>1. k \in ((q + 1) + 1)..((q + 1) + w - 1)
      BY <1>1, <1>2, <1>4, <2>4
    <3>2. QED
      BY <1>3, <2>2, <3>1
  <2>5. QED
    BY <2>3, <2>4
<1>6. QED
  BY <1>1, <1>4, <1>5

-----------------------------------------------------------------------------
(* The line as its user sees it.                                            *)

(* A text cut where two pieces meet. *)
LEMMA CutConcat ==
  ASSUME NEW S, NEW a \in Seq(S), NEW b \in Seq(S)
  PROVE  /\ SubSeq(a \o b, 1, Len(a)) = a
         /\ SubSeq(a \o b, Len(a) + 1, Len(a \o b)) = b
         /\ Len(a) \in 0..Len(a \o b)
<1>1. PICK n \in Nat, m \in Nat : n = Len(a) /\ m = Len(b)
  OBVIOUS
<1>2. PICK u \in Seq(S) : u = a \o b /\ Len(u) = n + m
  <2>1. a \o b \in Seq(S) /\ Len(a \o b) = n + m
    BY <1>1
  <2>2. QED
    BY <2>1
<1>3. (\A i \in 1..n : u[i] = a[i]) /\ (\A i \in 1..m : u[n + i] = b[i])
  BY <1>1, <1>2
<1>4. /\ SubSeq(u, 1, n) \in Seq(S) /\ Len(SubSeq(u, 1, n)) = n
      /\ \A i \in 1..n : SubSeq(u, 1, n)[i] = u[i]
  BY <1>2
<1>5. /\ SubSeq(u, n + 1, n + m) \in Seq(S)
      /\ Len(SubSeq(u, n + 1, n + m)) = m
      /\ \A i \in 1..m : SubSeq(u, n + 1, n + m)[i] = u[n + i]
  BY <1>2
<1>6. SubSeq(u, 1, n) = a
  <2>1. PICK v \in Seq(S) : v = SubSeq(u, 1, n)
    BY <1>4
  <2>2. /\ v = [i \in 1..n |-> v[i]] /\ a = [i \in 1..n |-> a[i]]
    BY <1>1, <1>4, <2>1
  <2>3. \A i \in 1..n : v[i] = a[i]
    BY <1>3, <1>4, <2>1
  <2>4. QED
    BY <2>1, <2>2, <2>3
<1>7. SubSeq(u, n + 1, n + m) = b
  <2>1. PICK v \in Seq(S) : v = SubSeq(u, n + 1, n + m)
    BY <1>5
  <2>2. /\ v = [i \in 1..m |-> v[i]] /\ b = [i \in 1..m |-> b[i]]
    BY <1>1, <1>5, <2>1
  <2>3. \A i \in 1..m : v[i] = b[i]
    BY <1>3, <1>5, <2>1
  <2>4. QED
    BY <2>1, <2>2, <2>3
<1>8. n \in 0..(n + m) /\ Len(a \o b) = n + m
  BY <1>2
<1>9. QED
  BY <1>1, <1>2, <1>6, <1>7, <1>8

(* The text and the point of a line at a place of the cursor. *)
PointAt(s, i) == Len(Characters(SubSeq(s, 1, i)))

(* The cursor cuts the text at the point. *)
LEMMA TextAt ==
  ASSUME NEW s \in Seq(Alphabet), NEW i \in 0..Len(s)
  PROVE  LET a == Characters(SubSeq(s, 1, i))
             b == Characters(SubSeq(s, i + 1, Len(s)))
             text == Characters(s)
         IN /\ a \in Seq(Chars) /\ b \in Seq(Chars) /\ text \in Seq(Chars)
            /\ text = a \o b
            /\ PointAt(s, i) \in 0..Len(text)
            /\ SubSeq(text, 1, PointAt(s, i)) = a
            /\ SubSeq(text, PointAt(s, i) + 1, Len(text)) = b
<1>1. PICK x \in Seq(Alphabet), y \in Seq(Alphabet) :
        /\ x = SubSeq(s, 1, i) /\ y = SubSeq(s, i + 1, Len(s)) /\ s = x \o y
  BY PiecesAt
<1>2. PICK a \in Seq(Chars), b \in Seq(Chars), text \in Seq(Chars) :
        a = Characters(x) /\ b = Characters(y) /\ text = Characters(s)
  BY <1>1, CharactersConcat
<1>3. text = a \o b
  BY <1>1, <1>2, CharactersConcat
<1>4. PointAt(s, i) = Len(a)
  BY <1>1, <1>2 DEF PointAt
<1>5. /\ SubSeq(text, 1, Len(a)) = a
      /\ SubSeq(text, Len(a) + 1, Len(text)) = b
      /\ Len(a) \in 0..Len(text)
  BY <1>3, CutConcat
<1>6. QED
  BY <1>1, <1>2, <1>3, <1>4, <1>5

(* Over a byte the point moves by one, or, if the byte goes on with a       *)
(* character, not at all.                                                   *)
LEMMA PointMoves ==
  ASSUME NEW s \in Seq(Alphabet), NEW i \in 0..Len(s), i < Len(s)
  PROVE  /\ Characters(SubSeq(s, 1, i)) \in Seq(Chars)
         /\ Characters(SubSeq(s, 1, i + 1)) =
              IF s[i + 1] = Cont THEN Characters(SubSeq(s, 1, i))
              ELSE Append(Characters(SubSeq(s, 1, i)), s[i + 1])
         /\ PointAt(s, i + 1) =
              IF s[i + 1] = Cont THEN PointAt(s, i) ELSE PointAt(s, i) + 1
<1>1. PICK n \in Nat : n = Len(s) /\ i + 1 \in 0..n /\ i + 1 \in 1..n
  OBVIOUS
<1>2. PICK x \in Seq(Alphabet) : x = SubSeq(s, 1, i)
  BY PiecesAt
<1>3. s[i + 1] \in Alphabet
  BY <1>1
<1>4. SubSeq(s, 1, i + 1) = Append(SubSeq(s, 1, i), s[i + 1])
  BY <1>1
<1>5. Characters(x) \in Seq(Chars)
  BY <1>2, CharactersConcat
<1>6. Characters(SubSeq(s, 1, i + 1)) =
        IF s[i + 1] = Cont THEN Characters(x)
        ELSE Append(Characters(x), s[i + 1])
  BY <1>2, <1>3, <1>4, CharactersAppend
<1>7. s[i + 1] # Cont => s[i + 1] \in Chars
  BY <1>3 DEF Alphabet
<1>8. PICK z \in Seq(Chars) : z = Characters(x)
  BY <1>5
<1>9. s[i + 1] # Cont => Len(Append(z, s[i + 1])) = Len(z) + 1
  BY <1>7
<1>10. QED
  BY <1>2, <1>5, <1>6, <1>8, <1>9 DEF PointAt

(* A continuation byte means a character of the text that is wide. *)
LEMMA WideShown ==
  ASSUME NEW s \in Seq(Alphabet), Owned(s), NEW j \in DOMAIN s, s[j] = Cont
  PROVE  \E k \in DOMAIN Characters(s) :
            Characters(s)[k] \in {c \in Chars : Width[c] > 1}
<1>1. PICK n \in Nat : n = Len(s) /\ DOMAIN s = 1..n
  OBVIOUS
<1>2. PICK i \in 1..(j - 1) : s[i] # Cont /\ j <= i + Width[s[i]] - 1
  BY DEF Owned
<1>3. i \in DOMAIN s /\ j > i
  BY <1>1
<1>4. s[i] \in Chars /\ Width[s[i]] \in 1..4
  BY <1>2, <1>3, WidthType
<1>5. s[i] \in {c \in Chars : Width[c] > 1}
  BY <1>1, <1>2, <1>3, <1>4
<1>6. PICK q \in 0..n : q + 1 = i /\ q < n
  <2>1. i - 1 \in 0..n /\ (i - 1) + 1 = i /\ i - 1 < n
    BY <1>1, <1>3
  <2>2. QED
    BY <2>1
<1>7. PICK a \in Seq(Chars) : a = Characters(SubSeq(s, 1, q))
  BY <1>1, <1>6, PointMoves
<1>8. Characters(SubSeq(s, 1, i)) = Append(a, s[i])
  BY <1>1, <1>2, <1>6, <1>7, PointMoves
<1>9. PICK b \in Seq(Chars) : Characters(s) = Append(a, s[i]) \o b
  <2>1. i \in 0..Len(s)
    BY <1>1, <1>3
  <2>2. QED
    BY <1>8, <2>1, TextAt
<1>10. PICK m \in Nat, k \in Nat : m = Len(a) /\ k = Len(b)
  OBVIOUS
<1>11. /\ m + 1 \in DOMAIN (Append(a, s[i]) \o b)
       /\ (Append(a, s[i]) \o b)[m + 1] = s[i]
  BY <1>4, <1>10
<1>12. QED
  BY <1>5, <1>9, <1>11

(* In a line without continuation bytes the point is at the cursor. *)
LEMMA NarrowPoint ==
  ASSUME NEW s \in Seq(Alphabet), \A j \in DOMAIN s : s[j] # Cont,
         NEW i \in 0..Len(s)
  PROVE  PointAt(s, i) = i
<1> DEFINE T == {k \in Nat : k <= Len(s) /\ PointAt(s, k) # k}
<1>1. T = {}
  <2>1. SUFFICES ASSUME T # {}
                 PROVE  FALSE
    OBVIOUS
  <2>2. PICK k \in T : \A m \in T : k <= m
    <3>1. T \subseteq Nat
      OBVIOUS
    <3> HIDE DEF T
    <3>2. QED
      BY <2>1, <3>1, LeastNatural
  <2>3. k \in 0..Len(s) /\ PointAt(s, k) # k
    OBVIOUS
  <2>4. CASE k = 0
    <3>1. SubSeq(s, 1, 0) = <<>> /\ Len(<<>>) = 0
      OBVIOUS
    <3>2. PointAt(s, 0) = 0
      BY <3>1, CharactersEmpty DEF PointAt
    <3>3. QED
      BY <2>3, <2>4, <3>2
  <2>5. CASE k # 0
    <3>1. PICK q \in Nat : /\ k = q + 1 /\ q \in 0..Len(s) /\ q < Len(s)
                           /\ q \notin T
      <4>1. /\ k - 1 \in Nat /\ k = (k - 1) + 1 /\ k - 1 \in 0..Len(s)
            /\ k - 1 < Len(s)
        BY <2>3, <2>5
      <4>2. k - 1 \notin T
        BY <2>2, <4>1
      <4> HIDE DEF T
      <4>3. QED
        BY <4>1, <4>2
    <3>2. PointAt(s, q) = q /\ q + 1 \in DOMAIN s
      BY <3>1
    <3>3. PointAt(s, q + 1) = PointAt(s, q) + 1
      BY <3>1, <3>2, PointMoves
    <3>4. QED
      BY <2>3, <3>1, <3>2, <3>3
  <2>6. QED
    BY <2>4, <2>5
<1>2. i \notin T
  BY <1>1
<1>3. QED
  BY <1>2

-----------------------------------------------------------------------------
(* The prompt line implements the text editor.                              *)

(* The inductive invariant: no character of the line is ever cut, and what  *)
(* goes on with one follows one.                                            *)
LineInv == EditorInv /\ Whole(input) /\ Owned(input)

(* The cursor is drawn where keys take effect, or a character is wide. *)
LEMMA DrawnCursor == LineInv => Text!Aligned
<1> SUFFICES ASSUME LineInv
             PROVE  Text!Aligned
  OBVIOUS
<1>1. /\ input \in Seq(Alphabet) /\ cursor_position \in 0..Len(input)
      /\ Owned(input)
  BY DEF LineInv, EditorInv, EditorTypeOK, Alphabet
<1>2. CASE \E j \in DOMAIN input : input[j] = Cont
  BY <1>1, <1>2, WideShown DEF Text!Aligned, Text!HasWide
<1>3. CASE \A j \in DOMAIN input : input[j] # Cont
  BY <1>1, <1>3, NarrowPoint DEF Text!Aligned, CursorColumn, PointAt
<1>4. QED
  BY <1>2, <1>3

(* A panic is a breakdown over a wide character. *)
LEMMA PanicBreaks ==
  ASSUME LineInv, EditorInv', Panic
  PROVE  Text!BreakDown
<1>1. input \in Seq(Alphabet) /\ Owned(input)
  BY DEF LineInv, EditorInv, EditorTypeOK, Alphabet
<1>2. PICK j \in DOMAIN input : input[j] = Cont
  BY DEF EditorInv, PanicNeedsWide, Panic
<1>3. Text!HasWide
  BY <1>1, <1>2, WideShown DEF Text!HasWide
<1>4. QED
  BY <1>3 DEF Panic, Text!BreakDown, CursorColumn

(* What a character that is typed does, to the bytes and to what the user   *)
(* sees.                                                                    *)
LEMMA EnterLine ==
  ASSUME LineInv, NEW c \in Chars, EnterChar(c)
  PROVE  Panic \/ (Whole(input)' /\ Owned(input)' /\ Text!Type(c))
<1> DEFINE p == cursor_position
<1>1. /\ input \in Seq(Alphabet) /\ p \in 0..Len(input) /\ Whole(input)
      /\ Owned(input) /\ Len(input) \in Nat
  BY DEF LineInv, EditorInv, EditorTypeOK, Alphabet
<1>2. CASE /\ IsBoundary(p)
           /\ input' = SubSeq(input, 1, p) \o Bytes(c)
                         \o SubSeq(input, p + 1, Len(input))
           /\ cursor_position' = p + 1 /\ UNCHANGED panicked
  <2>1. PICK a \in Seq(Alphabet), b \in Seq(Alphabet), d \in Seq(Alphabet) :
          /\ a = SubSeq(input, 1, p) /\ b = SubSeq(input, p + 1, Len(input))
          /\ d = Bytes(c)
    BY <1>1, PiecesAt, BytesType
  <2>2. Whole(a) /\ Whole(b) /\ Whole(d) /\ Owned(a) /\ Owned(b) /\ Owned(d)
    <3>1. p = Len(input) \/ input[p + 1] # Cont
      BY <1>2 DEF IsBoundary
    <3>2. QED
      BY <1>1, <2>1, <3>1, WholePieces, WholeBytes, OwnedPieces, OwnedBytes
  <2>3. PICK u \in Seq(Alphabet), v \in Seq(Alphabet) :
          u = a \o d /\ v = u \o b /\ input' = v
    BY <1>2, <2>1, ConcatAt
  <2>4. Whole(input') /\ Owned(input')
    BY <2>2, <2>3, WholeConcat, OwnedConcat
  <2>5. PICK x \in Seq(Chars), y \in Seq(Chars) :
          /\ x = Characters(a) /\ y = Characters(b)
          /\ Characters(input) = x \o y
          /\ PointAt(input, p) = Len(x)
    BY <1>1, <2>1, TextAt DEF PointAt
  <2>6. Characters(input') = (x \o <<c>>) \o y
    <3>1. Characters(v) = Characters(u) \o y
      BY <2>3, <2>5, CharactersConcat
    <3>2. Characters(u) = x \o <<c>>
      <4>1. Characters(u) = Characters(a) \o Characters(d)
        BY <2>3, CharactersConcat
      <4>2. Characters(d) = <<c>>
        BY <2>1, CharactersOfOne
      <4>3. QED
        BY <2>5, <4>1, <4>2
    <3>3. QED
      BY <2>3, <3>1, <3>2
  <2>7. PointAt(input', p + 1) = Len(x) + 1
    <3>1. PICK w \in 1..4, m \in Nat :
            Len(d) = w /\ Len(b) = m /\ d[1] = c
      <4>1. Len(d) \in 1..4 /\ Len(b) \in Nat
        <5>1. Len(Bytes(c)) = Width[c] /\ Width[c] \in 1..4
          BY BytesType
        <5>2. QED
          BY <2>1, <5>1
      <4>2. d[1] = c
        <5>1. PICK rest \in Seq(Alphabet) : d = <<c>> \o rest
          BY <2>1, BytesAre
        <5>2. <<c>> \in Seq(Alphabet) /\ Len(<<c>>) = 1 /\ <<c>>[1] = c
          BY DEF Alphabet
        <5>3. QED
          BY <5>1, <5>2
      <4>3. QED
        BY <4>1, <4>2
    <3>2. Len(a) = p /\ p \in Nat /\ Len(u) = p + w /\ Len(v) = p + w + m
      <4>1. Len(a) = p /\ p \in Nat
        BY <1>1, <2>1, PiecesAt
      <4>2. Len(u) = Len(a) + Len(d) /\ Len(v) = Len(u) + Len(b)
        BY <2>3, ConcatAt
      <4>3. QED
        BY <3>1, <4>1, <4>2
    <3>3. p \in 0..Len(v) /\ p < Len(v)
      BY <3>1, <3>2
    <3>4. SubSeq(v, 1, p) = a
      <4>1. PICK e \in Seq(Alphabet) : e = d \o b
        BY ConcatAt
      <4>2. v = a \o e
        BY <2>3, <4>1
      <4>3. SubSeq(a \o e, 1, Len(a)) = a
        BY CutConcat
      <4>4. QED
        BY <3>2, <4>2, <4>3
    <3>5. v[p + 1] = c
      <4>1. v[p + 1] = u[p + 1]
        <5>1. p + 1 \in 1..Len(u)
          BY <3>1, <3>2
        <5>2. QED
          BY <2>3, <5>1, ConcatAt
      <4>2. u[p + 1] = d[1]
        <5>1. 1 \in 1..Len(d)
          BY <3>1
        <5>2. (a \o d)[Len(a) + 1] = d[1]
          BY <5>1, ConcatAt
        <5>3. QED
          BY <2>3, <3>2, <5>2
      <4>3. QED
        BY <3>1, <4>1, <4>2
    <3>6. c # Cont
      BY EditorAssumption
    <3>7. PointAt(v, p + 1) = PointAt(v, p) + 1
      BY <3>3, <3>5, <3>6, PointMoves
    <3>8. PointAt(v, p) = Len(x)
      BY <2>5, <3>4 DEF PointAt
    <3>9. QED
      BY <2>3, <3>7, <3>8
  <2>8. /\ SubSeq(x \o y, 1, Len(x)) = x
        /\ SubSeq(x \o y, Len(x) + 1, Len(x \o y)) = y
    BY CutConcat
  <2>9. Text!Type(c)
    BY <1>2, <2>5, <2>6, <2>7, <2>8
    DEF Text!Type, Text!Before, Text!After, PointAt
  <2>10. QED
    BY <2>4, <2>9
<1>3. QED
  BY <1>2 DEF EnterChar

(* The rest of a character has no characters. *)
LEMMA RestOfCharacter ==
  ASSUME NEW s \in Seq(Alphabet), Whole(s), NEW q \in 0..Len(s), q < Len(s),
         s[q + 1] # Cont
  PROVE  LET e == q + Width[s[q + 1]] IN
         /\ e \in 0..Len(s)
         /\ Characters(SubSeq(s, (q + 1) + 1, Len(s)))
              = Characters(SubSeq(s, e + 1, Len(s)))
<1>1. PICK n \in Nat : /\ n = Len(s) /\ q + 1 \in DOMAIN s /\ q + 1 \in 0..n
                       /\ q \in Nat /\ q < n
  OBVIOUS
<1>2. PICK k \in 0..3 : Width[s[q + 1]] = k + 1
  <2>1. PICK w \in 1..4 : w = Width[s[q + 1]]
    BY <1>1, WidthType
  <2>2. w - 1 \in 0..3 /\ w = (w - 1) + 1
    BY <2>1
  <2>3. QED
    BY <2>1, <2>2
<1>3. (q + 1) + k <= n /\ \A j \in 1..k : s[(q + 1) + j] = Cont
  <2>1. /\ (q + 1) + (k + 1) - 1 <= n
        /\ \A j \in ((q + 1) + 1)..((q + 1) + (k + 1) - 1) : s[j] = Cont
    BY <1>1, <1>2 DEF Whole
  <2>2. \A j \in 1..k : (q + 1) + j \in ((q + 1) + 1)..((q + 1) + (k + 1) - 1)
    BY <1>1, <1>2
  <2>3. (q + 1) + k <= n
    BY <1>1, <1>2, <2>1
  <2>4. QED
    BY <2>1, <2>2, <2>3
<1>4. PICK e \in 0..n, h \in Nat : e = (q + 1) + k /\ n = e + h
  <2>1. (q + 1) + k \in 0..n /\ n - ((q + 1) + k) \in Nat
        /\ n = ((q + 1) + k) + (n - ((q + 1) + k))
    BY <1>1, <1>3
  <2>2. QED
    BY <2>1
<1>5. PICK t \in Seq(Alphabet) :
        /\ t = SubSeq(s, (q + 1) + 1, n) /\ Len(t) = k + h
        /\ \A j \in 1..(k + h) : t[j] = s[(q + 1) + j]
  <2>1. n - (q + 1) = k + h
    BY <1>1, <1>4
  <2>2. /\ SubSeq(s, (q + 1) + 1, Len(s)) \in Seq(Alphabet)
        /\ Len(SubSeq(s, (q + 1) + 1, Len(s))) = Len(s) - (q + 1)
        /\ \A j \in 1..(Len(s) - (q + 1)) :
              SubSeq(s, (q + 1) + 1, Len(s))[j] = s[(q + 1) + j]
    <3>1. q + 1 \in 0..Len(s)
      BY <1>1
    <3>2. QED
      BY <3>1, PiecesAt
  <2>3. QED
    BY <1>1, <2>1, <2>2
<1>6. PICK b \in Seq(Alphabet) :
        /\ b = SubSeq(s, e + 1, n) /\ Len(b) = h
        /\ \A j \in 1..h : b[j] = s[e + j]
  <2>1. n - e = h
    BY <1>4
  <2>2. /\ SubSeq(s, e + 1, Len(s)) \in Seq(Alphabet)
        /\ Len(SubSeq(s, e + 1, Len(s))) = Len(s) - e
        /\ \A j \in 1..(Len(s) - e) : SubSeq(s, e + 1, Len(s))[j] = s[e + j]
    <3>1. e \in 0..Len(s)
      BY <1>1
    <3>2. QED
      BY <3>1, PiecesAt
  <2>3. QED
    BY <1>1, <2>1, <2>2
<1>7. PICK r \in Seq(Alphabet) : Len(r) = k /\ \A j \in 1..k : r[j] = Cont
  <2>1. /\ [j \in 1..k |-> Cont] \in Seq(Alphabet)
        /\ Len([j \in 1..k |-> Cont]) = k
        /\ \A j \in 1..k : [i \in 1..k |-> Cont][j] = Cont
    BY DEF Alphabet
  <2>2. QED
    BY <2>1
<1>8. PICK v \in Seq(Alphabet) :
        /\ v = r \o b /\ Len(v) = k + h
        /\ \A j \in 1..k : v[j] = r[j]
        /\ \A j \in 1..h : v[k + j] = b[j]
  <2>1. /\ Len(r \o b) = Len(r) + Len(b) /\ r \o b \in Seq(Alphabet)
        /\ \A j \in 1..Len(r) : (r \o b)[j] = r[j]
        /\ \A j \in 1..Len(b) : (r \o b)[Len(r) + j] = b[j]
    BY ConcatAt
  <2>2. Len(r) = k /\ Len(b) = h
    BY <1>6, <1>7
  <2>3. /\ Len(r \o b) = k + h /\ r \o b \in Seq(Alphabet)
        /\ \A j \in 1..k : (r \o b)[j] = r[j]
        /\ \A j \in 1..h : (r \o b)[k + j] = b[j]
    BY <2>1, <2>2
  <2>4. QED
    BY <2>3
<1>9. t = v
  <2>1. t = [j \in 1..(k + h) |-> t[j]] /\ v = [j \in 1..(k + h) |-> v[j]]
    <3>1. PICK g \in Nat : g = k + h
      BY <1>4
    <3>2. t \in Seq(Alphabet) /\ Len(t) = g
      BY <1>5, <3>1
    <3>3. v \in Seq(Alphabet) /\ Len(v) = g
      BY <1>8, <3>1
    <3>4. t = [j \in 1..g |-> t[j]]
      BY <3>2
    <3>5. v = [j \in 1..g |-> v[j]]
      BY <3>3
    <3>6. QED
      BY <3>1, <3>4, <3>5
  <2>2. ASSUME NEW j \in 1..(k + h)
        PROVE  t[j] = v[j]
    <3>1. CASE j \in 1..k
      BY <1>3, <1>5, <1>7, <1>8, <3>1
    <3>2. CASE j \notin 1..k
      <4>1. PICK i \in 1..h : j = k + i
        <5>1. j - k \in 1..h /\ j = k + (j - k)
          BY <3>2
        <5>2. QED
          BY <5>1
      <4>2. (q + 1) + j = e + i
        BY <1>1, <1>4, <4>1
      <4>3. t[j] = s[(q + 1) + j]
        BY <1>5
      <4>4. v[k + i] = b[i] /\ b[i] = s[e + i]
        BY <1>6, <1>8, <4>1
      <4>5. QED
        BY <4>1, <4>2, <4>3, <4>4
    <3>3. QED
      BY <3>1, <3>2
  <2>3. QED
    BY <2>1, <2>2
<1>10. Characters(t) = Characters(b)
  <2>1. \A j \in DOMAIN r : r[j] = Cont
    BY <1>7
  <2>2. Characters(r) = <<>>
    BY <2>1, CharactersOfConts
  <2>3. PICK y \in Seq(Chars) : y = Characters(b)
    BY CharactersConcat
  <2>4. Characters(v) = <<>> \o y
    BY <1>8, <2>2, <2>3, CharactersConcat
  <2>5. <<>> \o y = y
    OBVIOUS
  <2>6. QED
    BY <1>9, <2>3, <2>4, <2>5
<1>11. q + Width[s[q + 1]] = e
  <2>1. q + (k + 1) = e
    BY <1>1, <1>4
  <2>2. QED
    BY <1>2, <2>1
<1>12. QED
  BY <1>1, <1>4, <1>5, <1>6, <1>10, <1>11

(* What erasing a character does. *)
LEMMA DeleteLine ==
  ASSUME LineInv, DeleteChar
  PROVE  Panic \/ (Whole(input)' /\ Owned(input)' /\ Text!Erase)
<1>1. PICK q \in Nat : /\ q = cursor_position - 1 /\ cursor_position = q + 1
                       /\ q \in 0..Len(input) /\ q < Len(input)
                       /\ q + 1 \in 0..Len(input)
  <2>1. /\ cursor_position \in 0..Len(input) /\ cursor_position # 0
        /\ Len(input) \in Nat
    BY DEF LineInv, EditorInv, EditorTypeOK, DeleteChar
  <2>2. QED
    BY <2>1
<1>2. input \in Seq(Alphabet) /\ Whole(input) /\ Owned(input)
  BY DEF LineInv, EditorInv, EditorTypeOK, Alphabet
<1>3. CASE /\ IsBoundary(q)
           /\ input' = SubSeq(input, 1, q)
                         \o SubSeq(input, CharEnd(q) + 1, Len(input))
           /\ cursor_position' = q /\ UNCHANGED panicked
  <2>1. input[q + 1] # Cont
    BY <1>1, <1>3 DEF IsBoundary
  <2>2. PICK e \in 0..Len(input) :
          /\ e = CharEnd(q) /\ (e = Len(input) \/ input[e + 1] # Cont)
          /\ Characters(SubSeq(input, (q + 1) + 1, Len(input)))
               = Characters(SubSeq(input, e + 1, Len(input)))
    BY <1>1, <1>2, <2>1, RestOfCharacter, CharacterEnds DEF CharEnd
  <2>3. PICK a \in Seq(Alphabet), b \in Seq(Alphabet), v \in Seq(Alphabet) :
          /\ a = SubSeq(input, 1, q) /\ b = SubSeq(input, e + 1, Len(input))
          /\ v = a \o b /\ input' = v /\ Len(a) = q
    <3>1. /\ SubSeq(input, 1, q) \in Seq(Alphabet)
          /\ Len(SubSeq(input, 1, q)) = q
      BY <1>1, <1>2, PiecesAt
    <3>2. SubSeq(input, e + 1, Len(input)) \in Seq(Alphabet)
      BY <1>2, <2>2, PiecesAt
    <3>3. SubSeq(input, 1, q) \o SubSeq(input, e + 1, Len(input))
            \in Seq(Alphabet)
      BY <3>1, <3>2, ConcatAt
    <3>4. QED
      BY <1>3, <2>2, <3>1, <3>2, <3>3
  <2>4. Whole(input') /\ Owned(input')
    <3>1. Whole(a) /\ Owned(a)
      BY <1>1, <1>2, <2>1, <2>3, WholePieces, OwnedPieces
    <3>2. Whole(b) /\ Owned(b)
      BY <1>2, <2>2, <2>3, WholePieces, OwnedPieces
    <3>3. QED
      BY <2>3, <3>1, <3>2, WholeConcat, OwnedConcat
  <2>5. PICK x \in Seq(Chars), y \in Seq(Chars) :
          x = Characters(a) /\ y = Characters(b)
    BY CharactersConcat
  <2> DEFINE text == Characters(input)
             point == PointAt(input, q + 1)
  <2>6. SubSeq(text, 1, Len(x)) = x /\ PointAt(input, q) = Len(x)
    BY <1>1, <1>2, <2>3, <2>5, TextAt DEF PointAt
  <2>7. SubSeq(text, point + 1, Len(text)) = y
    <3>1. SubSeq(Characters(input), PointAt(input, q + 1) + 1,
                 Len(Characters(input)))
            = Characters(SubSeq(input, (q + 1) + 1, Len(input)))
      BY <1>1, <1>2, TextAt
    <3>2. QED
      BY <2>2, <2>3, <2>5, <3>1
  <2>8. point = Len(x) + 1 /\ Len(x) \in Nat
    <3>1. PointAt(input, q + 1) =
            IF input[q + 1] = Cont THEN PointAt(input, q)
            ELSE PointAt(input, q) + 1
      BY <1>1, <1>2, PointMoves
    <3>2. Len(x) \in Nat
      BY <2>5
    <3>3. QED
      BY <2>1, <2>6, <3>1, <3>2
  <2>9. Characters(input') = x \o y
    BY <2>3, <2>5, CharactersConcat
  <2>10. PointAt(input', q) = Len(x)
    <3>1. SubSeq(a \o b, 1, Len(a)) = a
      BY CutConcat
    <3>2. QED
      BY <2>3, <2>5, <3>1 DEF PointAt
  <2>11. /\ point > 0 /\ point - 1 = Len(x)
    BY <2>8
  <2> HIDE DEF text, point
  <2>12. Characters(input') = SubSeq(text, 1, point - 1)
                                \o SubSeq(text, point + 1, Len(text))
    BY <2>6, <2>7, <2>9, <2>11
  <2>13. Text!Erase
    BY <1>1, <1>3, <2>10, <2>11, <2>12
    DEF Text!Erase, Text!After, PointAt, text, point
  <2>14. QED
    BY <2>4, <2>13
<1>4. QED
  BY <1>1, <1>3 DEF DeleteChar

(* A move over a byte moves the point by one character, or leaves it.       *)
LEMMA MoveLine ==
  ASSUME LineInv, MoveCursorLeft \/ MoveCursorRight
  PROVE  Whole(input)' /\ Owned(input)' /\ Text!Move
<1>1. PICK q \in Nat :
        /\ q \in 0..Len(input) /\ q < Len(input) /\ q + 1 \in 0..Len(input)
        /\ \/ cursor_position = q /\ cursor_position' = q + 1
           \/ cursor_position = q + 1 /\ cursor_position' = q
  <2>1. cursor_position \in 0..Len(input) /\ Len(input) \in Nat
    BY DEF LineInv, EditorInv, EditorTypeOK
  <2>2. CASE MoveCursorRight
    BY <2>1, <2>2 DEF MoveCursorRight
  <2>3. CASE MoveCursorLeft
    <3>1. PICK c \in Nat : /\ c = cursor_position - 1 /\ cursor_position = c + 1
                           /\ c \in 0..Len(input) /\ c < Len(input)
                           /\ c + 1 \in 0..Len(input)
      BY <2>1, <2>3 DEF MoveCursorLeft
    <3>2. QED
      BY <2>3, <3>1 DEF MoveCursorLeft
  <2>4. QED
    BY <2>2, <2>3
<1>2. input \in Seq(Alphabet) /\ Whole(input) /\ Owned(input)
  BY DEF LineInv, EditorInv, EditorTypeOK, Alphabet
<1>3. UNCHANGED <<input, panicked>>
  BY DEF MoveCursorLeft, MoveCursorRight
<1>4. PICK m \in Nat, k \in Nat, n \in Nat :
        /\ m = PointAt(input, q) /\ k = PointAt(input, q + 1)
        /\ n = Len(Characters(input)) /\ m <= n /\ k <= n
        /\ k = m \/ k = m + 1
  <2>1. PointAt(input, q + 1) =
          IF input[q + 1] = Cont THEN PointAt(input, q)
          ELSE PointAt(input, q) + 1
    BY <1>1, <1>2, PointMoves
  <2>2. PointAt(input, q) \in 0..Len(Characters(input))
    BY <1>1, <1>2, TextAt
  <2>3. PointAt(input, q + 1) \in 0..Len(Characters(input))
    BY <1>1, <1>2, TextAt
  <2>4. Characters(input) \in Seq(Chars)
    BY <1>2, CharactersConcat
  <2>5. Len(Characters(input)) \in Nat
    BY <2>4
  <2>6. QED
    BY <2>1, <2>2, <2>3, <2>5
<1>5. /\ PointAt(input', q) = m /\ PointAt(input', q + 1) = k
      /\ Characters(input') = Characters(input)
  BY <1>3, <1>4
<1>6. CASE cursor_position = q /\ cursor_position' = q + 1
  <2>1. /\ Len(Characters(SubSeq(input, 1, cursor_position))) = m
        /\ Len(Characters(SubSeq(input', 1, cursor_position'))) = k
    BY <1>4, <1>5, <1>6 DEF PointAt
  <2>2. k \in (m - 1)..(m + 1) \intersect 0..n
    BY <1>4
  <2>3. QED
    BY <1>2, <1>3, <1>4, <1>5, <2>1, <2>2 DEF Text!Move
<1>7. CASE cursor_position = q + 1 /\ cursor_position' = q
  <2>1. /\ Len(Characters(SubSeq(input, 1, cursor_position))) = k
        /\ Len(Characters(SubSeq(input', 1, cursor_position'))) = m
    BY <1>4, <1>5, <1>7 DEF PointAt
  <2>2. m \in (k - 1)..(k + 1) \intersect 0..n
    BY <1>4
  <2>3. QED
    BY <1>2, <1>3, <1>4, <1>5, <2>1, <2>2 DEF Text!Move
<1>8. QED
  BY <1>1, <1>6, <1>7

(* The empty line shows the empty text. *)
LEMMA EmptyLine ==
  /\ Whole(<<>>) /\ Owned(<<>>)
  /\ Characters(<<>>) = <<>>
  /\ Len(Characters(SubSeq(<<>>, 1, 0))) = 0
<1>1. DOMAIN <<>> = {} /\ SubSeq(<<>>, 1, 0) = <<>> /\ Len(<<>>) = 0
  OBVIOUS
<1>2. QED
  BY <1>1, CharactersEmpty DEF Whole, Owned

(* Submitting empties the text. *)
LEMMA SubmitClears ==
  ASSUME ClearLine
  PROVE  Whole(input)' /\ Owned(input)' /\ Text!Clear
<1>1. input' = <<>> /\ cursor_position' = 0 /\ UNCHANGED panicked
  BY DEF ClearLine
<1>2. QED
  BY <1>1, EmptyLine DEF Text!Clear

(* Every step of the line keeps its characters whole.                       *)
LEMMA LineStep ==
  LineInv /\ [EditorStep \/ SubmitLine]_editorVars => LineInv'
<1> SUFFICES ASSUME LineInv, [EditorStep \/ SubmitLine]_editorVars
             PROVE  LineInv'
  OBVIOUS
<1>1. EditorInv' /\ Whole(input) /\ Owned(input)
  BY EditorNextInv DEF LineInv
<1>2. CASE UNCHANGED input
  BY <1>1, <1>2 DEF LineInv
<1>3. ASSUME NEW c \in Chars, EnterChar(c)
      PROVE  Whole(input)' /\ Owned(input)'
  BY <1>1, <1>3, EnterLine DEF Panic
<1>4. CASE DeleteChar
  BY <1>1, <1>4, DeleteLine DEF LineInv, Panic
<1>5. CASE SubmitLine
  BY <1>1, <1>5, SubmitClears DEF SubmitLine, LineInv
<1>6. CASE MoveCursorLeft \/ MoveCursorRight \/ SwitchMode
           \/ UNCHANGED editorVars
  BY <1>2, <1>6 DEF MoveCursorLeft, MoveCursorRight, SwitchMode, editorVars
<1>7. QED
  BY <1>1, <1>3, <1>4, <1>5, <1>6 DEF EditorStep, LineInv

(* Every step of the line is a step of the text editor or none at all.      *)
LEMMA EditorRefinementStep ==
  LineInv /\ [EditorStep \/ SubmitLine]_editorVars
    => [Text!Next]_(Text!vars)
<1> SUFFICES ASSUME LineInv, [EditorStep \/ SubmitLine]_editorVars
             PROVE  [Text!Next]_(Text!vars)
  OBVIOUS
<1>1. Text!Aligned' /\ EditorInv'
  <2>1. LineInv'
    BY LineStep
  <2>2. LineInv' => Text!Aligned'
    BY DrawnCursor, PTL
  <2>3. QED
    BY <2>1, <2>2 DEF LineInv
<1>2. Panic => Text!BreakDown
  BY <1>1, PanicBreaks
<1>3. ASSUME NEW c \in Chars, EnterChar(c)
      PROVE  Text!Next
  <2>1. ~ panicked
    BY <1>3 DEF EnterChar, Typing
  <2>2. QED
    BY <1>1, <1>2, <1>3, <2>1, EnterLine DEF Text!Next
<1>4. CASE DeleteChar
  <2>1. ~ panicked
    BY <1>4 DEF DeleteChar, Typing
  <2>2. QED
    BY <1>1, <1>2, <1>4, <2>1, DeleteLine DEF Text!Next
<1>5. CASE MoveCursorLeft \/ MoveCursorRight
  <2>1. ~ panicked
    BY <1>5 DEF MoveCursorLeft, MoveCursorRight, Typing
  <2>2. QED
    BY <1>1, <1>5, <2>1, MoveLine DEF Text!Next
<1>6. CASE SubmitLine
  <2>1. ~ panicked
    BY <1>6 DEF SubmitLine, Typing
  <2>2. QED
    BY <1>1, <1>6, <2>1, SubmitClears DEF SubmitLine, Text!Next
<1>7. CASE SwitchMode
  BY <1>7 DEF SwitchMode, Text!vars, CursorColumn
<1>8. CASE UNCHANGED editorVars
  BY <1>8 DEF editorVars, Text!vars, CursorColumn
<1>9. QED
  BY <1>3, <1>4, <1>5, <1>6, <1>7, <1>8 DEF EditorStep

(* A line that begins empty begins as the text editor does. *)
LEMMA EditorRefinementInit ==
  EditorInit => LineInv /\ Text!Init
<1> SUFFICES ASSUME EditorInit
             PROVE  LineInv /\ Text!Init
  OBVIOUS
<1>1. input = <<>> /\ cursor_position = 0 /\ panicked = FALSE
  BY DEF EditorInit
<1>2. EditorInv
  BY EditorInitInv
<1>3. QED
  BY <1>1, <1>2, EmptyLine DEF LineInv, Text!Init, CursorColumn

(* app.rs keeps a byte index as its cursor.  In a line of characters of one *)
(* byte every key takes effect where the cursor is drawn, and none breaks   *)
(* the client off.  However wide the characters are, a key only ever does   *)
(* to the text what it says, between two whole characters, or breaks off.   *)
THEOREM EditorRefinement == EditorSpec => EditsRight
BY LineStep, EditorRefinementInit, EditorRefinementStep, PTL
DEF EditorSpec, EditsRight, Text!Spec
=============================================================================
