------------------------------ MODULE LineBreak ------------------------------
(***************************************************************************)
(* bi_fprintf() of benchit.c: text for the result file is written in lines *)
(* of at most LINE characters and a backslash (79 in the code).  A text is *)
(* a sequence of characters; those with a meaning of their own are BLANK,  *)
(* TAB, BACKSLASH and NEWLINE.                                             *)
(***************************************************************************)
EXTENDS Integers, Sequences, FiniteSets

CONSTANT LINE

ASSUME LineAssumption == LINE \in Nat \ {0, 1}

BLANK     == " "
TAB       == "t"
BACKSLASH == "/"
NEWLINE   == "n"

Untabbed(text) ==
  [i \in 1 .. Len(text) |-> IF text[i] = TAB THEN BLANK ELSE text[i]]

\* The line that starts at position first ends by itself at a backslash or a
\* newline, if one comes before it is full.
ManualBreaks(text, first) ==
  {i \in first .. Len(text) : text[i] \in {BACKSLASH, NEWLINE} /\ i - first <= LINE}

\* Blanks of a full line, but for one at its very beginning; the one that is
\* looked at when the line is full counts.
Blanks(text, first) ==
  {i \in first + 1 .. first + LINE : text[i] = BLANK}

Least(S)    == CHOOSE i \in S : \A j \in S : i <= j
Greatest(S) == CHOOSE i \in S : \A j \in S : j <= i

\* Mutant: a line without a blank is broken one character earlier.
BreakAtEarly(text, first) ==
  IF Blanks(text, first) = {} THEN first + LINE - 1 ELSE Greatest(Blanks(text, first)) - 1

\* The character that gives way to the backslash: the last blank, or whatever
\* comes when the line is full.
BreakAt(text, first) ==
  IF Blanks(text, first) = {} THEN first + LINE ELSE Greatest(Blanks(text, first))

\* What is written of the characters from first on; what follows the last break
\* is not written.
Broken(text) ==
  LET From[first \in 1 .. Len(text) + 1] ==
        LET manual == ManualBreaks(text, first) IN
        IF manual # {}
        THEN LET i == Least(manual) IN
             SubSeq(text, first, i)
               \o (IF text[i] = BACKSLASH THEN <<NEWLINE>> ELSE <<>>) \o From[i + 1]
        ELSE IF Len(text) - first >= LINE
        THEN LET i == BreakAt(text, first) IN
             SubSeq(text, first, i - 1) \o <<BACKSLASH, NEWLINE>> \o From[i + 1]
        ELSE <<>>
  IN  From[1]

bi_fprintf(text) == IF Len(text) <= LINE THEN text ELSE Broken(Untabbed(text))
----------------------------------------------------------------------------
(***************************************************************************)
(* What a reader of the file may expect.                                   *)
(***************************************************************************)
IsLetter(c)   == c \notin {BLANK, TAB, BACKSLASH, NEWLINE}
Letters(text) ==
  LET Of[k \in 0 .. Len(text)] ==
        IF k = 0 THEN <<>>
        ELSE IF IsLetter(text[k]) THEN Append(Of[k - 1], text[k]) ELSE Of[k - 1]
  IN  Of[Len(text)]

\* LINE characters without a blank or a break among them.
HasLongWord(text) ==
  \E i \in 1 .. Len(text) - LINE + 1 : \A j \in i .. i + LINE - 1 : IsLetter(text[j])

Terminated(text) == text # <<>> /\ text[Len(text)] = NEWLINE

Newlines(text) == {0} \cup {i \in 1 .. Len(text) : text[i] = NEWLINE}

\* No line is longer than LINE characters, its backslash and the newline.
LinesFit(text) ==
  \A i \in Newlines(text) :
    i + LINE + 2 <= Len(text) => \E j \in Newlines(text) : i < j /\ j <= i + LINE + 2

\* Breaking loses nothing but blanks of a text whose words fit a line and that ends
\* with a newline, as all do that the program formats itself; in another one it drops
\* a character of every word that fills a line, and what follows the last newline.
KeepsLetters(text, written) ==
  \/ Letters(written) = Letters(text)
  \/ Len(text) > LINE /\ (HasLongWord(text) \/ ~Terminated(text))

Readable(text, written) == KeepsLetters(text, written) /\ LinesFit(written)
============================================================================
