------------------------------ MODULE KeyLine ------------------------------
(***************************************************************************)
(* What scapar_sec_parse_from_fh does with the bytes of one line: trimming *)
(* them in place, telling comments and section ends, taking the keyword,   *)
(* and handing the rest to a conversion, all by pointers into the buffer   *)
(* that the next line is read into.  What lies behind the terminator is    *)
(* left from earlier lines; malloc is taken to return zeros.               *)
(*                                                                         *)
(* Characters are strings of length one; Nul, Newline stand for '\0', '\n'. *)
(* A letter is in Lower's domain if it has a lower case form.              *)
(***************************************************************************)
EXTENDS Integers, Sequences, FiniteSets

CONSTANTS
  Text,      \* Text[n]: the lines the file may have in place n
  MaxLines,  \* bound: lines read into the buffer
  Size,      \* bound: bytes of the buffer
  Lower,     \* tolower, on the capitals
  Digit,     \* the digits
  CmtMark,   \* scapar->cmt_mark
  SeMark     \* scapar->se_mark, a sequence

Nul     == "nul"
Newline == "newline"
Blank   == {" "}              \* isblank
Space   == {" ", Newline}     \* isspace

ASSUME KeyLineAssumption ==
  /\ MaxLines \in Nat /\ DOMAIN Text = 1..MaxLines /\ Size \in Nat \ {0}
  /\ \A n \in 1..MaxLines : \A t \in Text[n] :
       /\ t \in Seq({t[i] : i \in DOMAIN t}) /\ Len(t) + 2 <= Size
       /\ \A i \in DOMAIN t : t[i] \notin {Nul, Newline}
  /\ CmtMark # Nul /\ SeMark # <<>>

VARIABLES
  buf,    \* *line
  n,      \* lines read
  pc,     \* what is done next: "read", "trim", "look", "key", "value", "words"
  text,   \* the line in the buffer, as the file has it
  str,    \* the keyword taken from it
  p,      \* the pointer behind what has been taken
  taken   \* the words a vector has taken from it

vars == <<buf, n, pc, text, str, p, taken>>

-----------------------------------------------------------------------------
(* C strings.  Every search stops at a terminator: the last byte of the    *)
(* buffer is one.                                                          *)

First(b, from, Stop) ==
  CHOOSE i \in from..(Size - 1) :
    b[i] \in Stop /\ \A j \in from..(i - 1) : b[j] \notin Stop
(* The first byte not in S *)
Skip(b, from, S) ==
  CHOOSE i \in from..(Size - 1) :
    b[i] \notin S /\ \A j \in from..(i - 1) : b[j] \in S
EndOf(b, from)     == First(b, from, {Nul})
Chars(b, from, to) == [i \in 1..(to - from) |-> b[from + i - 1]]
String(b, from)    == Chars(b, from, EndOf(b, from))

(* scapar_str_remove_spaces: the text is moved down with its terminator,   *)
(* and spaces at its end are overwritten.                                  *)
MovedShort(b, d) ==
  [i \in 0..(Size - 1) |-> IF i < EndOf(b, d) - d THEN b[i + d] ELSE b[i]]
Moved(b, d) ==
  [i \in 0..(Size - 1) |-> IF i <= EndOf(b, d) - d THEN b[i + d] ELSE b[i]]
CutTail(b) ==
  [i \in 0..(Size - 1) |->
     IF i < EndOf(b, 0) /\ \A j \in i..(EndOf(b, 0) - 1) : b[j] \in Space THEN Nul ELSE b[i]]
Trimmed(b) ==
  LET d == Skip(b, 0, Space) IN CutTail(IF d = 0 THEN b ELSE Moved(b, d))

(* scapar_check_if_discard and scapar_check_input_is_section_ending *)
OnlyEmpty(b) == b[Skip(b, 0, Space)] = Nul
Discarded(b) == b[Skip(b, 0, Space)] \in {Nul, CmtMark}
EndsPrefix(b) == b[Skip(b, 0, Space)] = SeMark[1]
EndsSection(b) == String(b, Skip(b, 0, Space)) = SeMark

(* scapar_string_to_lower *)
Lowered(s) == [i \in DOMAIN s |-> IF s[i] \in DOMAIN Lower THEN Lower[s[i]] ELSE s[i]]

-----------------------------------------------------------------------------
(* fgets leaves the bytes behind the terminator alone; the newline becomes *)
(* a second one.  Only the file's last line may lack it.                   *)
Loaded(b, t, newline) ==
  [i \in 0..(Size - 1) |->
     IF i < Len(t) THEN t[i + 1]
     ELSE IF i = Len(t) \/ (newline /\ i = Len(t) + 1) THEN Nul ELSE b[i]]

ReadLine(newline) ==
  /\ pc \in {"read", "words"} /\ n < MaxLines
  /\ newline \/ n + 1 = MaxLines
  /\ n' = n + 1
  /\ \E t \in Text[n'] : text' = t /\ buf' = Loaded(buf, t, newline)
  /\ pc' = "trim"
  /\ str' = <<>> /\ p' = 0 /\ taken' = <<>>

RemoveSpaces ==
  /\ pc = "trim"
  /\ buf' = Trimmed(buf)
  /\ pc' = "look"
  /\ UNCHANGED <<n, text, str, p, taken>>

(* Comments, blank lines and the ending mark *)
Look ==
  /\ pc = "look"
  /\ pc' = IF Discarded(buf) \/ EndsSection(buf) THEN "read" ELSE "key"
  /\ UNCHANGED <<buf, n, text, str, p, taken>>

(* The keyword; the byte it ends with is passed, whatever it is. *)
SpaceEnds == Space \cup {Nul, "="}
KeyEnds   == Space \cup {Nul, "=", ":"}
TakeKey ==
  /\ pc = "key"
  /\ LET e == First(buf, 0, KeyEnds)
     IN  str' = Lowered(Chars(buf, 0, e)) /\ p' = e + 1
  /\ pc' = "value"
  /\ UNCHANGED <<buf, n, text, taken>>

(* Separators are skipped; then the rest of the line is the value, or a    *)
(* vector takes words from it.                                             *)
SkipSep ==
  /\ pc = "value"
  /\ p' = Skip(buf, p, Space \cup {":"})
  /\ pc' = "words"
  /\ UNCHANGED <<buf, n, text, str, taken>>
Value == String(buf, p)

(* scapar_get_next_value_from_buf *)
WordEndLate(b, i) == EndOf(b, i)
WordEnd(b, i)     == First(b, i, Blank \cup {Nul})
NextWord ==
  /\ pc = "words"
  /\ LET i == Skip(buf, p, Blank)
         e == WordEnd(buf, i)
     IN  /\ buf[i] # Nul
         /\ taken' = Append(taken, Chars(buf, i, e))
         /\ p' = e
  /\ UNCHANGED <<buf, n, pc, text, str>>

(* scapar_atoi: the number ends at a space or at the end. *)
Integer(v) ==
  /\ v # <<>> /\ v[1] \in Digit
  /\ \E k \in DOMAIN v :
       /\ \A i \in 1..k : v[i] \in Digit
       /\ k < Len(v) => v[k + 1] \in Space

(* The file may end anywhere. *)
Stop == pc \in {"read", "words"} /\ UNCHANGED vars

Init ==
  /\ buf = [i \in 0..(Size - 1) |-> Nul]
  /\ n = 0 /\ pc = "read"
  /\ text = <<>> /\ str = <<>> /\ p = 0 /\ taken = <<>>

Next ==
  \/ ReadLine(TRUE) \/ ReadLine(FALSE)
  \/ RemoveSpaces \/ Look \/ TakeKey \/ SkipSep \/ NextWord
  \/ Stop

Spec == Init /\ [][Next]_vars
-----------------------------------------------------------------------------
(* The text as a reader of the file sees it *)

Inner(t) == {i \in DOMAIN t : t[i] \notin Blank}
Lo(S) == CHOOSE i \in S : \A j \in S : i <= j
Hi(S) == CHOOSE i \in S : \A j \in S : i >= j
Stripped(t) == IF Inner(t) = {} THEN <<>> ELSE SubSeq(t, Lo(Inner(t)), Hi(Inner(t)))

Seps(t) == {i \in DOMAIN t : t[i] \in {" ", ":", "="}}
(* Nothing follows the keyword. *)
Alone(t)   == Seps(t) = {}
KeyOf(t)   == IF Alone(t) THEN t ELSE SubSeq(t, 1, Lo(Seps(t)) - 1)
(* One separator, then any number of blanks and colons *)
Rest(t)    == {i \in DOMAIN t : i > Lo(Seps(t)) /\ t[i] \notin {" ", ":"}}
ValueOf(t) == IF Rest(t) = {} THEN <<>> ELSE SubSeq(t, Lo(Rest(t)), Len(t))

(* The words of v, as the places of their first and last characters *)
WordsOf(v) ==
  {w \in (DOMAIN v) \X (DOMAIN v) :
     /\ w[1] <= w[2] /\ \A k \in w[1]..w[2] : v[k] \notin Blank
     /\ w[1] = 1 \/ v[w[1] - 1] \in Blank
     /\ w[2] = Len(v) \/ v[w[2] + 1] \in Blank}
Word(v, k) ==
  LET w == CHOOSE w \in WordsOf(v) :
             Cardinality({u \in WordsOf(v) : u[1] < w[1]}) = k - 1
  IN  SubSeq(v, w[1], w[2])
-----------------------------------------------------------------------------
(* Trimming in place keeps a string in the buffer that is exactly the      *)
(* line without the spaces around it, whatever was there before.           *)
TrimExact == pc = "look" => String(buf, 0) = Stripped(text)

(* A keyword line is one that is not blank, no comment and not the ending  *)
(* mark, alone on its line; no other is skipped and no other queried.      *)
LinesTold ==
  /\ pc = "key" => Stripped(text) \notin {<<>>, SeMark} /\ Stripped(text)[1] # CmtMark
  /\ pc = "read" /\ n > 0 =>
       Stripped(text) \in {<<>>, SeMark} \/ Stripped(text)[1] = CmtMark

(* The keyword queried is the line up to the first blank, colon or equals  *)
(* sign, in lower case; and when such a separator is there, the value is   *)
(* the rest of this line, nothing more.                                    *)
KeyAndValue ==
  /\ pc = "value" => str = Lowered(KeyOf(Stripped(text)))
  /\ pc = "words" /\ taken = <<>> /\ ~Alone(Stripped(text)) => Value = ValueOf(Stripped(text))

(* A vector takes the words of the line, all of them and in their order.   *)
WordsInOrder ==
  LET v == ValueOf(Stripped(text)) IN
  pc = "words" /\ ~Alone(Stripped(text)) =>
    /\ \A k \in DOMAIN taken : k <= Cardinality(WordsOf(v)) /\ taken[k] = Word(v, k)
    /\ buf[Skip(buf, p, Blank)] = Nul => Len(taken) = Cardinality(WordsOf(v))

(* "Scapar will verify if the value and the key are legal": an integer is  *)
(* accepted only from a line that has one behind its keyword.              *)
ValueIsThere ==
  pc = "words" /\ taken = <<>> /\ Integer(Value) => ~Alone(Stripped(text))
=============================================================================
