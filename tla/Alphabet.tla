------------------------------ MODULE Alphabet ------------------------------
(***************************************************************************)
(* What text is made of, in either direction.  A symbol of one of the      *)
(* classes is a byte that some code tells from others; every other symbol  *)
(* stands for a word of letters, digits, "-", "_" and "." that begins with *)
(* no digit, in one spelling for all cases ("host", "websocket", "-", ...) *)
(* and that nothing which reads it takes apart.                            *)
(***************************************************************************)
EXTENDS Integers

\* "NUL" stands for every byte of control that has no symbol of its own.
Controls == {"TAB", "CR", "LF", "NUL"}

\* Every byte from 128 on.
NonAscii == {"e-acute"}

\* The bytes that separate tokens.
Separators == {"(", ")", "<", ">", "@", ",", ";", ":", "BACKSLASH", "QUOTE", "/",
               "[", "]", "?", "=", "{", "}", "SP", "TAB"}

\* The bytes of tokens that no word has; "!" stands for all the others.
Marks == {"#", "+", "!"}

Numerals == {"0", "1", "2", "3", "4", "5", "6", "7", "8", "9"}
DigitValue ==
  [d \in Numerals |->
     CHOOSE i \in 0 .. 9 :
       <<"0", "1", "2", "3", "4", "5", "6", "7", "8", "9">>[i + 1] = d]
=============================================================================
