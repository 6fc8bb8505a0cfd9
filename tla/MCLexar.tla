------------------------------ MODULE MCLexar ------------------------------
(***************************************************************************)
(* An instance of Lexar for TLC: every text of up to four characters, and  *)
(* every three operator characters.                                        *)
(***************************************************************************)
EXTENDS Lexar, SequencesExt

Chars == {"f", "n", "N", "1", " ", "\n", "(", "=", "<", "+", "#", NUL}

Lets == <<"l", "e", "t", "\t", "x", "\n", "\n", "=", "=", "4", "2", "x", ")",
          "\n", "\t", "i", "f", "i", "f", "f", "}", ">", "=", ">", "=", "]">>

\* A name as in tests_lexar.cpp:106, and a word in capitals.
MyVar == <<"m", "y", "V", "a", "r", " ", "=", " ", "1", "0", "\n", "F", "N">>

MCTexts == {Lets, MyVar} \cup SeqOf(Chars, 4) \cup [1 .. 3 -> OperatorChars]
=============================================================================
