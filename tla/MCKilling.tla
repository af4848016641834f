----------------------------- MODULE MCKilling ------------------------------
(* Two words on a line; a line with an end, and what follows it; and two   *)
(* expressions of which one has brackets.                                  *)
EXTENDS Killing

MCTexts == {<<"a", SP, "b">>, <<"a", NL>>, <<"(", ")", "a">>}
MCArgs  == {-1, 2}

(* forward-sexp passes white space and then one word, or what one pair of  *)
(* brackets or of double quotes holds, over the ends of lines too; and it  *)
(* fails where there is no such thing.  Checked for every text of up to    *)
(* five such characters and every point in it (move_sexp).                 *)
SexpEnds(t, o) ==
  LET begin == Min({Len(t)} \cup {i \in o .. (Len(t) - 1) : ~Space(t[i + 1])})
  IN {k \in (begin + 1) .. Len(t) :
        \/ /\ AllWord(Piece(t, begin, k))
           /\ k < Len(t) => ~WordChar(t[k + 1])
        \/ t[begin + 1] = "(" /\ Balanced(Piece(t, begin, k))
        \/ /\ t[begin + 1] = "\"" /\ t[k] = "\"" /\ k > begin + 1
           /\ \A i \in (begin + 2) .. (k - 1) : t[i] # "\""}

TextsOf(chars, n) == UNION {[1 .. k -> chars] : k \in 0 .. n}

ASSUME SexpsAreBalanced ==
  \A t \in TextsOf({"(", ")", "a", SP, NL}, 5) \cup TextsOf({"\"", "a", SP, NL}, 5) :
    \A o \in 0 .. Len(t) :
      LET e == MoveSexp(Editor(t, o), 1)
      IN SexpEnds(t, o) = IF e.ok THEN {e.pt} ELSE {}
=============================================================================
