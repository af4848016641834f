----------------------------- MODULE MCMinibuf -----------------------------
(* Prompts for Minibuf: a command's name, a buffer's, and a search string. *)
EXTENDS Minibuf

MCOffers == {<<1>>, <<1, 2>>, <<2, 1, 1>>, <<2, 1, 2>>}

MCPrompts ==
  {[value |-> <<>>, offers |-> MCOffers, history |-> TRUE, strict |-> TRUE],
   [value |-> <<>>, offers |-> MCOffers, history |-> FALSE, strict |-> FALSE],
   [value |-> <<2, 1>>, offers |-> {}, history |-> FALSE, strict |-> FALSE]}
=============================================================================
