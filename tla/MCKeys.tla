------------------------------- MODULE MCKeys -------------------------------
(* Keys and bindings for Keys: "2" is a digit that inserts itself, "X" a   *)
(* prefix, "E" is bound to a Lisp command that executes "2XXX2", where     *)
(* "XX" is bound to nothing, and "DEL" is refused wherever it is read.     *)
EXTENDS Keys

MCBound ==
  <<"2">> :> "self-insert-command" @@ <<"(">> :> "start-kbd-macro" @@
  <<")">> :> "end-kbd-macro" @@ <<"X", "2">> :> "call-last-kbd-macro" @@
  <<"E">> :> "execute-kbd-macro" @@ <<"C-u">> :> "universal-argument" @@
  <<"M-x">> :> "execute-extended-command" @@ <<"C-s">> :> "isearch-forward" @@
  <<"S">> :> "save-buffer" @@ <<"C-g">> :> "self-insert-command"

MCNamed ==
  "2" :> "self-insert-command" @@ "(" :> "start-kbd-macro" @@
  ")" :> "end-kbd-macro" @@ "C-s" :> "isearch-forward" @@
  "C-u" :> "universal-argument" @@ "E" :> "execute-kbd-macro" @@
  "M-x" :> "execute-extended-command" @@ "S" :> "save-buffer"

MCProgram == <<"2", "X", "X", "X", "2">>

MCDigit == {"2"}
=============================================================================
