------------------------------ MODULE MCSearch ------------------------------
(* Texts in which the strings occur in both cases, next to each other and  *)
(* overlapping, and replacements that contain them or are empty.           *)
EXTENDS Search

MCTexts   == {<<"a", "A", "a">>, <<SP, "A">>}
MCStrings == {<<>>, <<"A">>, <<"a", "a">>, <<"a", "$">>}
MCRepls   == {<<>>, <<"b", "A">>}

=============================================================================
