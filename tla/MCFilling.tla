----------------------------- MODULE MCFilling ------------------------------
(* Letters, spaces, tabs and line ends.                                    *)
EXTENDS Filling

MCChar == {"a", SP}

=============================================================================
