--------------------------- MODULE MCLongMessage ---------------------------
(***************************************************************************)
(* The instance of LongMessage for TLC.                                    *)
(***************************************************************************)
EXTENDS LongMessage, TLC

\* A part repeated and one beyond the number of parts; three parts, any of which
\* may be missing; a part repeated and one missing.  Submits are numbered; their
\* order is left to Submit.
MCMessages ==
    {[total |-> 2, pk |-> <<1, 1, 2>>],
     [total |-> 3, pk |-> <<1, 2, 3>>],
     [total |-> 3, pk |-> <<1, 1, 2>>]}
=============================================================================
