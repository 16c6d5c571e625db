------------------------------ MODULE MCMempak ------------------------------
(***************************************************************************)
(* Notes whose names fill the field and do not, with an extension and      *)
(* without one.                                                            *)
(***************************************************************************)
EXTENDS Mempak

\* "AZ@.9", "!.", " `0-." with the field of four characters full.
MCTitles ==
    <<[name |-> <<65, 90, 64, Dot, 57>>, region |-> 69],
      [name |-> <<33, Dot>>, region |-> 0],
      [name |-> <<32, 96, 48, 45, Dot, 63>>, region |-> 89]>>
=============================================================================
