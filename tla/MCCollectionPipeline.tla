------------------------ MODULE MCCollectionPipeline ------------------------
(***************************************************************************)
(* Finite instances of CollectionPipeline.  A loan of 3 pesos at 2 MB per  *)
(* peso and a minimum of 2 pesos: 8 MB collect it in full, 5 MB collect 2  *)
(* pesos, which leaves 1 that 3 MB collect in full, and 3 MB are too few   *)
(* for the loan as granted.                                                *)
(***************************************************************************)
EXTENDS CollectionPipeline, TLC

MCPrincipals == {3}
MCConversionRate == 2
MCMinCollection  == 2
MCAllowances     == {3, 5, 8}

\* Consumers and handlers are interchangeable, and so are subscribers.
ProcessSymmetry == Permutations(Subscribers) \cup Permutations(Consumers)
                       \cup Permutations(Workers)
=============================================================================
