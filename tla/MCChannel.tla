----------------------------- MODULE MCChannel -----------------------------
(***************************************************************************)
(* Instances of SessionChannel for TLC.                                    *)
(***************************************************************************)
EXTENDS SessionChannel, TLC

Each(first, second) == "first" :> first @@ "second" :> second

\* A reload or a second tab while inputs are under way and a connection is
\* lost; a failing operation on both pages; everything else on one page; more
\* inputs than a connection may have waiting.
Troubles ==
  {Budget(Each(2, 1), 1, 1, 0, 0, 0),
   Budget(Each(1, 1), 1, 0, 1, 0, 0),
   Budget(Each(2, 0), 0, 1, 1, 1, 1),
   Budget(Each(3, 0), 0, 0, 0, 0, 0)}

=============================================================================
