------------------------------ MODULE MCTrees ------------------------------
(* Instances of Trees: blocks with up to six commitments or transactions.  *)
EXTENDS Trees

MCShapes == {<<0, 1>>, <<1, 1>>, <<2, 2>>, <<3, 2>>, <<5, 3>>, <<4, 5>>, <<6, 4>>}
=============================================================================
