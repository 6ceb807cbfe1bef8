----------------------------- MODULE MCConsumer -----------------------------
(* Instances of module InvalidationConsumer for TLC.                       *)
EXTENDS InvalidationConsumer

CONSTANTS i1, i2, w1, w2, p1, p2

Of(type, ids) == [valid |-> TRUE, type |-> type, ids |-> ids]

\* One message for each way through the worker's loop.
MCMessages ==
  { Of("update", <<i1>>),
    Of("bulk_update", <<i1, i2>>),
    Of("other", <<i2>>),
    [valid |-> FALSE, type |-> "other", ids |-> <<>>] }
=============================================================================
