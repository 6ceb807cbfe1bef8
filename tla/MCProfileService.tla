-------------------------- MODULE MCProfileService --------------------------
(* Instances of module ProfileService for TLC.                             *)
EXTENDS ProfileService, TLC

CONSTANTS i1, i2, e1, e2, e3, r1, r2

MCInitEmail == (i1 :> e1) @@ (i2 :> e2)

\* The e-mails of the two investors and one that is free, to be moved or kept;
\* a patch that ValidatePatch refuses and one that only PostgreSQL does.
MCPatches ==
  {[Empty EXCEPT !.email = e] : e \in Emails} \cup
  {[Empty EXCEPT !.value = v] : v \in {"negative", "hex"}}

\* Every portfolio value that ParseFloat takes or refuses.
MCValues == {[Empty EXCEPT !.value = v] : v \in {"decimal", "negative",
               "garbage", "NaN", "Infinity", "hex", "huge"}}
=============================================================================
