------------------------------- MODULE MCOciPull -------------------------------
(***************************************************************************)
(* Two processes pull the same image at once, or two that share their      *)
(* layers.  One of these has a layer twice, and a manifest with a layer    *)
(* that its config does not know; of the other one there is a manifest in  *)
(* which a layer is missing, too.                                          *)
(***************************************************************************)
EXTENDS OciPullSafety

MCImages == {
  [config |-> <<"c1">>, diff_ids |-> <<"a", "b">>, sizes |-> <<1, 2>>, reference |-> "r1"],
  [config |-> <<"c1">>, diff_ids |-> <<"a", "b">>, sizes |-> <<1>>, reference |-> "r1"],
  [config |-> <<"c2">>, diff_ids |-> <<"b", "a", "b">>, sizes |-> <<2, 2, 2, 1>>, reference |-> "r2"]}
===============================================================================
