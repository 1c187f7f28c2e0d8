--------------------------- MODULE MCSubscriptions ---------------------------
(***************************************************************************)
(* Object subscriptions with bundles whose components come in either order. *)
(***************************************************************************)
EXTENDS ObjectSubscriptions

EitherOrder == {<<"Owner", "Data">>, <<"Data", "Owner">>}

=============================================================================
