----------------------------- MODULE MCListing -----------------------------
(* Small instances of Listing for TLC. *)
EXTENDS Listing, TLC

CONSTANTS c1, c2

\* The fourth upload of the first channel is a Short.
MCMaxUploads == c1 :> 4 @@ c2 :> 0

MCShorts == {<<c1, 4>>}

MCRemovable == {<<c1, 3>>}
=============================================================================
