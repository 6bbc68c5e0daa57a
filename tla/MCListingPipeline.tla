--------------------------- MODULE MCListingPipeline ---------------------------
(* Model checking ListingPipeline: one spot and one linear symbol, so that a  *)
(* discovery has all three of its REST calls.                                 *)
EXTENDS ListingPipeline
===============================================================================
