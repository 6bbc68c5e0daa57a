------------------------------ MODULE MCPriceFeed ------------------------------
(* Model checking PriceFeed: fields are interchangeable (not for liveness).   *)
EXTENDS PriceFeed, TLC

FieldSymmetry == Permutations(Fields)
================================================================================
