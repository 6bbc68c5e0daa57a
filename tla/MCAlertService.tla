---------------------------- MODULE MCAlertService ----------------------------
(* Model checking AlertService: two coins, of which one is in range and two  *)
(* are over it (MinCoins = MaxCoins = 1).                                     *)
EXTENDS AlertService, TLC

CoinSymmetry == Permutations(Coins)
===============================================================================
