-------------------------- MODULE MCDatabaseConnection --------------------------
(* Model checking DatabaseConnection: any task may be any of the program's.   *)
EXTENDS DatabaseConnection
===============================================================================
