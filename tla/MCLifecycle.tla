------------------------------ MODULE MCLifecycle ------------------------------
(* Model checking Lifecycle: two migrations of two and one statements, two    *)
(* chunks a message; a post and a sleep last at most one tick, so that a      *)
(* message takes at most six.  The stop timeout is half of that: it lets a    *)
(* delivery through that goes well, and may cut one that is tried again.      *)
EXTENDS Lifecycle

MCStatements == <<2, 1>>
MCBackoffs == <<1>>
===============================================================================
