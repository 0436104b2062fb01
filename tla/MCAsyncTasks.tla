---------------------------- MODULE MCAsyncTasks ----------------------------
(* AsyncTasks with two tasks, one explicit key and three free slots. *)
EXTENDS AsyncTasks
=============================================================================
