----------------------------- MODULE MCLogQueue -----------------------------
(* LogQueue with a script that turns logging on and off, a task that logs *)
(* once, and the web server, which logs twice.                            *)
EXTENDS LogQueue

CONSTANTS script, task, web

TheProducers == {script, task, web}
TheWeb == {web}
Requests == [p \in TheProducers |-> IF p = web THEN 2 ELSE IF p = task THEN 1 ELSE 0]
=============================================================================
