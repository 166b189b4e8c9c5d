------------------------------- MODULE MCTasks -------------------------------
(* The keyboard task and two background tasks with the shortest periods that   *)
(* main.rs uses (2 ticks, and one longer).                                     *)
EXTENDS Tasks, TLC

CONSTANTS httpd_task, crond_task

MCBackground == {httpd_task, crond_task}
MCPeriod == httpd_task :> 2 @@ crond_task :> 3
=============================================================================
