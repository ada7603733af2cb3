-------------------------------- MODULE MCTurn --------------------------------
(* Instances of Turn. *)
EXTENDS Turn

\* Clients send one at a time, the child answers after the sender is done
\* and dies only between turns or after output.
CalmEnv == {"lateDeath", "background"}

\* Everything the code may meet, but for background tasks (without statuses
\* they change nothing) and fast answers (which only busy depends on).
WildEnv == EnvChoices \ {"background", "fast"}

===============================================================================
