---------------------------- MODULE MCCommitLock ----------------------------
(* An instance of CommitLock: three sessions in one project, one of them    *)
(* unknown to the registry, each with one commit at a time.                 *)
EXTENDS CommitLock

MCSessions == {"a", "b", "x"}
MCProjects == {"repo"}
MCProjectOf == [s \in MCSessions |-> "repo"]
MCRegistered == {"a", "b"}

MCCallsSequential == {"a1", "b1", "x1"}
MCSessionOfSequential == [c \in MCCallsSequential |->
    CASE c = "a1" -> "a" [] c = "b1" -> "b" [] OTHER -> "x"]
=============================================================================
