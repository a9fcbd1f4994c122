------------------------------ MODULE MCMigrator ------------------------------
(* Migrator for two replicas: the same files, or another build with a file *)
(* missing, or with one changed and another invalid.                       *)
EXTENDS Migrator, TLC

CONSTANTS p1, p2

FileOf(name, sum) == [name |-> name, sum |-> sum]

MCDeployments ==
    {(p1 :> <<FileOf("a", 1), FileOf("b", 1)>>) @@ (p2 :> other) :
        other \in {<<FileOf("a", 1), FileOf("b", 1)>>, <<FileOf("b", 1)>>,
                   <<FileOf("a", 2), FileOf("b", 0)>>}}
================================================================================
