---------------------------- MODULE MCDataFiles ----------------------------
(* Instances of DataFiles: names of two lengths, and a user who moves the  *)
(* data directory or configures a name.                                    *)
EXTENDS DataFiles, TLC

CONSTANTS Work, Short

Lengths == (Short :> 1) @@ (NoName :> 1) @@ (Generated :> 2)
Moves == {[dir |-> Work, name |-> NoName], [dir |-> Home, name |-> Short]}
Uses == {[cmd |-> "tui", name |-> NoName, env |-> NoDir],
         [cmd |-> "tui", name |-> NoName, env |-> Work],
         [cmd |-> "set-name", name |-> Short, env |-> NoDir],
         [cmd |-> "init", name |-> NoName, env |-> NoDir],
         [cmd |-> "init", name |-> NoName, env |-> Work]}
AnyProc == Permutations(Procs)
=============================================================================
