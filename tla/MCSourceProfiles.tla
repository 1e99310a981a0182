-------------------------- MODULE MCSourceProfiles --------------------------
(* SourceProfiles with a database, at one of two endpoints, and a file.     *)
EXTENDS SourceProfiles, TLC

CONSTANTS c1, c2

Symmetric == Permutations(Commands)

MCAttachments ==
  [n \in Names |->
     IF n = "pg"
     THEN {[details |-> "public", secret |-> "one"], [details |-> "other", secret |-> "two"]}
     ELSE {[details |-> "file", secret |-> None]}]
=============================================================================
