-------------------------------- MODULE Words --------------------------------
(* Words of SQL texts, and how they are compared without case.             *)

CONSTANT Lower   \* external: a word in lower case

\* eq_ignore_ascii_case.
SameWord(a, b) == Lower[a] = Lower[b]
=============================================================================
