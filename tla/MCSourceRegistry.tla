-------------------------- MODULE MCSourceRegistry --------------------------
(* Small instances of SourceRegistry for TLC. *)
EXTENDS SourceRegistry, TLC

CONSTANTS t1, t2, e1, e2, pg, csv, orders, Orders

\* Both databases list the table; the second one does not have it under the
\* other spelling.
Listed == [e \in Endpoints |-> [s \in Spellings |->
             IF e = e2 /\ s = Orders THEN None ELSE orders]]

OneRef == {<< <<pg, s>> >> : s \in Spellings}

BothRefs == {<< <<pg, orders>>, <<pg, Orders>> >>, << <<pg, orders>> >>}

Symmetric == Permutations(Tasks)
=============================================================================
