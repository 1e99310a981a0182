---------------------------- MODULE MCFixedWidth ----------------------------
(* FixedWidth over small files: good, blank, short, empty, split and       *)
(* unreadable lines in every order, and layouts of one to three fields.    *)
EXTENDS FixedWidth

Field(start, length, type, nullable, trim) ==
  [start |-> start, length |-> length, type |-> type, nullable |-> nullable, trim |-> trim]

MCLines == {<<>>, <<"1", "x", "1">>, <<" ", "x", " ">>, <<"1">>, <<"1", "h", "t">>, Unreadable}

\* Up to four lines, of any kind at first and of two kinds from the third on.
MCFiles ==
  {<<>>} \cup {<<a>> : a \in MCLines} \cup {<<a, b>> : a, b \in MCLines}
  \cup {<<a, b, c>> : a, b, c \in {<<>>, <<"1", "x", "1">>, <<" ", "x", " ">>, Unreadable}}
  \cup {<<a, b, c, d>> : a, b, c, d \in {<<>>, <<"1", "x", "1">>}}

MCLayouts == {
  <<Field(0, 1, "INTEGER", FALSE, TRUE), Field(1, 1, "VARCHAR", FALSE, TRUE)>>,
  <<Field(0, 1, "INTEGER", TRUE, TRUE), Field(2, 1, "BOOLEAN", TRUE, FALSE)>>,
  <<Field(0, 2, "VARCHAR", FALSE, FALSE), Field(2, 1, "DATE", TRUE, TRUE)>>,
  <<Field(0, 3, "INTEGER", FALSE, TRUE)>>,
  \* refused: no field, no length, an unknown type, and overlaps
  <<>>,
  <<Field(0, 0, "INTEGER", FALSE, TRUE)>>,
  <<Field(0, 1, "MARTIAN", FALSE, TRUE)>>,
  <<Field(0, 2, "VARCHAR", FALSE, TRUE), Field(2, 1, "VARCHAR", FALSE, TRUE),
    Field(1, 1, "VARCHAR", FALSE, TRUE)>>,
  \* an end that overflows
  <<Field(14, 3, "VARCHAR", FALSE, TRUE)>> }

MCProjections == {<<>>, <<1>>, <<2>>, <<1, 2>>}

MCLimits == {0, 1, 2, 3, NoLimit}
=============================================================================
