----------------------------- MODULE MCTableColumns -----------------------------
(* Small instances of TableColumns for TLC.                                  *)
EXTENDS TableColumns

Def(type, nullable, default) == [type |-> type, nullable |-> nullable, default |-> default]

\* Column a is altered in every way, b comes and goes as well.
SomeDefinitions ==
  [a |-> {Def("integer", FALSE, ""), Def("integer", TRUE, "1"), Def("bigint", TRUE, ""),
          Def("bigint", FALSE, "1"), Def("text", TRUE, ""), Def("text", FALSE, "'x'")},
   b |-> {NoColumn, Def("integer", TRUE, ""), Def("integer", FALSE, "1"),
          Def("integer", FALSE, "")}]

\* Any number is a text, no text is taken for a number.
SomeCasts == {<<"integer", "bigint">>, <<"bigint", "integer">>,
              <<"integer", "text">>, <<"bigint", "text">>}
SomeFits  == {<<"1", "integer">>, <<"1", "bigint">>, <<"1", "text">>, <<"'x'", "text">>}
=============================================================================
