------------------------------ MODULE MCCursor -------------------------------
(* Small instances of Cursor for TLC. *)
EXTENDS Cursor

CONSTANTS main, back, short

\* Three records, two of them with one key in each of two indexes that order them
\* differently; one index has a field the other does not.
MCPlaces  == 1 .. 3
MCFields  == {"group", "seq"}
MCValues  == 1 .. 2
MCContent == [r \in MCPlaces |-> [group |-> IF r = 2 THEN 1 ELSE 2,
                                  seq   |-> IF r = 2 THEN 2 ELSE 1]]
MCIndexes == {main, back}
MCParts   == [i \in MCIndexes |-> IF i = main THEN <<"group", "seq">> ELSE <<"seq">>]
MCFilters == {short}
MCAdmits  == [f \in MCFilters |-> {1, 2}]

Option(i, s, f) == [index |-> i, segments |-> s, filter |-> f]
Nothing == [f \in {} |-> 1]

\* The ways options can be: a whole key of each index, a leading segment, none, a field outside
\* the index, segments without an index, a filter.
MCSearches ==
  { Option(main, [group |-> 2, seq |-> 1], None),
    Option(back, [seq |-> 2], short),
    Option(main, [group |-> 2], None),
    Option(None, Nothing, short),
    Option(back, [group |-> 2], None),
    Option(None, [group |-> 2], None) }
=============================================================================
