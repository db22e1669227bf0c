---------------------------- MODULE MCPersistence ----------------------------
(***************************************************************************)
(* Instances of Persistence for TLC.                                       *)
(***************************************************************************)
EXTENDS Persistence, TLC

CONSTANTS a, b

\* One group: the primary index is the increment segment alone, as in the test suite.
OneGroup == {1}
\* Two groups: a leading segment in front of the increment segment.
TwoGroups == {1, 2}

\* A program that lets save number the row, and one that names the key.  Where MaxSeq is
\* 1 the assigned seq is one that set_field rejects.
RaceAttribs == {[group |-> 1, seq |-> Nil, data |-> a], [group |-> 1, seq |-> 1, data |-> a]}
RaceAssignments == {<<"data", b>>, <<"seq", 2>>}

\* Every row is numbered by save, and only data is assigned.
NumberedAttribs == {[group |-> 1, seq |-> Nil, data |-> a]}
DataAssignments == {<<"data", b>>}

\* The same in either group, with no assignment.
GroupAttribs == {[group |-> g, seq |-> Nil, data |-> a] : g \in TwoGroups}
NoAssignments == {}

\* Clients and positions are interchangeable (not used for liveness).
Symmetry == Permutations(Clients) \cup Permutations(Slots)
=============================================================================
