----------------------------- MODULE MCFieldCodec ----------------------------
(* Small instances of FieldCodec for TLC. *)
EXTENDS FieldCodec

Def(k, w, n) == [kind |-> k, null |-> n, fixed |-> FALSE, width |-> w]

\* Every kind of field, with and without its null flag; strings of fixed and variable length;
\* ints narrower and wider than an int, and floats with fewer digits.
MCFieldDefs ==
  {Def(k, 4, n) : k \in Kinds \ {"unsigned"}, n \in BOOLEAN}
    \cup {[Def("string", 4, n) EXCEPT !.fixed = TRUE] : n \in BOOLEAN}
    \cup {Def(k, w, TRUE) : k \in {"signed", "unsigned"}, w \in {1, 2}}
    \cup {Def(k, 1, TRUE) : k \in {"float", "currency"}}

\* Ints of two bits.
MCHalf    == 2
MCFloats  == {0, 2, 3}
MCRounded == [f \in MCFieldDefs |-> [x \in MCFloats |-> IF f.width = 1 /\ x = 3 THEN 2 ELSE x]]

MCTexts   == {"", "ab", "a0", "abcd"}
MCLength  == [t \in MCTexts |-> CASE t = "" -> 0 [] t = "abcd" -> 4 [] OTHER -> 2]
MCWithNul == {"a0"}

\* Two days and two times, one of them midnight; 3 is a number nothing is packed into.
MCCalendar   == {"epoch", "today"}
MCDateNumber == [d \in MCCalendar |-> IF d = "epoch" THEN 1 ELSE 2]
MCClock      == {"midnight", "noon"}
MCTimeNumber == [t \in MCClock |-> IF t = "midnight" THEN 0 ELSE 2]
MCWords      == 0 .. 3

\* Values of every class, in and out of range, and days and times that do not exist.
MCInputs ==
  {Nil, <<"big", 9>>}
    \cup {<<"bool", x>> : x \in BOOLEAN}
    \cup {<<"int", n>> : n \in -3 .. 2}
    \cup {<<"float", x>> : x \in MCFloats}
    \cup {<<"string", <<t, k>>>> : t \in MCTexts, k \in {0, 2}}
    \cup {<<"date", d>> : d \in MCCalendar \cup {"never"}}
    \cup {<<"time", <<"today", t, x>>>> : t \in MCClock \cup {"never"}, x \in {"plain", "zoned"}}
    \cup {<<"date_time", <<d, t, x>>>> : d \in MCCalendar \cup {"never"}, t \in MCClock,
                                        x \in {"plain", "zoned"}}
=============================================================================
