------------------------------ MODULE FieldCodec -----------------------------
(***************************************************************************)
(* How a Ruby value gets into a field of a record's buffer and out again:  *)
(* CT::Record#set_field and get_field with their converters                *)
(* (ext/ctdb_ext/ct_record.c), and the classes CT::Date, CT::Time and      *)
(* CT::DateTime (ct_date.c, ct_time.c, ct_date_time.c) that stand between  *)
(* Ruby's dates and the packed numbers of the library.                     *)
(*                                                                         *)
(* The converters treat every field by itself: the module follows one      *)
(* field of one record, which the program sets from values it makes, reads *)
(* and converts, and which other programs write too.                       *)
(*                                                                         *)
(* Values, of Ruby and of the buffer, are pairs <<class, content>>.  A     *)
(* converter that reads what it never initialised, or the struct of        *)
(* another class, may produce any content: what it stores is a set.  A     *)
(* call that raises produces nothing: the empty set.                       *)
(*                                                                         *)
(* The library is external.  It packs each valid date and time into a      *)
(* number of its own, unpacks no other number, refuses invalid dates and   *)
(* strings that do not fit, and a null field holds zero.  A float comes    *)
(* out of a field as the field rounds it, and rounding it again changes    *)
(* nothing.  An int too wide for its field is refused or stored as any     *)
(* other, and one too wide for get_field read as any other: the code does  *)
(* not say which.  Every call may fail, and then leaves the field alone.   *)
(*                                                                         *)
(* A definition whose name ends in Bug is a mistaken variant of the one    *)
(* below it.                                                               *)
(***************************************************************************)
EXTENDS Integers

CONSTANTS
  FieldDefs,   \* the fields to follow
  Rounded,     \* the float that each gives back for a float
  Half,        \* an int is at least -Half and less than Half, an unsigned less than twice
  Floats,      \* floats, in halves
  Texts,       \* strings without what rstrip takes off their end
  Length,      \* the length of each
  WithNul,     \* those with a NUL inside
  Calendar,    \* the days that exist
  DateNumber,  \* the number each is packed into: never 0
  Epoch,       \* 1 January 1970
  Clock,       \* the times that exist
  Midnight,
  TimeNumber,  \* the number each is packed into
  Words,       \* all numbers such a variable may hold
  Inputs,      \* values the program makes
  None         \* nothing

Kinds == {"bool", "signed", "unsigned", "number", "float", "currency", "string", "date",
          "time", "date_time", "binary"}

\* kind: the case of the field's type in the switches.  null: its null flag.  fixed: a string
\* field of one length.  width: the length of a string; of an int, half of how many it holds:
\* only a BIGINT holds more than an int.
FieldDef == [kind : Kinds, null : BOOLEAN, fixed : BOOLEAN, width : Nat]

ASSUME FieldDefsTyped ==
  /\ FieldDefs \subseteq FieldDef
  /\ \A f \in FieldDefs : f.kind = "unsigned" => f.width <= Half
ASSUME HalfIsPositive  == Half \in Nat \ {0}
ASSUME FloatsAreHalves == Floats \subseteq Nat /\ 0 \in Floats
ASSUME RoundingSettles ==
  /\ Rounded \in [FieldDefs -> [Floats -> Floats]]
  /\ \A f \in FieldDefs : /\ Rounded[f][0] = 0
                          /\ \A x \in Floats : Rounded[f][Rounded[f][x]] = Rounded[f][x]
ASSUME TextsTyped      == Length \in [Texts -> Nat] /\ WithNul \subseteq Texts /\ "" \in Texts
ASSUME DatesPack ==
  /\ DateNumber \in [Calendar -> Words \ {0}] /\ Epoch \in Calendar
  /\ \A d, e \in Calendar : DateNumber[d] = DateNumber[e] => d = e
ASSUME TimesPack ==
  /\ TimeNumber \in [Clock -> Words] /\ Midnight \in Clock
  /\ \A t, u \in Clock : TimeNumber[t] = TimeNumber[u] => t = u
ASSUME WordsAreNumbers == Words \subseteq Nat /\ 0 \in Words

Nil  == <<"nil", 0>>
Null == <<"null", 0>>

\* What is in a value of each class.  A Time and a DateTime have a day, a time, and the zone
\* and the fraction of a second: "plain" without either.
Typed(v) ==
  /\ v = <<v[1], v[2]>>
  /\ v[1] = "nil"    => v[2] = 0
  /\ v[1] = "bool"   => v[2] \in BOOLEAN
  /\ v[1] = "int"    => v[2] \in Int
  /\ v[1] = "big"    => v \in Inputs
  /\ v[1] = "float"  => v[2] \in Floats
  /\ v[1] = "string" => v[2] \in Texts \X Nat
  /\ v[1] \in {"time", "date_time"} => v[2] = <<v[2][1], v[2][2], v[2][3]>>
  /\ v[1] \in {"ct_date", "ct_time"} => v[2] \in Words
  /\ v[1] = "ct_date_time" => v[2] \in Words \X Words

ASSUME InputsTyped == (\A v \in Inputs : Typed(v)) /\ None \notin Inputs \cup {Nil}

VARIABLES
  field,   \* the field followed
  buffer,  \* what the buffer has in it
  held,    \* the value the program has in hand
  given    \* history: the value the program last set, None after anything else

vars == <<field, buffer, held, given>>

Days  == {DateNumber[d] : d \in Calendar}
Times == {TimeNumber[t] : t \in Clock}

DayOf(n)  == CHOOSE d \in Calendar : DateNumber[d] = n
TimeOf(n) == CHOOSE t \in Clock : TimeNumber[t] = n

-----------------------------------------------------------------------------
(* CT::Date, CT::Time and CT::DateTime. *)

\* The day that year, mon and day answer, for a value that has them.
DaysIn(v) ==
  CASE v[1] = "date"    -> {v[2]}
    [] v[1] \in {"time", "date_time"} -> {v[2][1]}
    [] v[1] = "ct_date" -> {DayOf(n) : n \in Days \cap {v[2]}}
    [] OTHER -> {}

\* The time that hour, min and sec answer; Date's own are private, which rb_funcall ignores.
ClocksIn(v) ==
  CASE v[1] = "date"    -> {Midnight}
    [] v[1] \in {"time", "date_time"} -> {v[2][2]}
    [] v[1] = "ct_time" -> {TimeOf(n) : n \in Times \cap {v[2]}}
    [] OTHER -> {}

\* CT::Date.new, also from Date#to_ctdb; and to_date.
DateNew(d) == {<<"ct_date", DateNumber[e]>> : e \in Calendar \cap {d}}
ToDate(n)  == {<<"date", DayOf(m)>> : m \in Days \cap {n}}

\* CT::Time.new does not look at what ctdbTimePack answers: the time of an hour that does
\* not exist is whatever was in the variable.
TimePack(t) == IF t \in Clock THEN {TimeNumber[t]} ELSE Words
TimeNew(t)  == {<<"ct_time", n>> : n \in TimePack(t)}

\* to_time, always of the same day.
ToTime(n) == {<<"time", <<Epoch, TimeOf(m), "plain">>>> : m \in Times \cap {n}}

\* CT::DateTime.new, date, time and to_datetime, always at offset 0.
DateTimeNew(d, t) ==
  {<<"ct_date_time", <<DateNumber[e], TimeNumber[u]>>>> : e \in Calendar \cap {d},
                                                        u \in Clock \cap {t}}
DatePartBug(p) == <<"ct_date", p[2]>>
DatePart(p) == <<"ct_date", p[1]>>
TimePart(p) == <<"ct_time", p[2]>>

ToDateTime(p) ==
  {<<"date_time", <<DayOf(n), TimeOf(m), "plain">>>> : n \in Days \cap {p[1]},
                                                   m \in Times \cap {p[2]}}

\* to_ctdb of Ruby's classes, which leaves out the day of a Time and what a zone or a fraction
\* adds, and to_date, to_time and to_datetime of the extension's.
ToCtdb(v) ==
  CASE v[1] = "date"      -> DateNew(v[2])
    [] v[1] = "time"      -> TimeNew(v[2][2])
    [] v[1] = "date_time" -> DateTimeNew(v[2][1], v[2][2])
    [] OTHER -> {}

ToRuby(v) ==
  CASE v[1] = "ct_date"      -> ToDate(v[2])
    [] v[1] = "ct_time"      -> ToTime(v[2])
    [] v[1] = "ct_date_time" -> ToDateTime(v[2])
    [] OTHER -> {}

Parts(v) == IF v[1] = "ct_date_time" THEN {DatePart(v[2]), TimePart(v[2])} ELSE {}

-----------------------------------------------------------------------------
(* set_field: what each converter may put into the buffer. *)

Ints == -Half .. Half - 1

\* FIX2INT, which truncates a Float and raises outside an int.
FixToInt(v) == {n \in Ints : v = <<"int", n>> \/ (v[1] = "float" /\ n = v[2] \div 2)}

\* The ints of a field, and what becomes of one in a field of some.
Signed(f)   == -f.width .. f.width - 1
Unsigned(f) == 0 .. 2 * f.width - 1
Fitted(n, ints) == IF n \in ints THEN {n} ELSE ints

StoreBool(v) == IF v[1] = "bool" THEN {v} ELSE {}

StoreSigned(f, v) == {<<"int", m>> : m \in UNION {Fitted(n, Signed(f)) : n \in FixToInt(v)}}

\* A negative int becomes a large unsigned.
StoreUnsignedBug(f, v) == {<<"int", n>> : n \in FixToInt(v)}
StoreUnsigned(f, v) ==
  {<<"int", m>> : m \in UNION {Fitted(n % (2 * Half), Unsigned(f)) : n \in FixToInt(v)}}

\* Only Bignums, as the decimal number that their binary digits spell.
StoreNumber(v) == IF v[1] = "big" THEN {<<"digits", v[2]>>} ELSE {}

\* A CT_FLOAT or a CT_MONEY has fewer digits than Ruby's Float.
StoreFloat(f, v) == IF v[1] = "float" THEN {<<"float", Rounded[f][v[2]]>>} ELSE {}

\* Through ctdbFloatToCurrency, which keeps four decimals.
StoreCurrency(f, v) == IF v[1] = "float" THEN {<<"currency", Rounded[f][v[2]]>>} ELSE {}

\* Whatever has a year, a month and a day.
StoreDate(v) ==
  IF v = Nil THEN {<<"date", 0>>}
             ELSE {<<"date", DateNumber[d]>> : d \in Calendar \cap DaysIn(v)}

\* Whatever has an hour, a minute and a second.  The answer of ctdbTimePack is ignored here
\* too.
StoreTimeBug(v) == IF ClocksIn(v) = {} THEN {} ELSE {<<"time", 0>>}
StoreTime(v) == {<<"time", n>> : n \in UNION {TimePack(t) : t \in ClocksIn(v)}}

\* CT::DateTime; what any other object has in its place is taken for one.  nil, true, false
\* and ints are no objects: the process crashes and stores nothing.
StoreDateTime(v) ==
  CASE v[1] = "ct_date_time" -> {<<"date_time", v[2]>>}
    [] v[1] \in {"nil", "bool", "int"} -> {}
    [] OTHER -> {<<"date_time", p>> : p \in Words \X Words}

\* A string for a field of one length is padded, itself, up to the length less one.
Padded(f, v) ==
  LET short == f.width - 1 - Length[v[2][1]] IN
  IF v[1] = "string" /\ f.kind = "string" /\ f.fixed /\ short > v[2][2]
    THEN <<"string", <<v[2][1], short>>>> ELSE v

Fits(f, v) == Length[v[2][1]] + v[2][2] <= f.width

StoreString(f, v) ==
  IF v[1] = "string" /\ v[2][1] \notin WithNul /\ Fits(f, v) THEN {Padded(f, v)} ELSE {}

\* nil is refused when the field must have a value; most converters refuse it anyway.
StoreNoCheckBug(f, v) == IF f.kind = "date" THEN StoreDate(v) ELSE {}
Store(f, v) ==
  IF v = Nil /\ ~f.null THEN {}
  ELSE CASE f.kind = "bool"      -> StoreBool(v)
         [] f.kind = "signed"    -> StoreSigned(f, v)
         [] f.kind = "unsigned"  -> StoreUnsigned(f, v)
         [] f.kind = "number"    -> StoreNumber(v)
         [] f.kind = "float"     -> StoreFloat(f, v)
         [] f.kind = "currency"  -> StoreCurrency(f, v)
         [] f.kind = "string"    -> StoreString(f, v)
         [] f.kind = "date"      -> StoreDate(v)
         [] f.kind = "time"      -> StoreTime(v)
         [] f.kind = "date_time" -> StoreDateTime(v)
         [] f.kind = "binary"    -> {}

-----------------------------------------------------------------------------
(* get_field: what each converter may make of the buffer. *)

LoadBool(b) == {<<"bool", b = <<"bool", TRUE>>>>}

IsNull(b) == b = Null

\* Integers are nil when the field is null.  A number past an int is read as any.
LoadSigned(b) ==
  IF IsNull(b) THEN {Nil} ELSE {<<"int", n>> : n \in Fitted(b[2], Ints)}
LoadUnsigned(b) == IF IsNull(b) THEN {Nil} ELSE {b}

\* The address of the number read, not the number.
LoadNumber(b) == IF IsNull(b) THEN {Nil} ELSE {<<"int", n>> : n \in Ints}

LoadFloat(b) == {<<"float", b[2]>>}

\* Through rstrip.
LoadStringBug(b) == IF b = Null THEN {Nil} ELSE {b}
LoadString(b) == IF b = Null THEN {<<"string", <<"", 0>>>>} ELSE {<<"string", <<b[2][1], 0>>>>}

\* Any positive number is a CT::Date, also one that was never packed.
LoadDate(b) == IF b[2] > 0 THEN {<<"ct_date", b[2]>>} ELSE {Nil}
LoadTime(b) == {<<"ct_time", b[2]>>}

LoadDateTime(b) == IF b = Null \/ b[2] = <<0, 0>> THEN {Nil} ELSE {<<"ct_date_time", b[2]>>}

\* NotImplementedError for the types get_field does not know.
Load(f, b) ==
  CASE f.kind = "bool"      -> LoadBool(b)
    [] f.kind = "signed"    -> LoadSigned(b)
    [] f.kind = "unsigned"  -> LoadUnsigned(b)
    [] f.kind = "number"    -> LoadNumber(b)
    [] f.kind \in {"float", "currency"}  -> LoadFloat(b)
    [] f.kind = "string"    -> LoadString(b)
    [] f.kind = "date"      -> LoadDate(b)
    [] f.kind = "time"      -> LoadTime(b)
    [] f.kind = "date_time" -> LoadDateTime(b)
    [] f.kind = "binary"    -> {}

-----------------------------------------------------------------------------
\* What other programs may store in a field.
Contents(f) ==
  {Null} \cup
  CASE f.kind = "bool"      -> {<<"bool", x>> : x \in BOOLEAN}
    [] f.kind = "signed"    -> {<<"int", n>> : n \in Signed(f)}
    [] f.kind = "unsigned"  -> {<<"int", n>> : n \in Unsigned(f)}
    [] f.kind = "number"    -> {<<"digits", n>> : n \in {v[2] : v \in {u \in Inputs : u[1] = "big"}}}
    [] f.kind = "float"     -> {<<"float", Rounded[f][x]>> : x \in Floats}
    [] f.kind = "currency"  -> {<<"currency", Rounded[f][x]>> : x \in Floats}
    [] f.kind = "string"    -> {v \in {<<"string", <<t, k>>>> : t \in Texts \ WithNul, k \in 0 .. f.width}
                                  : Fits(f, v)}
    [] f.kind = "date"      -> {<<"date", n>> : n \in Words}
    [] f.kind = "time"      -> {<<"time", n>> : n \in Words}
    [] f.kind = "date_time" -> {<<"date_time", p>> : p \in Words \X Words}
    [] f.kind = "binary"    -> {}

Init == /\ field \in FieldDefs /\ buffer = Null
        /\ held = Nil /\ given = None

\* The program makes a value.
Make(v) == /\ held' = v
           /\ UNCHANGED <<field, buffer, given>>

\* set_field with the value in hand.
SetField ==
  /\ \E b \in Store(field, held) : buffer' = b
  /\ held' = Padded(field, held)
  /\ given' = held
  /\ UNCHANGED field

\* It raises: the value is refused, or the library fails, before or after the string is
\* padded.
SetFieldRaises ==
  /\ held' \in {held, Padded(field, held)}
  /\ UNCHANGED <<field, buffer, given>>

GetField ==
  /\ held' \in Load(field, buffer)
  /\ UNCHANGED <<field, buffer, given>>

\* to_ctdb, to_date, to_time, to_datetime, date, time; those that raise change nothing.
Convert ==
  /\ held' \in ToCtdb(held) \cup ToRuby(held) \cup Parts(held)
  /\ UNCHANGED <<field, buffer, given>>

Clear ==
  /\ buffer' = Null /\ given' = None
  /\ UNCHANGED <<field, held>>

\* The record is read again after another program wrote it.
Reread ==
  /\ buffer' \in Contents(field) /\ given' = None
  /\ UNCHANGED <<field, held>>

Next ==
  \/ \E v \in Inputs : Make(v)
  \/ SetField \/ SetFieldRaises \/ GetField \/ Convert \/ Clear \/ Reread

Spec == Init /\ [][Next]_vars

-----------------------------------------------------------------------------
(* Properties. *)

\* The buffer always has what the field's type can have in it: no converter lets anything
\* else in.
TypeOK ==
  /\ field \in FieldDefs
  /\ buffer \in Contents(field)
  /\ Typed(held)
  /\ given # None => Typed(given)

\* The values a field is for.  The others are refused, or stored as something else: an int too
\* wide for the field, a negative one for an unsigned, a Float for an integer, a time that does
\* not exist, what is not a CT::DateTime, a Bignum.
Proper(f, v) ==
  CASE f.kind = "signed"    -> v[1] = "int" /\ v[2] \in Signed(f)
    [] f.kind = "unsigned"  -> v[1] = "int" /\ v[2] \in Unsigned(f)
    [] f.kind = "time"      -> ClocksIn(v) \subseteq Clock
    [] f.kind = "date_time" -> v[1] = "ct_date_time" /\ v[2] # <<0, 0>>
    [] f.kind = "number"    -> FALSE
    [] OTHER -> TRUE

\* What a field of this kind keeps of the value, in the class get_field answers with.
Shown(f, v) ==
  CASE f.kind \in {"float", "currency"} -> {<<"float", Rounded[f][v[2]]>>}
    [] f.kind = "string" -> {<<"string", <<v[2][1], 0>>>>}
    [] f.kind = "date" /\ v # Nil -> UNION {DateNew(d) : d \in DaysIn(v)}
    [] f.kind = "time" -> UNION {TimeNew(t) : t \in ClocksIn(v)}
    [] OTHER -> {v}

\* Of a proper value that set_field took, get_field answers what the field can keep, and no
\* other value: an int, a truth value and a CT::DateTime as they are, a float as the field
\* rounds it, a string but for what rstrip takes off its end, of all that has a date its day,
\* of all that has a time its time.
ReadsBack == given # None /\ Proper(field, given) => Load(field, buffer) = Shown(field, given)

\* A value that was read from any field and is set again is refused or changes nothing that
\* get_field can tell, whichever program wrote it.  Of a number field get_field reads an
\* address, and of a BIGINT past an int another number: those two do not survive.  That a
\* float is not rounded further is RoundingSettles, an assumption on the library.
CopyKeeps ==
  field.kind # "number" /\ (field.kind = "signed" => buffer = Null \/ buffer[2] \in Ints) =>
    \A v \in Load(field, buffer) : \A b \in Store(field, v) :
      Load(field, b) = Load(field, buffer)

\* set_field empties a field only where the definition allows it.
NullAllowed == given = Nil => field.null /\ Load(field, buffer) = {Nil}

\* What exists on the calendar and the clock comes back from to_ctdb and to_date, to_time or
\* to_datetime with the same year to second, and going there again changes nothing more: only
\* the day of a Time, and the zone and the fraction of a second, are lost.  The parts of a
\* CT::DateTime are those of its date and its time alone.
ConversionsAgree ==
  ClocksIn(held) \subseteq Clock =>
    \A w \in ToCtdb(held) :
      /\ \E u \in ToRuby(w) :
           /\ ToRuby(w) = {u} /\ ToCtdb(u) = {w}
           /\ u[1] = held[1] /\ ClocksIn(u) = ClocksIn(held)
           /\ held[1] # "time" => DaysIn(u) = DaysIn(held)
      /\ held[1] = "date_time" =>
           Parts(w) = DateNew(held[2][1]) \cup TimeNew(held[2][2])
=============================================================================
