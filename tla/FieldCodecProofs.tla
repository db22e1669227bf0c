---------------------------- MODULE FieldCodecProofs -------------------------
(***************************************************************************)
(* Proofs about FieldCodec, for any fields, widths of an int, texts,       *)
(* calendars and clocks: what the converters may put into a buffer, and    *)
(* which values survive set_field and get_field.                           *)
(***************************************************************************)
EXTENDS FieldCodec, TLAPS

-----------------------------------------------------------------------------
(* The converters by themselves. *)

\* FIX2INT answers ints only.
LEMMA FixToIntRange ==
  ASSUME NEW v, NEW n \in FixToInt(v)
  PROVE  n \in Int /\ -Half <= n /\ n < Half /\ Half \in Nat \ {0}
BY HalfIsPositive DEF FixToInt, Ints

\* An int goes into some ints as one of them, and into ints it is one of as itself.
LEMMA FittedIn ==
  ASSUME NEW n, NEW ints
  PROVE  Fitted(n, ints) \subseteq ints /\ (n \in ints => Fitted(n, ints) = {n})
BY DEF Fitted

\* Days and times come from the numbers they are packed into.
LEMMA Unpacked ==
  /\ \A n \in Days : DayOf(n) \in Calendar /\ DateNumber[DayOf(n)] = n
  /\ \A n \in Times : TimeOf(n) \in Clock /\ TimeNumber[TimeOf(n)] = n
  /\ \A d \in Calendar : DateNumber[d] \in Days /\ DayOf(DateNumber[d]) = d
  /\ \A t \in Clock : TimeNumber[t] \in Times /\ TimeOf(TimeNumber[t]) = t
<1>1. ASSUME NEW n \in Days
      PROVE  DayOf(n) \in Calendar /\ DateNumber[DayOf(n)] = n
  BY DEF Days, DayOf
<1>2. ASSUME NEW n \in Times
      PROVE  TimeOf(n) \in Clock /\ TimeNumber[TimeOf(n)] = n
  BY DEF Times, TimeOf
<1>3. ASSUME NEW d \in Calendar
      PROVE  DateNumber[d] \in Days /\ DayOf(DateNumber[d]) = d
  BY <1>1, DatesPack DEF Days
<1>4. ASSUME NEW t \in Clock
      PROVE  TimeNumber[t] \in Times /\ TimeOf(TimeNumber[t]) = t
  BY <1>2, TimesPack DEF Times
<1> QED
  BY <1>1, <1>2, <1>3, <1>4

\* A value has at most one day and at most one time.
LEMMA OneDay ==
  ASSUME NEW v
  PROVE  /\ \A d \in DaysIn(v) : DaysIn(v) = {d}
         /\ \A t \in ClocksIn(v) : ClocksIn(v) = {t}
BY DEF DaysIn, ClocksIn

\* An int that is not negative fits an unsigned.
LEMMA UnsignedKeeps ==
  ASSUME NEW n \in Nat, n < 2 * Half
  PROVE  n % (2 * Half) = n
BY HalfIsPositive

\* What a converter stores is what a field of its kind can have in it.
LEMMA StoreFits ==
  ASSUME NEW f \in FieldDefs, NEW v, Typed(v), NEW b \in Store(f, v)
  PROVE  b \in Contents(f)
<1>0. f.kind \in Kinds /\ f.width \in Nat
  BY FieldDefsTyped DEF FieldDef
<1>1. CASE f.kind = "bool"
  <2>1. b = v /\ v[1] = "bool"
    BY <1>1 DEF Store, StoreBool
  <2>2. v = <<"bool", v[2]>> /\ v[2] \in BOOLEAN
    BY <2>1 DEF Typed
  <2> QED
    BY <1>1, <2>1, <2>2 DEF Contents
<1>2. CASE f.kind = "signed"
  <2>1. PICK n \in FixToInt(v) : \E m \in Fitted(n, Signed(f)) : b = <<"int", m>>
    BY <1>2 DEF Store, StoreSigned
  <2>2. \E m \in Signed(f) : b = <<"int", m>>
    BY <2>1, FittedIn
  <2> QED
    BY <1>2, <2>2 DEF Contents
<1>3. CASE f.kind = "unsigned"
  <2>1. PICK n \in FixToInt(v) : \E m \in Fitted(n % (2 * Half), Unsigned(f)) : b = <<"int", m>>
    BY <1>3 DEF Store, StoreUnsigned
  <2>2. \E m \in Unsigned(f) : b = <<"int", m>>
    BY <2>1, FittedIn
  <2> QED
    BY <1>3, <2>2 DEF Contents
<1>4. CASE f.kind = "number"
  <2>1. b = <<"digits", v[2]>> /\ v[1] = "big"
    BY <1>4 DEF Store, StoreNumber
  <2>2. v \in Inputs
    BY <2>1 DEF Typed
  <2> QED
    BY <1>4, <2>1, <2>2 DEF Contents
<1>5. CASE f.kind = "float"
  <2>1. b = <<"float", Rounded[f][v[2]]>> /\ v[1] = "float"
    BY <1>5 DEF Store, StoreFloat
  <2>2. v[2] \in Floats
    BY <2>1 DEF Typed
  <2> QED
    BY <1>5, <2>1, <2>2 DEF Contents
<1>6. CASE f.kind = "currency"
  <2>1. b = <<"currency", Rounded[f][v[2]]>> /\ v[1] = "float"
    BY <1>6 DEF Store, StoreCurrency
  <2>2. v[2] \in Floats
    BY <2>1 DEF Typed
  <2> QED
    BY <1>6, <2>1, <2>2 DEF Contents
<1>7. CASE f.kind = "string"
  <2>1. b = Padded(f, v) /\ v[1] = "string" /\ v[2][1] \notin WithNul /\ Fits(f, v)
    BY <1>7 DEF Store, StoreString
  <2>2. v = <<"string", v[2]>> /\ v[2] \in Texts \X Nat
    BY <2>1 DEF Typed
  <2>3. PICK t \in Texts, k \in Nat : v[2] = <<t, k>>
    BY <2>2
  <2>4. Length[t] \in Nat /\ t \in Texts \ WithNul /\ Length[t] + k <= f.width
    <3>1. v[2][1] = t /\ v[2][2] = k
      BY <2>3
    <3>2. Length[t] \in Nat
      BY TextsTyped
    <3> QED
      BY <2>1, <3>1, <3>2 DEF Fits
  <2>5. PICK j \in Nat : b = <<"string", <<t, j>>>> /\ Length[t] + j <= f.width
    <3>1. CASE b = v
      BY <2>2, <2>3, <2>4, <3>1
    <3>2. CASE b # v
      <4> DEFINE short == f.width - 1 - Length[t]
      <4>1. b = <<"string", <<t, short>>>> /\ short > k
        BY <2>1, <2>3, <3>2 DEF Padded
      <4> QED
        BY <1>0, <2>4, <4>1
    <3> QED
      BY <3>1, <3>2
  <2>6. j \in 0 .. f.width /\ Fits(f, b)
    BY <1>0, <2>4, <2>5 DEF Fits
  <2> QED
    BY <1>7, <2>4, <2>5, <2>6 DEF Contents
<1>8. CASE f.kind = "date"
  <2>1. PICK n : b = <<"date", n>> /\ (n = 0 \/ \E d \in Calendar : n = DateNumber[d])
    BY <1>8 DEF Store, StoreDate
  <2>2. n \in Words
    BY <2>1, DatesPack, WordsAreNumbers
  <2> QED
    BY <1>8, <2>1, <2>2 DEF Contents
<1>9. CASE f.kind = "time"
  <2>1. PICK n : b = <<"time", n>> /\ \E t : n \in TimePack(t)
    BY <1>9 DEF Store, StoreTime
  <2>2. n \in Words
    BY <2>1, TimesPack DEF TimePack
  <2> QED
    BY <1>9, <2>1, <2>2 DEF Contents
<1>10. CASE f.kind = "date_time"
  <2>1. PICK p \in Words \X Words : b = <<"date_time", p>>
    BY <1>10 DEF Store, StoreDateTime, Typed
  <2> QED
    BY <1>10, <2>1 DEF Contents
<1>11. CASE f.kind = "binary"
  BY <1>11 DEF Store
<1> QED
  BY <1>0, <1>1, <1>2, <1>3, <1>4, <1>5, <1>6, <1>7, <1>8, <1>9, <1>10, <1>11 DEF Kinds

\* What get_field answers is a value of its class.
LEMMA LoadTyped ==
  ASSUME NEW f \in FieldDefs, NEW b \in Contents(f), NEW v \in Load(f, b)
  PROVE  Typed(v)
<1>0. f.kind \in Kinds /\ f.width \in Nat
  BY FieldDefsTyped DEF FieldDef
<1>1. CASE f.kind = "bool"
  <2>1. v = <<"bool", b = <<"bool", TRUE>>>>
    BY <1>1 DEF Load, LoadBool
  <2>2. PICK x \in BOOLEAN : v = <<"bool", x>>
    BY <2>1
  <2> QED
    BY <2>2 DEF Typed
<1>2. CASE f.kind \in {"signed", "unsigned"}
  <2>1. Ints \subseteq Int /\ Unsigned(f) \subseteq Int
    BY <1>0, HalfIsPositive DEF Ints, Unsigned
  <2>2. CASE f.kind = "signed"
    <3>1. v = Nil \/ \E n \in Fitted(b[2], Ints) : v = <<"int", n>>
      BY <2>2 DEF Load, LoadSigned
    <3>2. CASE v = Nil
      BY <3>2 DEF Typed, Nil
    <3>3. CASE v # Nil
      <4>1. PICK n \in Int : v = <<"int", n>>
        BY <2>1, <3>1, <3>3, FittedIn
      <4>2. v[1] = "int" /\ v[2] = n
        BY <4>1
      <4> QED
        BY <4>1, <4>2 DEF Typed
    <3> QED
      BY <3>2, <3>3
  <2>3. CASE f.kind = "unsigned"
    <3>1. v = Nil \/ \E n \in Int : v = <<"int", n>>
      BY <2>1, <2>3 DEF Load, LoadUnsigned, IsNull, Contents
    <3> QED
      BY <3>1 DEF Typed, Nil
  <2> QED
    BY <1>2, <2>2, <2>3
<1>3. CASE f.kind = "number"
  <2>1. v = Nil \/ \E n \in Int : v = <<"int", n>>
    BY <1>3, HalfIsPositive DEF Load, LoadNumber, Ints
  <2> QED
    BY <2>1 DEF Typed, Nil
<1>4. CASE f.kind \in {"float", "currency"}
  <2>1. b = Null \/ b[2] \in Floats
    BY <1>4, RoundingSettles DEF Contents
  <2>2. v = <<"float", b[2]>> /\ b[2] \in Floats
    BY <1>4, <2>1, FloatsAreHalves DEF Load, LoadFloat, Null
  <2> QED
    BY <2>2 DEF Typed
<1>5. CASE f.kind = "string"
  <2>1. b = Null \/ \E t \in Texts : b[2][1] = t
    BY <1>5 DEF Contents
  <2>2. \E t \in Texts : v = <<"string", <<t, 0>>>>
    BY <1>5, <2>1, TextsTyped DEF Load, LoadString
  <2> QED
    BY <2>2 DEF Typed
<1>6. CASE f.kind = "date"
  <2>1. b = Null \/ b[2] \in Words
    BY <1>6 DEF Contents
  <2>2. v = Nil \/ (v = <<"ct_date", b[2]>> /\ b[2] > 0)
    BY <1>6 DEF Load, LoadDate
  <2>3. v = Nil \/ (v = <<"ct_date", b[2]>> /\ b[2] \in Words)
    BY <2>1, <2>2, WordsAreNumbers DEF Null
  <2> QED
    BY <2>3 DEF Typed, Nil
<1>7. CASE f.kind = "time"
  <2>1. b[2] \in Words
    BY <1>7, WordsAreNumbers DEF Contents, Null
  <2>2. v = <<"ct_time", b[2]>>
    BY <1>7 DEF Load, LoadTime
  <2> QED
    BY <2>1, <2>2 DEF Typed
<1>8. CASE f.kind = "date_time"
  <2>1. b = Null \/ b[2] \in Words \X Words
    BY <1>8 DEF Contents
  <2>2. v = Nil \/ (v = <<"ct_date_time", b[2]>> /\ b[2] \in Words \X Words)
    BY <1>8, <2>1 DEF Load, LoadDateTime
  <2> QED
    BY <2>2 DEF Typed, Nil
<1>9. CASE f.kind = "binary"
  BY <1>9 DEF Load
<1> QED
  BY <1>0, <1>1, <1>2, <1>3, <1>4, <1>5, <1>6, <1>7, <1>8, <1>9 DEF Kinds

\* What a conversion answers is a value of its class.
LEMMA ConvertTyped ==
  ASSUME NEW v, Typed(v), NEW w \in ToCtdb(v) \cup ToRuby(v) \cup Parts(v)
  PROVE  Typed(w)
<1>1. CASE w \in ToCtdb(v)
  <2>1. \/ \E n \in Words : w = <<"ct_date", n>> \/ w = <<"ct_time", n>>
        \/ \E n, m \in Words : w = <<"ct_date_time", <<n, m>>>>
    BY <1>1, DatesPack, TimesPack DEF ToCtdb, DateNew, TimeNew, TimePack, DateTimeNew
  <2> QED
    BY <2>1 DEF Typed
<1>2. CASE w \in ToRuby(v)
  <2>1. CASE v[1] = "ct_date"
    <3>1. \E d : w = <<"date", d>>
      BY <1>2, <2>1 DEF ToRuby, ToDate
    <3> QED
      BY <3>1 DEF Typed
  <2>2. CASE v[1] = "ct_time"
    <3>1. PICK t : w = <<"time", <<Epoch, t, "plain">>>>
      BY <1>2, <2>2 DEF ToRuby, ToTime
    <3>2. w[1] = "time" /\ w[2] = <<Epoch, t, "plain">>
      BY <3>1
    <3> QED
      BY <3>1, <3>2 DEF Typed
  <2>3. CASE v[1] = "ct_date_time"
    <3>1. w \in ToDateTime(v[2])
      BY <1>2, <2>3 DEF ToRuby
    <3>2. PICK d, t : w = <<"date_time", <<d, t, "plain">>>>
      BY <3>1 DEF ToDateTime
    <3>3. w[1] = "date_time" /\ w[2] = <<d, t, "plain">>
      BY <3>2
    <3> QED
      BY <3>2, <3>3 DEF Typed
  <2>4. v[1] \in {"ct_date", "ct_time", "ct_date_time"}
    BY <1>2 DEF ToRuby
  <2> QED
    BY <2>1, <2>2, <2>3, <2>4
<1>3. CASE w \in Parts(v)
  <2>1. v[1] = "ct_date_time" /\ v[2] \in Words \X Words
    BY <1>3 DEF Parts, Typed
  <2>2. v[2][1] \in Words /\ v[2][2] \in Words
    BY <2>1
  <2>3. w = <<"ct_date", v[2][1]>> \/ w = <<"ct_time", v[2][2]>>
    BY <1>3, <2>1 DEF Parts, DatePart, TimePart
  <2> QED
    BY <2>2, <2>3 DEF Typed
<1> QED
  BY <1>1, <1>2, <1>3

\* The padding of a string keeps it a string.
LEMMA PaddedTyped ==
  ASSUME NEW f \in FieldDef, NEW v, Typed(v)
  PROVE  Typed(Padded(f, v))
<1> DEFINE short == f.width - 1 - Length[v[2][1]]
<1>1. CASE Padded(f, v) = v
  BY <1>1
<1>2. CASE Padded(f, v) # v
  <2>1. Padded(f, v) = <<"string", <<v[2][1], short>>>> /\ v[1] = "string" /\ short > v[2][2]
    BY <1>2 DEF Padded
  <2>2. PICK t \in Texts, k \in Nat : v[2] = <<t, k>>
    BY <2>1 DEF Typed
  <2>3. Length[t] \in Nat /\ f.width \in Nat
    BY TextsTyped DEF FieldDef
  <2>4. short \in Nat /\ v[2][1] = t
    BY <2>1, <2>2, <2>3
  <2> HIDE DEF short
  <2> QED
    BY <2>1, <2>4 DEF Typed
<1> QED
  BY <1>1, <1>2

-----------------------------------------------------------------------------
(* What survives. *)

\* nil goes into date fields that may be null only.
LEMMA NilStored ==
  ASSUME NEW f \in FieldDefs, NEW b \in Store(f, Nil)
  PROVE  f.null /\ Load(f, b) = {Nil}
<1>0. f.kind \in Kinds /\ f.null
  BY FieldDefsTyped DEF FieldDef, Store
<1>1. FixToInt(Nil) = {} /\ ClocksIn(Nil) = {}
  BY DEF FixToInt, ClocksIn, Nil
<1>2. f.kind = "date"
  BY <1>0, <1>1 DEF Kinds, Store, StoreBool, StoreSigned, StoreUnsigned, StoreNumber, StoreFloat,
     StoreCurrency, StoreString, StoreTime, StoreDateTime, Nil
<1>3. b = <<"date", 0>>
  BY <1>0, <1>2 DEF Store, StoreDate
<1> QED
  BY <1>0, <1>2, <1>3 DEF Load, LoadDate

\* Of a proper value that is stored the field's part is read back.
LEMMA ProperReadsBack ==
  ASSUME NEW f \in FieldDefs, NEW v, Typed(v), Proper(f, v), NEW b \in Store(f, v)
  PROVE  Load(f, b) = Shown(f, v)
<1>0. f.kind \in Kinds /\ f.width \in Nat /\ v = <<v[1], v[2]>>
  BY FieldDefsTyped DEF FieldDef, Typed
<1>1. CASE f.kind = "bool"
  <2>1. b = v /\ v[1] = "bool" /\ v[2] \in BOOLEAN
    BY <1>1 DEF Store, StoreBool, Typed
  <2>2. CASE v = <<"bool", TRUE>>
    BY <1>1, <2>1, <2>2 DEF Load, LoadBool, Shown
  <2>3. CASE v = <<"bool", FALSE>>
    BY <1>1, <2>1, <2>3 DEF Load, LoadBool, Shown
  <2> QED
    BY <1>0, <2>1, <2>2, <2>3
<1>2. CASE f.kind = "signed"
  <2>1. v[1] = "int" /\ v[2] \in Signed(f)
    BY <1>2 DEF Proper
  <2>2. PICK n \in FixToInt(v) : \E m \in Fitted(n, Signed(f)) : b = <<"int", m>>
    BY <1>2 DEF Store, StoreSigned
  <2>3. v = <<"int", n>> /\ n \in Ints
    BY <2>1 DEF FixToInt
  <2>4. b = v /\ ~IsNull(b) /\ b[2] = n
    BY <2>1, <2>2, <2>3, FittedIn DEF IsNull, Null
  <2>5. Fitted(b[2], Ints) = {n}
    BY <2>3, <2>4, FittedIn
  <2> QED
    BY <1>2, <2>3, <2>4, <2>5 DEF Load, LoadSigned, Shown
<1>3. CASE f.kind = "unsigned"
  <2>1. v[1] = "int" /\ v[2] \in Unsigned(f)
    BY <1>3 DEF Proper
  <2>2. PICK n \in FixToInt(v) : \E m \in Fitted(n % (2 * Half), Unsigned(f)) : b = <<"int", m>>
    BY <1>3 DEF Store, StoreUnsigned
  <2>3. v = <<"int", n>>
    BY <2>1 DEF FixToInt
  <2>4. n \in Nat /\ n < 2 * Half
    BY <1>0, <2>1, <2>3, FixToIntRange DEF Unsigned
  <2>5. n % (2 * Half) = n
    BY <2>4, UnsignedKeeps
  <2>6. b = v /\ ~IsNull(b)
    BY <2>1, <2>2, <2>3, <2>5, FittedIn DEF IsNull, Null
  <2> QED
    BY <1>3, <2>6 DEF Load, LoadUnsigned, Shown
<1>4. CASE f.kind = "number"
  BY <1>4 DEF Proper
<1>5. CASE f.kind \in {"float", "currency"}
  <2>1. b[2] = Rounded[f][v[2]]
    BY <1>5 DEF Store, StoreFloat, StoreCurrency
  <2> QED
    BY <1>5, <2>1 DEF Load, LoadFloat, Shown
<1>6. CASE f.kind = "string"
  <2>1. b = Padded(f, v) /\ v[1] = "string"
    BY <1>6 DEF Store, StoreString
  <2>2. b[1] = "string" /\ b[2][1] = v[2][1]
    BY <2>1 DEF Padded
  <2>3. b # Null
    BY <2>2 DEF Null
  <2> QED
    BY <1>6, <2>2, <2>3 DEF Load, LoadString, Shown
<1>7. CASE f.kind = "date"
  <2>1. CASE v = Nil
    BY <1>7, <2>1, NilStored DEF Shown
  <2>2. CASE v # Nil
    <3>1. PICK d \in Calendar \cap DaysIn(v) : b = <<"date", DateNumber[d]>>
      BY <1>7, <2>2 DEF Store, StoreDate
    <3>2. DateNumber[d] > 0
      <4> DEFINE n == DateNumber[d]
      <4>1. n \in Words \ {0}
        BY <3>1, DatesPack
      <4> HIDE DEF n
      <4>2. n \in Nat /\ n # 0
        BY <4>1, WordsAreNumbers
      <4>3. n > 0
        BY <4>2
      <4> QED
        BY <4>3 DEF n
    <3>3. Load(f, b) = {<<"ct_date", DateNumber[d]>>}
      BY <1>7, <3>1, <3>2 DEF Load, LoadDate
    <3>4. DateNew(d) = {<<"ct_date", DateNumber[d]>>} /\ DaysIn(v) = {d}
      BY <3>1, OneDay DEF DateNew
    <3> QED
      BY <1>7, <2>2, <3>3, <3>4 DEF Shown
  <2> QED
    BY <2>1, <2>2
<1>8. CASE f.kind = "time"
  <2>1. PICK t \in ClocksIn(v) : \E n \in TimePack(t) : b = <<"time", n>>
    BY <1>8 DEF Store, StoreTime
  <2>2. ClocksIn(v) = {t} /\ TimePack(t) = {TimeNumber[t]}
    BY <1>8, <2>1, OneDay DEF Proper, TimePack
  <2>3. Load(f, b) = {<<"ct_time", TimeNumber[t]>>}
    BY <1>8, <2>1, <2>2 DEF Load, LoadTime
  <2>4. TimeNew(t) = {<<"ct_time", TimeNumber[t]>>}
    BY <2>2 DEF TimeNew
  <2> QED
    BY <1>8, <2>2, <2>3, <2>4 DEF Shown
<1>9. CASE f.kind = "date_time"
  <2>1. v[1] = "ct_date_time" /\ v[2] # <<0, 0>>
    BY <1>9 DEF Proper
  <2>2. b = <<"date_time", v[2]>>
    BY <1>9, <2>1 DEF Store, StoreDateTime
  <2>3. Load(f, b) = {<<"ct_date_time", v[2]>>}
    BY <1>9, <2>1, <2>2 DEF Load, LoadDateTime, Null
  <2> QED
    BY <1>0, <1>9, <2>1, <2>3 DEF Shown
<1>10. CASE f.kind = "binary"
  BY <1>10 DEF Store
<1> QED
  BY <1>0, <1>1, <1>2, <1>3, <1>4, <1>5, <1>6, <1>7, <1>8, <1>9, <1>10 DEF Kinds

\* A value that was read is refused when it is set again, or changes nothing.
LEMMA CopyChangesNothing ==
  ASSUME NEW f \in FieldDefs, f.kind # "number", NEW b \in Contents(f),
         f.kind = "signed" => b = Null \/ b[2] \in Ints,
         NEW v \in Load(f, b), NEW c \in Store(f, v)
  PROVE  Load(f, c) = Load(f, b)
<1>0. f.kind \in Kinds /\ f.width \in Nat
  BY FieldDefsTyped DEF FieldDef
<1>1. CASE v = Nil
  <2>1. f.kind = "date" /\ Load(f, c) = {Nil}
    <3>1. FixToInt(Nil) = {} /\ ClocksIn(Nil) = {}
      BY DEF FixToInt, ClocksIn, Nil
    <3>2. f.kind = "date"
      BY <1>0, <1>1, <3>1 DEF Kinds, Store, StoreBool, StoreSigned, StoreUnsigned, StoreNumber,
         StoreFloat, StoreCurrency, StoreString, StoreTime, StoreDateTime, Nil
    <3> QED
      BY <1>1, <3>2, NilStored
  <2>2. Load(f, b) = {Nil}
    BY <1>1, <2>1 DEF Load, LoadDate
  <2> QED
    BY <2>1, <2>2
<1>2. CASE v # Nil /\ f.kind = "bool"
  <2>1. v = <<"bool", b = <<"bool", TRUE>>>> /\ Load(f, b) = {v}
    BY <1>2 DEF Load, LoadBool
  <2>2. c = v
    BY <1>2 DEF Store, StoreBool
  <2>3. CASE b = <<"bool", TRUE>>
    <3>1. v = <<"bool", TRUE>>
      BY <2>1, <2>3
    <3> QED
      BY <1>2, <2>1, <2>2, <3>1 DEF Load, LoadBool
  <2>4. CASE b # <<"bool", TRUE>>
    <3>1. v = <<"bool", FALSE>>
      BY <2>1, <2>4
    <3> QED
      BY <1>2, <2>1, <2>2, <3>1 DEF Load, LoadBool
  <2> QED
    BY <2>3, <2>4
<1>3. CASE v # Nil /\ f.kind = "signed"
  <2>1. b # Null
    BY <1>1, <1>3 DEF Load, LoadSigned, IsNull
  <2>2. PICK n \in Signed(f) : b = <<"int", n>> /\ n \in Ints
    BY <1>3, <2>1 DEF Contents
  <2>3. Load(f, b) = {b} /\ v = b
    <3>1. Fitted(b[2], Ints) = {n}
      BY <2>2, FittedIn
    <3> QED
      BY <1>3, <2>1, <2>2, <3>1 DEF Load, LoadSigned, IsNull
  <2>4. FixToInt(v) = {n}
    BY <2>2, <2>3 DEF FixToInt
  <2>5. PICK m \in Fitted(n, Signed(f)) : c = <<"int", m>>
    BY <1>3, <2>4 DEF Store, StoreSigned
  <2>6. c = b
    BY <2>2, <2>5, FittedIn
  <2> QED
    BY <2>6
<1>4. CASE v # Nil /\ f.kind = "unsigned"
  <2>1. b # Null /\ v = b /\ Load(f, b) = {b}
    BY <1>4 DEF Load, LoadUnsigned, IsNull
  <2>2. PICK n \in Unsigned(f) : v = <<"int", n>>
    BY <1>4, <2>1 DEF Contents
  <2>3. PICK k \in FixToInt(v) : \E m \in Fitted(k % (2 * Half), Unsigned(f)) : c = <<"int", m>>
    BY <1>4 DEF Store, StoreUnsigned
  <2>4. k = n
    BY <2>2, <2>3 DEF FixToInt
  <2>5. n \in Nat /\ n < 2 * Half
    BY <1>0, <2>3, <2>4, FixToIntRange DEF Unsigned
  <2>6. n % (2 * Half) = n
    BY <2>5, UnsignedKeeps
  <2>7. c = v
    BY <2>2, <2>3, <2>4, <2>6, FittedIn
  <2> QED
    BY <2>1, <2>7
<1>5. CASE v # Nil /\ f.kind \in {"float", "currency"}
  <2>1. v = <<"float", b[2]>>
    BY <1>5 DEF Load, LoadFloat
  <2>2. b[2] = 0 \/ \E x \in Floats : b[2] = Rounded[f][x]
    BY <1>5 DEF Contents, Null
  <2>3. Rounded[f][b[2]] = b[2]
    BY <2>2, RoundingSettles
  <2>4. c[2] = b[2]
    BY <1>5, <2>1, <2>3 DEF Store, StoreFloat, StoreCurrency
  <2> QED
    BY <1>5, <2>4 DEF Load, LoadFloat
<1>6. CASE v # Nil /\ f.kind = "string"
  <2>1. PICK t : v = <<"string", <<t, 0>>>> /\ Load(f, b) = {v}
    BY <1>6 DEF Load, LoadString
  <2>2. c = Padded(f, v)
    BY <1>6 DEF Store, StoreString
  <2>3. c[1] = "string" /\ c[2][1] = t
    BY <2>1, <2>2 DEF Padded
  <2>4. c # Null
    BY <2>3 DEF Null
  <2>5. Load(f, c) = {<<"string", <<t, 0>>>>}
    BY <1>6, <2>3, <2>4 DEF Load, LoadString
  <2> QED
    BY <2>1, <2>5
<1>7. CASE v # Nil /\ f.kind = "date"
  <2>1. v = <<"ct_date", b[2]>> /\ b[2] > 0 /\ Load(f, b) = {v}
    BY <1>7 DEF Load, LoadDate
  <2>2. c = <<"date", b[2]>>
    <3>1. PICK d \in Calendar \cap DaysIn(v) : c = <<"date", DateNumber[d]>>
      BY <1>7 DEF Store, StoreDate
    <3>2. PICK n \in Days \cap {b[2]} : d = DayOf(n)
      BY <2>1, <3>1 DEF DaysIn
    <3> QED
      BY <3>1, <3>2, Unpacked
  <2> QED
    BY <1>7, <2>1, <2>2 DEF Load, LoadDate
<1>8. CASE v # Nil /\ f.kind = "time"
  <2>1. v = <<"ct_time", b[2]>> /\ Load(f, b) = {v}
    BY <1>8 DEF Load, LoadTime
  <2>2. c = <<"time", b[2]>>
    <3>1. PICK t \in ClocksIn(v) : \E n \in TimePack(t) : c = <<"time", n>>
      BY <1>8 DEF Store, StoreTime
    <3>2. PICK m \in Times \cap {b[2]} : t = TimeOf(m)
      BY <2>1, <3>1 DEF ClocksIn
    <3>3. TimePack(t) = {b[2]}
      BY <3>2, Unpacked DEF TimePack
    <3> QED
      BY <3>1, <3>3
  <2> QED
    BY <1>8, <2>1, <2>2 DEF Load, LoadTime
<1>9. CASE v # Nil /\ f.kind = "date_time"
  <2>1. v = <<"ct_date_time", b[2]>> /\ b[2] # <<0, 0>> /\ Load(f, b) = {v}
    BY <1>9 DEF Load, LoadDateTime
  <2>2. c = <<"date_time", b[2]>>
    BY <1>9, <2>1 DEF Store, StoreDateTime
  <2>3. c # Null
    BY <2>2 DEF Null
  <2> QED
    BY <1>9, <2>1, <2>2, <2>3 DEF Load, LoadDateTime
<1>10. CASE f.kind = "binary"
  BY <1>10 DEF Load
<1> QED
  BY <1>0, <1>1, <1>2, <1>3, <1>4, <1>5, <1>6, <1>7, <1>8, <1>9, <1>10 DEF Kinds

\* What exists on the calendar and the clock comes back from to_ctdb.
LEMMA ConvertsBack ==
  ASSUME NEW v, Typed(v), ClocksIn(v) \subseteq Clock, NEW w \in ToCtdb(v)
  PROVE  /\ \E u \in ToRuby(w) :
              /\ ToRuby(w) = {u} /\ ToCtdb(u) = {w}
              /\ u[1] = v[1] /\ ClocksIn(u) = ClocksIn(v)
              /\ v[1] # "time" => DaysIn(u) = DaysIn(v)
         /\ v[1] = "date_time" => Parts(w) = DateNew(v[2][1]) \cup TimeNew(v[2][2])
<1>0. v[1] \in {"date", "time", "date_time"}
  BY DEF ToCtdb
<1>1. CASE v[1] = "date"
  <2>1. v[2] \in Calendar /\ w = <<"ct_date", DateNumber[v[2]]>>
    BY <1>1 DEF ToCtdb, DateNew
  <2>2. ToRuby(w) = {<<"date", v[2]>>}
    BY <2>1, Unpacked DEF ToRuby, ToDate
  <2> DEFINE u == <<"date", v[2]>>
  <2>3. ToCtdb(u) = {w}
    BY <2>1 DEF ToCtdb, DateNew
  <2>4. ClocksIn(u) = ClocksIn(v) /\ DaysIn(u) = DaysIn(v)
    BY <1>1 DEF ClocksIn, DaysIn
  <2> QED
    BY <1>1, <2>2, <2>3, <2>4
<1>2. CASE v[1] = "time"
  <2> DEFINE t == v[2][2]
             u == <<"time", <<Epoch, t, "plain">>>>
  <2>1. t \in Clock
    BY <1>2 DEF ClocksIn
  <2>2. w = <<"ct_time", TimeNumber[t]>>
    BY <1>2, <2>1 DEF ToCtdb, TimeNew, TimePack
  <2>3. ToRuby(w) = {u}
    <3> DEFINE n == TimeNumber[t]
    <3>1. n \in Times /\ TimeOf(n) = t
      BY <2>1, Unpacked
    <3>2. ToTime(n) = {<<"time", <<Epoch, TimeOf(n), "plain">>>>}
      BY <3>1 DEF ToTime
    <3> HIDE DEF n
    <3>3. ToRuby(<<"ct_time", n>>) = ToTime(n)
      BY DEF ToRuby
    <3> QED
      BY <2>2, <3>1, <3>2, <3>3 DEF n
  <2>4. ToCtdb(u) = {w}
    BY <2>1, <2>2 DEF ToCtdb, TimeNew, TimePack
  <2>5. ClocksIn(u) = ClocksIn(v)
    BY <1>2 DEF ClocksIn
  <2> QED
    BY <1>2, <2>3, <2>4, <2>5
<1>3. CASE v[1] = "date_time"
  <2> DEFINE d == v[2][1]
             t == v[2][2]
             n == DateNumber[d]
             m == TimeNumber[t]
             u == <<"date_time", <<d, t, "plain">>>>
  <2>1. d \in Calendar /\ t \in Clock /\ w = <<"ct_date_time", <<n, m>>>>
    BY <1>3 DEF ToCtdb, DateTimeNew
  <2>2. n \in Days /\ m \in Times /\ DayOf(n) = d /\ TimeOf(m) = t
    BY <2>1, Unpacked
  <2>3. DateNew(d) = {<<"ct_date", n>>} /\ TimeNew(t) = {<<"ct_time", m>>}
    BY <2>1 DEF DateNew, TimeNew, TimePack
  <2>4. ToCtdb(u) = {w}
    BY <2>1 DEF ToCtdb, DateTimeNew
  <2>5. ClocksIn(u) = ClocksIn(v) /\ DaysIn(u) = DaysIn(v)
    BY <1>3 DEF ClocksIn, DaysIn
  <2>6. u[1] = v[1]
    BY <1>3
  <2> HIDE DEF n, m
  <2>7. ToRuby(w) = {u}
    <3>1. Days \cap {n} = {n} /\ Times \cap {m} = {m}
      BY <2>2
    <3>2. ToDateTime(<<n, m>>) =
            {<<"date_time", <<DayOf(i), TimeOf(j), "plain">>>> : i \in {n}, j \in {m}}
      BY <3>1 DEF ToDateTime
    <3>3. ToDateTime(<<n, m>>) = {<<"date_time", <<DayOf(n), TimeOf(m), "plain">>>>}
      BY <3>2
    <3>4. ToRuby(<<"ct_date_time", <<n, m>>>>) = ToDateTime(<<n, m>>)
      BY DEF ToRuby
    <3> QED
      BY <2>1, <2>2, <3>3, <3>4
  <2>8. Parts(w) = {<<"ct_date", n>>, <<"ct_time", m>>}
    BY <2>1 DEF Parts, DatePart, TimePart
  <2> QED
    BY <2>3, <2>4, <2>5, <2>6, <2>7, <2>8
<1> QED
  BY <1>0, <1>1, <1>2, <1>3

-----------------------------------------------------------------------------
(* The theorems. *)

\* The field has what set_field put into it last, and every value is of its class.
Inv == TypeOK /\ (given # None => buffer \in Store(field, given))

\* A cleared record.
LEMMA InitKeeps == Init => Inv
<1> SUFFICES ASSUME Init
             PROVE  Inv
  OBVIOUS
<1>1. buffer \in Contents(field)
  BY DEF Init, Contents
<1>2. Typed(held)
  BY DEF Init, Nil, Typed
<1> QED
  BY <1>1, <1>2 DEF Init, Inv, TypeOK

\* Every step keeps the invariant.
LEMMA NextKeeps == Inv /\ [Next]_vars => Inv'
<1> SUFFICES ASSUME Inv, [Next]_vars
             PROVE  Inv'
  OBVIOUS
<1>0. /\ field \in FieldDefs /\ field \in FieldDef /\ buffer \in Contents(field) /\ Typed(held)
      /\ (given # None => Typed(given) /\ buffer \in Store(field, given))
  BY FieldDefsTyped DEF Inv, TypeOK
<1>1. ASSUME UNCHANGED <<field, buffer, given>>, Typed(held')
      PROVE  Inv'
  BY <1>0, <1>1 DEF Inv, TypeOK
<1>2. CASE SetField
  <2>1. buffer' \in Store(field, held) /\ given' = held /\ field' = field
    BY <1>2 DEF SetField
  <2>2. buffer' \in Contents(field)
    BY <1>0, <2>1, StoreFits
  <2>3. Typed(held')
    BY <1>0, <1>2, PaddedTyped DEF SetField
  <2> QED
    BY <1>0, <2>1, <2>2, <2>3 DEF Inv, TypeOK
<1>3. CASE SetFieldRaises
  <2>1. Typed(held')
    BY <1>0, <1>3, PaddedTyped DEF SetFieldRaises
  <2> QED
    BY <1>1, <1>3, <2>1 DEF SetFieldRaises
<1>4. CASE GetField
  BY <1>0, <1>1, <1>4, LoadTyped DEF GetField
<1>5. CASE Convert
  <2>1. Typed(held')
    BY <1>0, <1>5, ConvertTyped DEF Convert
  <2> QED
    BY <1>1, <1>5, <2>1 DEF Convert
<1>6. CASE Clear \/ Reread
  <2>1. buffer' \in Contents(field) /\ given' = None /\ field' = field /\ held' = held
    <3>1. Null \in Contents(field)
      BY DEF Contents
    <3> QED
      BY <1>6, <3>1 DEF Clear, Reread
  <2> QED
    BY <1>0, <2>1 DEF Inv, TypeOK
<1>7. ASSUME NEW v \in Inputs, Make(v)
      PROVE  Inv'
  BY <1>1, <1>7, InputsTyped DEF Make
<1>8. CASE UNCHANGED vars
  BY <1>0, <1>1, <1>8 DEF vars
<1> QED
  BY <1>2, <1>3, <1>4, <1>5, <1>6, <1>7, <1>8 DEF Next

\* Inv holds in every reachable state.
THEOREM Invariance == Spec => []Inv
BY InitKeeps, NextKeeps, PTL DEF Spec

\* No converter (ct_record.c rb_ct_record_set_field) lets anything into the buffer that a
\* field of its kind cannot have, and no value is outside its class.
THEOREM TypesHold == Spec => []TypeOK
<1>1. Inv => TypeOK
  BY DEF Inv
<1> QED
  BY <1>1, Invariance, PTL

\* Of a proper value, once set_field took it, get_field answers what the field can keep
\* (ReadsBack), for any fields, widths, rounding, calendar, clock and strings.
THEOREM ReadsBackAlways == Spec => []ReadsBack
<1>1. Inv => ReadsBack
  BY ProperReadsBack DEF Inv, TypeOK, ReadsBack
<1> QED
  BY <1>1, Invariance, PTL

\* A value read from any field but a number, or a BIGINT past an int, and set again is refused
\* or changes nothing that get_field can tell, where rounding settles.
THEOREM CopiesKeep == Spec => []CopyKeeps
<1>1. Inv => CopyKeeps
  BY CopyChangesNothing DEF Inv, TypeOK, CopyKeeps
<1> QED
  BY <1>1, Invariance, PTL

\* set_field empties a field only where its definition allows null.
THEOREM NullsAllowed == Spec => []NullAllowed
<1>1. Inv => NullAllowed
  <2> SUFFICES ASSUME Inv, given = Nil
               PROVE  field.null /\ Load(field, buffer) = {Nil}
    BY DEF NullAllowed
  <2>1. given # None /\ field \in FieldDefs /\ buffer \in Store(field, Nil)
    BY InputsTyped DEF Inv, TypeOK
  <2> QED
    BY <2>1, NilStored
<1> QED
  BY <1>1, Invariance, PTL

\* What exists comes back from to_ctdb with the same year to second and is the same when it
\* goes there again; the day of a Time, a zone and a fraction of a second do not come back.
THEOREM Conversions == Spec => []ConversionsAgree
<1>1. Inv => ConversionsAgree
  BY ConvertsBack DEF Inv, TypeOK, ConversionsAgree
<1> QED
  BY <1>1, Invariance, PTL
=============================================================================
