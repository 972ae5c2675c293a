----------------------------- MODULE MCExpandedRow -----------------------------
(* ExpandedRow for TLC: texts of up to two levels, and records made of them. *)
EXTENDS ExpandedRow

F(k, v)       == Object(<<Field(k, v)>>)
G(k, v, l, w) == Object(<<Field(k, v), Field(l, w)>>)

\* Values that differ in a leaf, a name, the order, the depth or the length.
Values ==
    <<F("a", Num(1)), F("a", Num(2)), F("a", Num(5)), F("a", Str("1")),
      F("a", Str("{}")), F("a", Object(<< >>)), F("a", Null), F("b", Num(1)),
      G("a", Num(1), "b", Num(2)), G("b", Num(2), "a", Num(1)),
      F("a", F("b", Num(1))), F("a.b", Num(1)), G("a.b", Num(1), "a", F("b", Num(2))),
      F("a", Array(<<Num(1)>>)), F("a", Array(<<Num(1), Num(2)>>)),
      F("a", Array(<<Num(2), Num(1)>>)), Array(<<F("a", Num(1))>>), Array(<< >>),
      Object(<< >>), Num(4), Null, PlainText("broken")>>

KeysTyped == <<NoText, PlainText("k"), PlainText("l"), F("id", Num(1)), F("id", Num(2))>>

\* One record of each value; every other one is in the other topic, at the same place.
RecordOf(i) ==
    [topic |-> IF i % 2 = 0 THEN "A" ELSE "B",
     at    |-> <<0, i \div 2>>,
     key   |-> KeysTyped[1 + ((i \div 2) % Len(KeysTyped))],
     value |-> Values[i]]

AllRecords == {RecordOf(i) : i \in DOMAIN Values}
AllValues  == {Values[i] : i \in DOMAIN Values}
AllKeys    == {KeysTyped[i] : i \in DOMAIN KeysTyped}

\* A text with all that it holds, and how deep it is nested.
RECURSIVE Within(_)
Within(t) == {t} \cup UNION {Within(t.items[i].value) : i \in DOMAIN t.items}

RECURSIVE DepthOf(_)
DepthOf(t) == FoldLeft(LAMBDA d, item : Max({d, 1 + DepthOf(item.value)}), 0, t.items)

\* The last is what becomes of the one number that is not exact.
AllTexts == UNION {Within(t) : t \in AllValues \cup AllKeys \cup {F("a", Num(4))}}
Depths   == [t \in AllTexts |-> DepthOf(t)]


===============================================================================
