-------------------------------- MODULE JsonDiff --------------------------------
(***************************************************************************)
(* What the diff modal of the console makes of two texts.                  *)
(*                                                                         *)
(* A text is the JSON value that is written in it, or a "plain" text that  *)
(* is not JSON; white space is left out, and the length that a shown value *)
(* is cut to.  The fields of an object are in the order they are written.  *)
(***************************************************************************)
EXTENDS Integers, Sequences, SequencesExt

CONSTANTS
    Precision,   \* integers up to here are exact in a double: 2^53, scaled down
    AwkwardKeys, \* the field names that hold a ".", a "[" or a "$", or are empty
    Texts,       \* the texts in play, with all that they hold
    Depth,       \* Depth[t]: how deep t is nested
    MaxDepth     \* bound: of Depth

ASSUME JsonAssumption ==
    /\ Precision \in Nat /\ Precision > 0 /\ Precision % 4 = 0
    /\ AwkwardKeys \subseteq STRING
    /\ MaxDepth \in Nat

Text(kind, text, num, items) ==
    [kind |-> kind, text |-> text, num |-> num, items |-> items]

PlainText(s) == Text("plain", s, 0, << >>)
Str(s)       == Text("string", s, 0, << >>)
Num(n)       == Text("number", "", n, << >>)
Null         == Text("null", "null", 0, << >>)

\* items: what an object or an array holds, with the field's name or the index.
Object(items) == Text("object", "", 0, items)
Field(k, v)   == [key |-> k, value |-> v]
Array(values) ==
    Text("array", "", 0, [i \in DOMAIN values |-> Field(ToString(i - 1), values[i])])

\* A text holds texts of less depth; its numbers are those that Double is for.
ASSUME TextAssumption ==
    /\ Texts \subseteq [kind : {"plain", "string", "number", "null", "object", "array"},
                        text : STRING, num : 0..(2 * Precision),
                        items : Seq([key : STRING, value : Texts])]
    /\ Depth \in [Texts -> 0..MaxDepth]
    /\ \A t \in Texts : \A i \in 1..Len(t.items) : Depth[t.items[i].value] < Depth[t]

IsJson(t)    == t.kind # "plain"
Holds(v)     == v.kind \in {"object", "array"}

\* The double nearest to an integer below 2 * Precision; an odd one beyond Precision
\* is between two doubles, and becomes the one that is a multiple of four.  Numbers too
\* large for a double are left out: they are parsed to Infinity and written as null.
Double(n) ==
    IF n <= Precision \/ n % 2 = 0 THEN n
    ELSE IF n % 4 = 1 THEN n - 1 ELSE n + 1

\* JSON.parse; JSON.stringify writes its result.
Parse[v \in Texts] ==
    Text(v.kind, v.text, Double(v.num),
         [i \in DOMAIN v.items |-> Field(v.items[i].key, Parse[v.items[i].value])])

\* What was parsed can be written and parsed again.
ASSUME ParsedAssumption == \A t \in Texts : Parse[t] \in Texts

\* Slip: a string and a number may look the same.
FormatUnquoted(v) ==
    CASE v.kind = "number" -> ToString(v.num)
      [] OTHER             -> v.text

\* formatValue.
FormatValue(v) ==
    CASE v.kind = "string" -> "\"" \o v.text \o "\""
      [] v.kind = "number" -> ToString(v.num)
      [] OTHER             -> v.text

PathIn(v, prefix, key) ==
    IF v.kind = "array" THEN prefix \o "[" \o key \o "]"
    ELSE IF prefix = "" THEN key ELSE prefix \o "." \o key

\* flatten: the path of every leaf with its formatted value.  An empty object or array
\* becomes the string "{}" or "[]"; of two leaves with the same path the later stays.
Flatten[v \in Texts, prefix \in STRING] ==
    IF ~Holds(v) THEN (IF prefix = "" THEN "$" ELSE prefix) :> FormatValue(v)
    ELSE IF v.items = << >>
    THEN prefix :> FormatValue(Str(IF v.kind = "array" THEN "[]" ELSE "{}"))
    ELSE FoldLeft(LAMBDA rows, item : Flatten[item.value, PathIn(v, prefix, item.key)] @@ rows,
                  << >>, v.items)

\* Slip: the paths are compared, and what is there not.
DiffOfPaths(original, edited) ==
    LET was == Flatten[Parse[original], ""]
        now == Flatten[Parse[edited], ""]
    IN  [changed |-> DOMAIN was \cap DOMAIN now,
         added   |-> DOMAIN now \ DOMAIN was,
         removed |-> DOMAIN was \ DOMAIN now]

\* computeDiff, of two texts that parse.
Diff(original, edited) ==
    LET was == Flatten[Parse[original], ""]
        now == Flatten[Parse[edited], ""]
        both == DOMAIN was \cap DOMAIN now
    IN  [changed |-> {p \in both : was[p] # now[p]},
         added   |-> DOMAIN now \ both,
         removed |-> DOMAIN was \ both]

\* The rows of the tables in the modal, by section.
Rows(diff) ==
    UNION {{<<s, p>> : p \in diff[s]} : s \in {"changed", "added", "removed"}}

------------------------------------------------------------------------------
(* What it is compared with. *)

\* The same JSON value: the order of the fields does not matter.
Same[v \in Texts, w \in Texts] ==
    /\ v.kind = w.kind /\ v.text = w.text /\ v.num = w.num
    /\ Len(v.items) = Len(w.items)
    /\ \A i \in DOMAIN v.items : \E j \in DOMAIN w.items :
          /\ v.items[i].key = w.items[j].key
          /\ Same[v.items[i].value, w.items[j].value]

\* A value that flatten can write without loss: its numbers are exact, its field names
\* cannot be taken for paths, and no string looks like an empty object or array.
Tidy[v \in Texts] ==
    /\ v.num = Double(v.num)
    /\ v.kind = "string" => v.text \notin {"{}", "[]"}
    /\ \A i \in DOMAIN v.items :
          /\ v.kind = "object" => v.items[i].key \notin AwkwardKeys
          /\ Tidy[v.items[i].value]

===============================================================================
