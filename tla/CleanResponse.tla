---------------------------- MODULE CleanResponse ----------------------------
(***************************************************************************)
(* tools/cleanResponse.ts: a JSON response made shorter.  An array of      *)
(* objects becomes a table with the keys of its first item as columns, if  *)
(* the first Sample items have the same keys; the items after the sample   *)
(* are not looked at.  maxArrayItems is whatever number the caller gives.  *)
(***************************************************************************)
EXTENDS Integers, Sequences, FiniteSets, SequencesExt

CONSTANTS
    Keys,   \* field names
    Sample  \* items isUniformObjectArray looks at (5)

ASSUME SampleAssumption == Sample \in Nat \ {0}

\* A value below the items: a list of at most three scalars is joined, a longer
\* one and an object are only counted.
Cells == {"text", "piped", "null", "short", "long", "object"}

\* An item of an array.  JSON's null, scalars and arrays have no fields.
NoFields == [k \in {} |-> "null"]
Object(fields) == [kind |-> "object", fields |-> fields]
Scalar == [kind |-> "scalar", fields |-> NoFields]
Null == [kind |-> "null", fields |-> NoFields]
Items == {Scalar, Null} \union {Object(f) : f \in UNION {[ks -> Cells] : ks \in SUBSET Keys}}
KeysOf(item) == DOMAIN item.fields

\* JavaScript's slice(0, m).
Slice(s, m) ==
    IF m >= 0 THEN SubSeq(s, 1, IF m < Len(s) THEN m ELSE Len(s))
    ELSE SubSeq(s, 1, IF Len(s) + m > 0 THEN Len(s) + m ELSE 0)

\* "|" in a text gives way to another bar.
primitiveToString(cell) ==
    CASE cell = "null" -> "" [] cell = "piped" -> "barred"
      [] cell = "long" -> "[n items]" [] cell = "object" -> "{n fields}"
      [] OTHER -> cell

\* Mutant of isUniformObjectArray: the loop stops one short of the sample.
isUniformButLast(items) ==
    /\ items # <<>> /\ items[1].kind = "object"
    /\ \A i \in 2..Len(items) : i < Sample =>
          items[i].kind = "object" /\ KeysOf(items[i]) = KeysOf(items[1])

isUniformObjectArray(items) ==
    /\ items # <<>> /\ items[1].kind = "object"
    /\ \A i \in 2..Len(items) : i <= Sample =>
          items[i].kind = "object" /\ KeysOf(items[i]) = KeysOf(items[1])

Throws == [kind |-> "throws", columns |-> {}, rows |-> <<>>, more |-> 0]
toCompact == [Throws EXCEPT !.kind = "compact"]

\* The row of an item; a field it has not is an empty cell.
Row(columns, item) ==
    [k \in columns |->
        IF k \in KeysOf(item) THEN primitiveToString(item.fields[k]) ELSE ""]

\* Without items there is nothing to take the columns from; null has no fields
\* to read.
arrayToToon(items, max) ==
    LET shown == Slice(items, max)
    IN  IF shown = <<>> \/ \E i \in DOMAIN shown : shown[i].kind = "null" THEN Throws
        ELSE [kind |-> "table", columns |-> KeysOf(shown[1]),
              rows |-> [i \in DOMAIN shown |-> Row(KeysOf(shown[1]), shown[i])],
              more |-> IF Len(items) > max THEN Len(items) - max ELSE 0]

toToon(items, max) ==
    IF isUniformObjectArray(items) THEN arrayToToon(items, max) ELSE toCompact

filterFields(item, fields) ==
    [item EXCEPT !.fields = [k \in KeysOf(item) \cap fields |-> item.fields[k]]]

\* The array is cut first: the table no longer knows how long it was.
toWhitelist(items, fields, max) ==
    IF fields = {} THEN toToon(items, max)
    ELSE LET cut == Slice(items, max)
         IN  toToon([i \in DOMAIN cut |-> IF cut[i].kind = "object"
                                          THEN filterFields(cut[i], fields) ELSE cut[i]], max)

\* The array as a field of an object: what is no table is only counted.
toSection(items, max) ==
    IF isUniformObjectArray(items) THEN arrayToToon(items, max)
    ELSE [Throws EXCEPT !.kind = "counted"]

\* data.under: the field of an object the array is in, or TopLevel.
TopLevel == "top level"
handleCleanResponse(format, data, fields, max) ==
    CASE ~data.json -> [Throws EXCEPT !.kind = "passthrough"]
      [] data.json /\ format = "compact" -> toCompact
      [] data.json /\ format # "compact" /\ data.under = TopLevel ->
            toWhitelist(data.items, IF format = "whitelist" THEN fields ELSE {}, max)
      [] data.json /\ format # "compact" /\ data.under # TopLevel ->
            IF format = "whitelist" /\ fields # {} /\ data.under \notin fields
            THEN [Throws EXCEPT !.kind = "dropped"] ELSE toSection(data.items, max)
==============================================================================
