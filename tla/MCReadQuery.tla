---------------------------- MODULE MCReadQuery ----------------------------
(***************************************************************************)
(* Small inputs for ReadQuery: filters of up to three conditions, orders of*)
(* up to two terms, records of up to two columns.                          *)
(***************************************************************************)
EXTENDS ReadQuery, TLC

CONSTANTS
  a,      \* a text
  g, h    \* GUIDs

\* A date in UTC, and one that is not.
Utc == [clock |-> 1, zone |-> 0]
Offset == [clock |-> 1, zone |-> 1]

\* The last two do not fit their columns.
SomeConditions ==
  {Comparison(Name, "ne", a), Comparison(Name, "contains", a), Comparison(Name, "eq", Null),
   Comparison(OwnerId, "eq", g), Comparison(OwnerId, "ne", Null), Comparison(OwnerKey, "ne", g),
   In(OwnerId, {}), In(OwnerId, {g, h}), In(CreatedOn, {Utc}), Comparison(CreatedOn, "ge", Utc),
   Comparison(NoField, "eq", a), Comparison(Name, "eq", Utc), Comparison(CreatedOn, "ne", Offset)}
AtMostOne == {{}} \cup {{c} : c \in SomeConditions}
AtMostTwo == {{}} \cup {{b, c} : b, c \in SomeConditions}

AtMostTwoOf(S) == {<<>>} \cup {<<x>> : x \in S} \cup S \X S
Entries == {data \in AtMostTwoOf(Entry) : \A i, j \in DOMAIN data : i # j => data[i].key # data[j].key}

Input ==
  [kind : {"filter"}, raw : BOOLEAN,
   filters : [all : AtMostTwo, any : AtMostOne] \cup [all : AtMostOne, any : AtMostTwo]]
  \cup [kind : {"id"}, id : Guid]
  \cup [kind : {"order"}, columns : SUBSET {Name, OwnerId, Key}, order : AtMostTwoOf(Term)]
  \cup [kind : {"write"}, types : {<<>>, Schema}, data : Entries]
=============================================================================
