------------------------------ MODULE ReadQuery ------------------------------
(***************************************************************************)
(* What a read or a write of the tools becomes in the two dialects of      *)
(* Creatio: the neutral filter that `filters` is compiled to, the OData    *)
(* expression and the DataService tree it is rendered as, the order of a   *)
(* read, and the typed column values of a write.  Each translation is      *)
(* compared with what the tool's arguments mean.                           *)
(*                                                                         *)
(* A column path is a sequence of names.  Values are texts, dates, GUIDs   *)
(* and Null; numbers and booleans are left out.  A date is a text of ISO   *)
(* 8601 with its offset, which the tools pass like any other text (dates   *)
(* without one are left out).  Conditions, the values of a list and the    *)
(* items of a group are sets: their order and a repetition change no       *)
(* meaning.                                                                *)
(***************************************************************************)
EXTENDS Integers, Sequences

CONSTANTS
  Text,        \* texts that look like nothing else
  DateLike,    \* texts that look like a date: a wall clock, and the offset given with it
  Guid,        \* GUIDs
  Null

\* A text looks like one thing, or like none.
ValueAssumption ==
  /\ DateLike \subseteq [clock : Int, zone : Int]
  /\ Text \cap (DateLike \cup Guid \cup {Null}) = {}
  /\ DateLike \cap (Guid \cup {Null}) = {}
  /\ Null \notin Guid

Value == Text \cup DateLike \cup Guid \cup {Null}

\* The instant a date is of, and the date without its offset.
Instant(date) == [clock |-> date.clock - date.zone, zone |-> 0]
WallClock(date) == [clock |-> date.clock, zone |-> 0]

Name == <<"Name">>            \* a text column
CreatedOn == <<"CreatedOn">>  \* a column of instants
Key == <<"Id">>               \* the primary key
OwnerId == <<"OwnerId">>      \* the foreign key of the lookup Owner
OwnerKey == <<"Owner", "Id">> \* the same value, by way of the lookup
NoField == <<>>

\* The records of the object that is read.
Row == [Id : Guid, Name : Value, Owner : Guid \cup {Null},
        CreatedOn : {Instant(date) : date \in DateLike} \cup {Null}]
ValueAt(row, path) ==
  CASE path = Name -> row.Name
    [] path = CreatedOn -> row.CreatedOn
    [] path = Key -> row.Id
    [] path \in {OwnerId, OwnerKey} -> row.Owner
TypeOf(path) ==
  CASE path = Name -> "Text"
    [] path = CreatedOn -> "DateTime"
    [] path \in {Key, OwnerId, OwnerKey} -> "Guid"

\* A condition of the tool: `value` for a comparison, `in` for a list.
Comparison(field, op, value) == [kind |-> "condition", field |-> field, op |-> op, value |-> value]
In(field, values) == [kind |-> "in", field |-> field, values |-> values]

\* Any comparison of the columns; a lookup is compared with keys.
Condition ==
  [kind : {"condition"}, field : {Name, CreatedOn, Key, OwnerKey, NoField},
   op : {"eq", "ne", "ge", "contains"}, value : Value]
  \cup [kind : {"condition"}, field : {OwnerId}, op : {"eq", "ne"}, value : Guid \cup {Null}]
  \cup [kind : {"in"}, field : {Name, CreatedOn, Key, OwnerKey, NoField}, values : SUBSET Value]
  \cup [kind : {"in"}, field : {OwnerId}, values : SUBSET Guid]

\* What is within a text is left to Creatio: here, a date has the other texts in it.
Sat(op, x, y) ==
  CASE op = "eq" -> x = y
    [] op = "ne" -> x # y
    [] op = "ge" -> x # Null /\ x.clock >= y.clock
    [] op = "contains" -> x = y \/ (x \in DateLike /\ y \in Text)

-----------------------------------------------------------------------------
(* The neutral filter *)

NoNode == [kind |-> "none"]
IsNode(node) == node.kind # "none"
Group(logic, items) == [kind |-> "group", logic |-> logic, items |-> items]

\* toNode: a comparison with nothing is a null check; conditions without a field
\* and empty lists say nothing.
ToNode(c) ==
  CASE c.field = NoField -> NoNode
    [] c.field # NoField /\ c.kind = "in" -> IF c.values = {} THEN NoNode ELSE c
    [] c.field # NoField /\ c.kind = "condition" /\ c.value = Null /\ c.op \in {"eq", "ne"} ->
         [kind |-> "condition", field |-> c.field, value |-> Null,
          op |-> IF c.op = "eq" THEN "isNull" ELSE "isNotNull"]
    [] OTHER -> c

\* group: no group without a condition that says something.
NodeGroup(logic, conditions) ==
  LET items == {node \in {ToNode(c) : c \in conditions} : IsNode(node)}
  IN  IF items = {} THEN NoNode ELSE Group(logic, items)

\* buildFilterNode: one of the two groups, or both.
BuildFilterNode(filters) ==
  LET all == NodeGroup("and", filters.all)
      any == NodeGroup("or", filters.any)
  IN  CASE ~IsNode(any) -> all
        [] IsNode(any) /\ ~IsNode(all) -> any
        [] OTHER -> Group("and", {all, any})

-----------------------------------------------------------------------------
(* The literals.  In either dialect a value goes with the type it is taken   *)
(* to have, for want of the schema by what it looks like.                    *)

\* ODataQueryTranslator._literalFor: a GUID is bare on a path that ends in Id, a date
\* is bare in a comparison (`temporal`), and all the rest is quoted.
Idish == {Key, OwnerId, OwnerKey}
ODataLiteral(path, value, temporal) ==
  [value |-> value,
   type |-> CASE value = Null -> "Null"
              [] value \in Guid /\ path \in Idish -> "Guid"
              [] value \in DateLike /\ temporal -> "DateTime"
              [] OTHER -> "Text"]

\* inferDataValueType.
InferDataValueType(value) ==
  CASE value \in Guid -> "Guid"
    [] value \in DateLike -> "DateTime"
    [] OTHER -> "Text"

\* encodeParameterValue: a date loses its offset.
Encoded(type, value) ==
  [type |-> type,
   value |-> IF type = "DateTime" /\ value \in DateLike THEN WallClock(value) ELSE value]

\* DataServiceFilterTranslator._parameter, which nobody gives the types of a schema.
Parameter(value) == Encoded(InferDataValueType(value), value)

-----------------------------------------------------------------------------
(* The dialects.  A rendered filter compares the value at a path with a       *)
(* literal, checks it for Null, or groups others.                             *)

Compare(path, op, literal) ==
  [kind |-> "compare", path |-> path, op |-> op, literal |-> literal]
NullCheck(path, is) == [kind |-> "null", path |-> path, is |-> is]

\* lookupIdPath.
LookupIdPath(path) == IF path = OwnerId THEN OwnerKey ELSE path
Navigated(path, value) == IF value \in Guid THEN LookupIdPath(path) ELSE path

\* No group of none or one.
Joined(logic, items) ==
  LET rendered == {item \in items : IsNode(item)}
  IN  CASE rendered = {} -> NoNode
        [] \E item \in rendered : rendered = {item} -> CHOOSE item \in rendered : TRUE
        [] OTHER -> Group(logic, rendered)

\* ODataQueryTranslator._condition: a lookup is navigated for eq and ne, and the
\* argument of a string function is no date.
ODataCondition(node) ==
  LET path == IF node.op \in {"eq", "ne"} THEN Navigated(node.field, node.value) ELSE node.field
  IN  CASE node.op = "isNull" -> NullCheck(node.field, TRUE)
        [] node.op = "isNotNull" -> NullCheck(node.field, FALSE)
        [] OTHER -> Compare(path, node.op, ODataLiteral(path, node.value, node.op # "contains"))

\* Mutant: the IsNullFilter goes without its flag, which the platform takes for TRUE.
NullUnflagged(node) == NullCheck(node.field, TRUE)

\* DataServiceFilterTranslator._condition: the flag of an IsNullFilter.
DataServiceNull(node) == NullCheck(node.field, node.op = "isNull")

\* DataServiceFilterTranslator._compare: a lookup is navigated for any operator.
DataServiceCondition(node) ==
  IF node.op \in {"isNull", "isNotNull"} THEN DataServiceNull(node)
  ELSE Compare(Navigated(node.field, node.value), node.op, Parameter(node.value))

\* _inCondition, _in: a list becomes the disjunction of its equalities.
EqualTo(backend, path, value) ==
  Compare(path, "eq", IF backend = "odata" THEN ODataLiteral(path, value, TRUE) ELSE Parameter(value))
RenderedIn(backend, node) ==
  Joined("or", {EqualTo(backend, Navigated(node.field, value), value) : value \in node.values})

\* _node.  buildFilterNode nests a group in a group and no deeper, so the recursion
\* of the translators is a level for conditions and two for groups.
RenderedCondition(backend, node) ==
  CASE node.kind = "none" -> NoNode
    [] node.kind = "in" -> RenderedIn(backend, node)
    [] node.kind = "condition" ->
         IF backend = "odata" THEN ODataCondition(node) ELSE DataServiceCondition(node)
RenderedGroup(backend, node) ==
  IF node.kind = "group"
  THEN Joined(node.logic, {RenderedCondition(backend, item) : item \in node.items})
  ELSE RenderedCondition(backend, node)
Rendered(backend, node) ==
  IF node.kind = "group"
  THEN Joined(node.logic, {RenderedGroup(backend, item) : item \in node.items})
  ELSE RenderedGroup(backend, node)

\* _resolveFilter: the raw filter of an OData read is a conjunct.  Raw stands for its
\* text, which selects the records named Null.
Raw == NullCheck(Name, TRUE)
ODataFilter(filters, raw) ==
  Joined("and", {IF raw THEN Raw ELSE NoNode, Rendered("odata", BuildFilterNode(filters))})
DataServiceFilter(filters) == Rendered("dataservice", BuildFilterNode(filters))

\* DataServiceCrudProvider._byIdFilter, of update and delete.
ByIdFilter(id) == DataServiceCondition(Comparison(Key, "eq", id))

-----------------------------------------------------------------------------
(* The order of a read *)

\* _orderMap: where a column comes in the order, the last place given.
OrderPosition(field, order) ==
  CHOOSE i \in DOMAIN order : order[i].field = field /\ \A j \in DOMAIN order : order[j].field = field => j <= i

\* buildSelectQuery: a column that is selected carries its place in the order; a
\* term for another column is left out.
NoHint == [pos |-> 0, dir |-> "none"]
OrderHints(columns, order) ==
  [column \in columns |->
     IF \E i \in DOMAIN order : order[i].field = column
     THEN [pos |-> OrderPosition(column, order), dir |-> order[OrderPosition(column, order)].dir]
     ELSE NoHint]

-----------------------------------------------------------------------------
(* The values of a write over DataService *)

\* makeTypeResolver, with toParameterDataValueType.
ParameterType(types, column, value) ==
  CASE column \notin DOMAIN types -> InferDataValueType(value)
    [] column \in DOMAIN types /\ types[column] = "Lookup" /\ value \in Guid -> "Guid"
    [] column \in DOMAIN types /\ types[column] = "MediumText" -> "Text"
    [] OTHER -> types[column]

\* _columnValues: the foreign key is written by its lookup, if the schema has that.
ColumnOf(types, key) == IF key = "OwnerId" /\ key \notin DOMAIN types /\ "Owner" \in DOMAIN types
                        THEN "Owner" ELSE key

\* Data is a sequence of [key, value], no key twice; a later key replaces an earlier
\* one of the same column.
ColumnValues(types, data) ==
  [column \in {ColumnOf(types, data[i].key) : i \in DOMAIN data} |->
     LET last == CHOOSE i \in DOMAIN data :
                   /\ ColumnOf(types, data[i].key) = column
                   /\ \A j \in DOMAIN data : ColumnOf(types, data[j].key) = column => j <= i
     IN  Encoded(ParameterType(types, column, data[last].value), data[last].value)]

-----------------------------------------------------------------------------
(* What it all means *)

\* What the tools pass: a filter, a key, an order, or the columns of a record with
\* the types of their schema, if that could be read.
Schema == [Name |-> "MediumText", Owner |-> "Lookup", CreatedOn |-> "DateTime"]
Term == [field : {Name, OwnerId, Key}, dir : {"asc", "desc"}]
Entry == [key : {"Name"}, value : Value]
         \cup [key : {"OwnerId", "Owner"}, value : Guid \cup {Null}]
         \cup [key : {"CreatedOn"}, value : DateLike \cup {Null}]
Query ==
  [kind : {"filter"}, raw : BOOLEAN, filters : [all : SUBSET Condition, any : SUBSET Condition]]
  \cup [kind : {"id"}, id : Guid]
  \cup [kind : {"order"}, columns : SUBSET {Name, OwnerId, Key}, order : Seq(Term)]
  \cup [kind : {"write"}, types : {<<>>, Schema}, data : Seq(Entry)]

\* What Creatio reads in a literal: a date without an offset, as DataService has them,
\* is one in UTC for a user whose profile is, which is what encodeParameterValue expects.
Read(literal) ==
  IF literal.type = "DateTime" /\ literal.value # Null THEN Instant(literal.value) ELSE literal.value

\* The records a rendered filter selects, by how deep its groups are nested: a list,
\* in `all` or `any`, in both of them, with a raw filter beside.  A comparison with a
\* literal of another type than the column's is refused, or misread: it selects none.
SelectsAlone(filter, row) ==
  CASE filter.kind = "none" -> TRUE
    [] filter.kind = "compare" -> /\ filter.literal.type = TypeOf(filter.path)
                                  /\ Sat(filter.op, ValueAt(row, filter.path), Read(filter.literal))
    [] filter.kind = "null" -> (ValueAt(row, filter.path) = Null) = filter.is
Within(Item(_, _), filter, row) ==
  CASE filter.kind # "group" -> SelectsAlone(filter, row)
    [] filter.kind = "group" /\ filter.logic = "and" -> \A item \in filter.items : Item(item, row)
    [] filter.kind = "group" /\ filter.logic = "or" -> \E item \in filter.items : Item(item, row)
SelectsList(filter, row) == Within(SelectsAlone, filter, row)
SelectsOne(filter, row) == Within(SelectsList, filter, row)
SelectsBoth(filter, row) == Within(SelectsOne, filter, row)
Selects(filter, row) == Within(SelectsBoth, filter, row)

\* No comparison of a foreign key by its own column, which Creatio refuses.
NavigatedAlone(filter) ==
  filter.kind \in {"none", "null"} \/ (filter.kind = "compare" /\ filter.path # OwnerId)
Throughout(Item(_), filter) ==
  IF filter.kind = "group" THEN \A item \in filter.items : Item(item) ELSE NavigatedAlone(filter)
NavigatedList(filter) == Throughout(NavigatedAlone, filter)
NavigatedOne(filter) == Throughout(NavigatedList, filter)
NavigatedBoth(filter) == Throughout(NavigatedOne, filter)
ByLookup(filter) == Throughout(NavigatedBoth, filter)

\* A condition that says something, and what it says of a record.
Says(c) == c.field # NoField /\ (c.kind = "in" => c.values # {})
Wanted(value) == IF value \in DateLike THEN Instant(value) ELSE value
True(c, row) ==
  IF c.kind = "in" THEN ValueAt(row, c.field) \in {Wanted(value) : value \in c.values}
  ELSE Sat(c.op, ValueAt(row, c.field), Wanted(c.value))

\* The conditions the translators are made for: a column is compared with values that
\* look like its own - a text column with no text that looks like a date or a GUID -
\* and a date is given in UTC, as the tools' prompts have it; Null is compared for being
\* it or not.
Fits(path, value) ==
  CASE path = Name -> value \in Text
    [] path = CreatedOn -> value \in DateLike /\ value.zone = 0
    [] path \in Idish -> value \in Guid
Fitting(c) ==
  CASE ~Says(c) -> TRUE
    [] Says(c) /\ c.kind = "in" -> \A value \in c.values : Fits(c.field, value)
    [] Says(c) /\ c.kind = "condition" ->
         \/ c.value = Null /\ c.op \in {"eq", "ne"}
         \/ /\ Fits(c.field, c.value)
            /\ c.op = "contains" => c.field = Name
            /\ c.op = "ge" => c.field = CreatedOn

\* Every condition of `all`, and one of `any` if there are any.
Asked(filters, row) ==
  /\ \A c \in filters.all : Says(c) => True(c, row)
  /\ (\E c \in filters.any : Says(c)) => \E c \in filters.any : Says(c) /\ True(c, row)

\* No filter of either dialect names a lookup by its own column; and if its conditions
\* fit, it selects what was asked for.
FilterMeans(filters, raw) ==
  LET odata == ODataFilter(filters, raw)
      dataservice == DataServiceFilter(filters)
  IN  /\ ByLookup(odata) /\ ByLookup(dataservice)
      /\ (\A c \in filters.all \cup filters.any : Fitting(c)) =>
           \A row \in Row :
             /\ Selects(odata, row) <=> Asked(filters, row) /\ (raw => row.Name = Null)
             /\ Selects(dataservice, row) <=> Asked(filters, row)

\* An update or a delete is of one record.
IdMeans(id) == \A row \in Row : Selects(ByIdFilter(id), row) <=> row.Id = id

\* The order asked for, if its columns are selected and it names none twice: each
\* term is at its place on one column, and no other column has a place.
OrderMeans(columns, order) ==
  LET hints == OrderHints(columns, order)
  IN  (/\ \A i \in DOMAIN order : order[i].field \in columns
       /\ \A i, j \in DOMAIN order : order[i].field = order[j].field => i = j)
        => /\ \A i \in DOMAIN order : hints[order[i].field] = [pos |-> i, dir |-> order[i].dir]
           /\ \A column \in columns :
                hints[column] # NoHint => \E i \in DOMAIN order : order[i].field = column

\* With the schema at hand a value is written with the type of its column, whatever it
\* looks like, and a date in UTC as it is; only a key given twice, by both its names, is
\* written once.
WriteMeans(types, data) ==
  LET values == ColumnValues(types, data)
  IN  types # <<>> =>
        \A i \in DOMAIN data :
          LET column == ColumnOf(types, data[i].key)
              value == data[i].value
          IN  /\ column \in DOMAIN types
              /\ values[column].type =
                   CASE column = "Name" -> "Text"
                     [] column = "CreatedOn" -> "DateTime"
                     [] column = "Owner" -> IF values[column].value \in Guid THEN "Guid" ELSE "Lookup"
              /\ (/\ \A j \in DOMAIN data : ColumnOf(types, data[j].key) = column => j = i
                  /\ column = "CreatedOn" /\ value # Null => value.zone = 0)
                   => values[column].value = value

QueryMeans(query) ==
  CASE query.kind = "filter" -> FilterMeans(query.filters, query.raw)
    [] query.kind = "id" -> IdMeans(query.id)
    [] query.kind = "order" -> OrderMeans(query.columns, query.order)
    [] query.kind = "write" -> WriteMeans(query.types, query.data)
=============================================================================
