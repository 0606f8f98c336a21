------------------------------ MODULE Filters ------------------------------
(***************************************************************************)
(* The filters of a search, a list or a reset (src/core/src/filter.rs):    *)
(* how an expression is evaluated on the payload of a record, how it is    *)
(* read from JSON, and how the command line client writes it to JSON again *)
(* before it sends it to a server (src/cli/src/main.rs).                   *)
(*                                                                         *)
(* Texts are members of a small ordered set; a text may be a number.  A    *)
(* JSON object is the sequence of its entries, since the order of its keys *)
(* decides the order of the clauses.                                       *)
(***************************************************************************)
EXTENDS Integers, Sequences, FiniteSets

\* The texts, in the order of their bytes, and the numbers some of them are.
Texts == <<"10", "7", "Abc", "abc", "abcd", "true">>
Rank(s) == CHOOSE i \in DOMAIN Texts : Texts[i] = s
Numerals == [s \in {"10", "7"} |-> IF s = "10" THEN 10 ELSE 7]
Lower(s) == IF s = "Abc" THEN "abc" ELSE s
PartOf(needle, s) == needle = s \/ (needle = "abc" /\ s = "abcd")

\* A filter value: a text, a number or a boolean.
Str(s) == [type |-> "string", held |-> s]
Num(n) == [type |-> "number", held |-> n]
Bool(b) == [type |-> "bool", held |-> b]

display_string(value) ==
    CASE value.type = "string" -> value.held
      [] value.type = "number" -> CHOOSE s \in DOMAIN Numerals : Numerals[s] = value.held
      [] value.type = "bool"   -> IF value.held THEN "true" ELSE "false"

ComparesAsNumber(value, text) == value.type = "number" /\ text \in DOMAIN Numerals

values_equal(value, text) ==
    IF ComparesAsNumber(value, text)
    THEN Numerals[text] = value.held
    ELSE display_string(value) = text

\* Negative, zero or positive: how the payload compares with the value.
numeric_order(value, text) ==
    IF ComparesAsNumber(value, text)
    THEN Numerals[text] - value.held
    ELSE Rank(text) - Rank(display_string(value))

Field(f, op, arg) == [kind |-> "Field", field |-> f, op |-> op, arg |-> arg]
And(es) == [kind |-> "And", args |-> es]
Or(es) == [kind |-> "Or", args |-> es]
Not(e) == [kind |-> "Not", arg |-> e]
Err == [kind |-> "Err"]

\* What an operator says of the text of a field that is there.
Holds(op, arg, text) ==
    CASE op = "eq"  -> values_equal(arg, text)
      [] op = "ne"  -> ~values_equal(arg, text)
      [] op = "in"  -> \E i \in DOMAIN arg : values_equal(arg[i], text)
      [] op = "nin" -> \A i \in DOMAIN arg : ~values_equal(arg[i], text)
      [] op = "gt"  -> numeric_order(arg, text) > 0
      [] op = "gte" -> numeric_order(arg, text) >= 0
      [] op = "lt"  -> numeric_order(arg, text) < 0
      [] op = "lte" -> numeric_order(arg, text) =< 0
      [] op = "contains"  -> PartOf(arg.held, text)
      [] op = "icontains" -> PartOf(Lower(arg.held), Lower(text))

\* A missing field satisfies the wildcard and nothing else, not even "ne".
evaluate_op(e, payload) ==
    e.op = "wildcard" \/ (e.field \in DOMAIN payload /\ Holds(e.op, e.arg, payload[e.field]))

RECURSIVE evaluate(_, _)
evaluate(e, payload) ==
    CASE e.kind = "Field" -> evaluate_op(e, payload)
      [] e.kind = "And"   -> \A i \in DOMAIN e.args : evaluate(e.args[i], payload)
      [] e.kind = "Or"    -> \E i \in DOMAIN e.args : evaluate(e.args[i], payload)
      [] e.kind = "Not"   -> ~evaluate(e.arg, payload)

-----------------------------------------------------------------------------
(* JSON values: texts, numbers and booleans as above, arrays and objects.  *)
Arr(items) == [type |-> "array", items |-> items]
Obj(entries) == [type |-> "object", entries |-> entries]
Scalar(j) == j.type \in {"string", "number", "bool"}
Listed == {"in", "nin"}
Worded == {"contains", "icontains"}
Ordered == {"eq", "ne", "gt", "gte", "lt", "lte"}

\* One entry of a condition {"gt": 7, ...} on a field.
ParseOp(f, entry) ==
    LET op == entry[1]
        j  == entry[2]
    IN  IF \/ op \in Ordered /\ Scalar(j)
           \/ op \in Worded /\ j.type = "string"
        THEN Field(f, op, j)
        ELSE IF op \in Listed /\ j.type = "array" /\ \A i \in DOMAIN j.items : Scalar(j.items[i])
             THEN Field(f, op, j.items)
             ELSE Err

\* The clauses a condition on a field gives: one per operator of an object.
parse_field_condition(f, j) ==
    CASE j.type = "object" -> [i \in DOMAIN j.entries |-> ParseOp(f, j.entries[i])]
      [] j = Str("*")      -> <<Field(f, "wildcard", Str("*"))>>
      [] OTHER             -> <<IF Scalar(j) THEN Field(f, "eq", j) ELSE Err>>

RECURSIVE HasErr(_)
HasErr(e) ==
    CASE e.kind = "Err" -> TRUE
      [] e.kind = "Field" -> FALSE
      [] e.kind = "Not" -> HasErr(e.arg)
      [] OTHER -> \E i \in DOMAIN e.args : HasErr(e.args[i])

\* A single clause stands for itself, several for their conjunction.
Unwrapped(clauses) == IF Len(clauses) = 1 THEN clauses[1] ELSE And(clauses)

RECURSIVE ParseObject(_), ParseEntries(_)
ParseList(j) ==
    IF j.type = "array" THEN [i \in DOMAIN j.items |-> ParseObject(j.items[i])] ELSE <<Err>>
ParseEntries(entries) ==
    IF entries = <<>> THEN <<>>
    ELSE LET key == entries[1][1]
             j   == entries[1][2]
         IN  (CASE key = "AND" -> <<And(ParseList(j))>>
                [] key = "OR"  -> <<Or(ParseList(j))>>
                [] key = "NOT" -> <<Not(And(ParseList(j)))>>
                [] OTHER       -> parse_field_condition(key, j)) \o ParseEntries(Tail(entries))
ParseObject(j) ==
    IF j.type = "object" THEN Unwrapped(ParseEntries(j.entries)) ELSE Err

parse_filter_expr(j) == LET e == ParseObject(j) IN IF HasErr(e) THEN Err ELSE e

-----------------------------------------------------------------------------
filter_op_to_json(e) ==
    CASE e.op = "wildcard" -> Str("*")
      [] e.op \in Listed   -> Obj(<<<<e.op, Arr(e.arg)>>>>)
      [] OTHER             -> Obj(<<<<e.op, e.arg>>>>)

RECURSIVE filter_expr_to_json(_)
ClausesToJson(es) == Arr([i \in DOMAIN es |-> filter_expr_to_json(es[i])])
\* The negated clauses written side by side under an OR: a plausible slip.
NotToJsonAny(inner) ==
    <<"NOT", IF inner.kind = "And"
             THEN Arr(<<Obj(<<<<"OR", ClausesToJson(inner.args)>>>>)>>)
             ELSE Arr(<<filter_expr_to_json(inner)>>)>>

NotToJson(inner) ==
    <<"NOT", IF inner.kind = "And" THEN ClausesToJson(inner.args) ELSE Arr(<<filter_expr_to_json(inner)>>)>>
filter_expr_to_json(e) ==
    Obj(<<CASE e.kind = "Field" -> <<e.field, filter_op_to_json(e)>>
            [] e.kind = "And"   -> <<"AND", ClausesToJson(e.args)>>
            [] e.kind = "Or"    -> <<"OR", ClausesToJson(e.args)>>
            [] e.kind = "Not"   -> NotToJson(e.arg)>>)

-----------------------------------------------------------------------------
(* The inputs: every condition on two fields, alone, joined and negated.   *)
Values == {Str("7"), Str("abc"), Num(7), Num(10), Bool(TRUE)}
Conditions ==
       {Str("*")} \cup Values \cup {Obj(<<>>)}
  \cup {Obj(<<<<op, v>>>>) : op \in Ordered, v \in Values}
  \cup {Obj(<<<<op, Arr(<<v, w>>)>>>>) : op \in Listed, v \in Values, w \in {Num(7), Str("Abc")}}
  \cup {Obj(<<<<op, Str(s)>>>>) : op \in Worded, s \in {"abc", "Abc"}}
  \cup {Obj(<<<<"gt", v>>, <<"lte", w>>>>) : v, w \in Values}
  \cup {Obj(<<<<"gt", Arr(<<>>)>>>>), Obj(<<<<"like", Str("7")>>>>), Obj(<<<<"in", Str("7")>>>>)}

Simple == {Obj(<<<<"a", c>>>>) : c \in Conditions}
Joined == {Obj(<<<<"a", c>>, <<"b", Str("abc")>>>>) : c \in Conditions}
Few == {Obj(<<>>), Obj(<<<<"a", Str("7")>>>>), Obj(<<<<"b", Obj(<<<<"gt", Num(7)>>>>)>>>>),
        Obj(<<<<"a", Obj(<<<<"gt", Num(7)>>, <<"lt", Str("true")>>>>)>>, <<"b", Str("*")>>>>)}
Groups(docs) ==
    {Obj(<<<<key, Arr(items)>>>>) : key \in {"AND", "OR", "NOT"},
                                    items \in {<<>>} \cup {<<d>> : d \in docs} \cup {<<d, c>> : d \in docs, c \in Few}}
Documents ==
    Simple \cup Joined \cup Groups(Simple \cup Joined) \cup Groups(Groups(Few))
    \cup {Obj(<<<<"NOT", Arr(<<d>>)>>, <<"a", Str("abc")>>>>) : d \in Few}

Payloads == UNION {[fs -> {Texts[i] : i \in DOMAIN Texts}] : fs \in SUBSET {"a", "b"}}

\* A filter means the same after the client has read it, written it to JSON
\* and the server has read it again (parse_filter_arg, filter_expr_to_json and
\* the "filters" of a search request).
SurvivesTheWire(doc) ==
    LET read == parse_filter_expr(doc)
        sent == parse_filter_expr(filter_expr_to_json(read))
    IN  read = Err \/ \A p \in Payloads : evaluate(sent, p) = evaluate(read, p)
=============================================================================
