---------------------------- MODULE WhereClause ----------------------------
(***************************************************************************)
(* The WHERE clauses of the reader (query_where_internal.cpp): a parser by *)
(* recursive descent over the tokens of the text, the binding of names to  *)
(* fields, and the evaluation on the two forms a row has, the references   *)
(* of a scan and a materialised record.                                    *)
(*                                                                         *)
(* A token is its kind and what it carries: the name of a field, or a      *)
(* literal.  The cutting of the text into tokens is left out, but not its  *)
(* failure: a text with a character of no token gives no tokens at all.    *)
(***************************************************************************)
EXTENDS Integers, Sequences, FiniteSets, FiniteSetsExt, SequencesExt

Token(kind) == [kind |-> kind]
Identifier(name) == [kind |-> "identifier", name |-> name]
Literal(is_string, value) ==
    [kind |-> "literal", is_string |-> is_string, value |-> value]

Operators == {"=", "!=", "<", "<=", ">", ">="}

----------------------------------------------------------------------------
(* Values. Numbers are integers, and NaN is a sort of its own; a text is a *)
(* sequence of code points, and texts compare as their UTF-8 bytes do:     *)
(* code point by code point.                                               *)

NullValue == [sort |-> "null"]
NaN == [sort |-> "nan"]
Number(n) == [sort |-> "number", value |-> n]
Text(t) == [sort |-> "text", value |-> t]

is_numeric_field(type) == type \in {"Int16", "Int32", "Float64", "ObjectId"}
is_string_field(type) == type \in {"String", "UUID"}

\* -1, 0 or 1: how two texts compare.
CompareTexts(left, right) ==
    LET common == Min({Len(left), Len(right)})
        differ == {i \in 1 .. common : left[i] # right[i]}
    IN  IF differ # {}
        THEN IF left[Min(differ)] < right[Min(differ)] THEN -1 ELSE 1
        ELSE CASE Len(left) < Len(right) -> -1
               [] Len(left) = Len(right) -> 0
               [] OTHER -> 1

Holds(comparison, op) ==
    CASE op = "="  -> comparison = 0
      [] op = "!=" -> comparison # 0
      [] op = "<"  -> comparison < 0
      [] op = "<=" -> comparison <= 0
      [] op = ">"  -> comparison > 0
      [] OTHER     -> comparison >= 0

\* A NaN is unlike every number, and neither less nor greater.
compare_numeric(left, right, op) ==
    IF left.sort = "nan" THEN op = "!=" ELSE Holds(left.value - right, op)

compare_string(left, right, op) == Holds(CompareTexts(left.value, right), op)

----------------------------------------------------------------------------
(* The parser. A result is the expression and the place after it; place 0  *)
(* says that there is none.                                                *)

NoParse == [expr |-> [kind |-> "none"], next |-> 0]
Parsed(expr, next) == [expr |-> expr, next |-> next]

\* An expression has the expressions inside it at hand.
ExpressionsIn(expr) == {expr} \union expr.within

Comparison(name, op, literal) ==
    [kind |-> "comparison", name |-> name, op |-> op, literal |-> literal,
     within |-> {}]
InList(name, literals) ==
    [kind |-> "in", name |-> name, literals |-> literals, within |-> {}]
Joined(kind, left, right) ==
    [kind |-> kind, left |-> left, right |-> right,
     within |-> ExpressionsIn(left) \union ExpressionsIn(right)]

Is(tokens, i, kind) == tokens[i].kind = kind

\* The end of a list of literals that starts at i, or 0.
literal_list_end(tokens, i) ==
    LET End[k \in 1 .. Len(tokens)] ==
            CASE ~Is(tokens, k, "literal") -> 0
              [] Is(tokens, k, "literal") /\ Is(tokens, k + 1, ",") -> End[k + 2]
              [] OTHER -> IF Is(tokens, k + 1, ")") THEN k + 1 ELSE 0
    IN  End[i]

in_list(tokens, i, close) ==
    IF Is(tokens, i + 2, "(") /\ close # 0
    THEN Parsed(InList(tokens[i].name,
                       [k \in 1 .. (close - i - 2) \div 2 |-> tokens[i + 1 + 2 * k]]),
                close + 1)
    ELSE NoParse

parse_predicate(tokens, i) ==
    CASE ~Is(tokens, i, "identifier") -> NoParse
      [] Is(tokens, i, "identifier") /\ Is(tokens, i + 1, "in") ->
            in_list(tokens, i, literal_list_end(tokens, i + 3))
      [] OTHER ->
            IF tokens[i + 1].kind \in Operators /\ Is(tokens, i + 2, "literal")
            THEN Parsed(Comparison(tokens[i].name, tokens[i + 1].kind, tokens[i + 2]),
                        i + 3)
            ELSE NoParse

closed(tokens, inner) ==
    IF inner.next # 0 /\ Is(tokens, inner.next, ")")
    THEN [inner EXCEPT !.next = @ + 1] ELSE NoParse

\* or[i] is what parse_or finds behind a bracket.
parse_primary(tokens, i, or) ==
    IF Is(tokens, i, "(") THEN closed(tokens, or[i + 1]) ELSE parse_predicate(tokens, i)

join(kind, left, right) ==
    IF right.next = 0 THEN NoParse
    ELSE Parsed(Joined(kind, left.expr, right.expr), right.next)

\* Takes one more operand of a keyword, to the left, if there is one.
more_and(tokens, left, or) ==
    IF left.next # 0 /\ Is(tokens, left.next, "and")
    THEN join("and", left, parse_primary(tokens, left.next + 1, or))
    ELSE left

parse_and(tokens, i, or) ==
    LET And[n \in 0 .. Len(tokens)] ==
            IF n = 0 THEN parse_primary(tokens, i, or)
            ELSE more_and(tokens, And[n - 1], or)
    IN  And[Len(tokens)]

more_or(tokens, left, or) ==
    IF left.next # 0 /\ Is(tokens, left.next, "or")
    THEN join("or", left, parse_and(tokens, left.next + 1, or))
    ELSE left

parse_or(tokens, i, or) ==
    LET Or[n \in 0 .. Len(tokens)] ==
            IF n = 0 THEN parse_and(tokens, i, or)
            ELSE more_or(tokens, Or[n - 1], or)
    IN  Or[Len(tokens)]

whole_text(tokens, all) ==
    IF all.next # 0 /\ Is(tokens, all.next, "end") THEN all ELSE NoParse

\* The whole text is one expression. The tokens end with "end"; there are not
\* more brackets inside one another than tokens.
parse_where(tokens) ==
    LET Deep[n \in 0 .. Len(tokens)] ==
            [i \in 1 .. Len(tokens) |->
                IF n = 0 THEN NoParse ELSE parse_or(tokens, i, Deep[n - 1])]
    IN  whole_text(tokens, Deep[Len(tokens)][1])

----------------------------------------------------------------------------
(* Binding. Names are compared without regard to case: here they are the   *)
(* lower-case names, and a field may share its name with a later one.      *)

FieldIndex(fields, name) ==
    LET named == {i \in DOMAIN fields : fields[i].name = name}
    IN  IF named = {} THEN 0 ELSE Min(named)

NamesOf(expr) == {part.name : part \in {e \in ExpressionsIn(expr) : e.kind \notin {"and", "or"}}}

bind_fields(expr, fields) ==
    \A name \in NamesOf(expr) : FieldIndex(fields, name) # 0

\* A comparison that stands alone, of a field with a literal of its sort.
indexable_predicate(expr, fields) ==
    LET type == fields[FieldIndex(fields, expr.name)].type
    IN  /\ expr.kind = "comparison"
        /\ IF expr.literal.is_string THEN is_string_field(type)
           ELSE is_numeric_field(type)

\* tokens is empty when the text could not be cut into tokens.
BoundClause(tokens, parsed, fields) ==
    LET valid == tokens # <<>> /\ parsed.next # 0 /\ bind_fields(parsed.expr, fields)
    IN  [valid |-> valid,
         root |-> IF valid THEN parsed.expr ELSE NoParse.expr,
         indexable |-> valid /\ indexable_predicate(parsed.expr, fields)]

compile_where(tokens, fields) == BoundClause(tokens, parse_where(tokens), fields)

----------------------------------------------------------------------------
(* Evaluation. A value of a row is null, a number or a text. The reference *)
(* of a scan still has the type of its field and, for a UUID, its 16 raw   *)
(* bytes; a record has the text that they are formatted to.                *)

Uuid(raw, text) == [sort |-> "uuid", raw |-> raw, value |-> text]

AsRef(type, value) ==
    IF value.sort = "uuid" THEN [type |-> type, value |-> Text(value.raw)]
    ELSE [type |-> type, value |-> value]

AsRecord(value) ==
    IF value.sort = "uuid" THEN Text(value.value) ELSE value

IsNumber(value) == value.sort \in {"number", "nan"}
RefAsNumber(ref) == is_numeric_field(ref.type) /\ IsNumber(ref.value)
RefAsString(ref) == is_string_field(ref.type) /\ ref.value.sort = "text"

evaluate_literal_ref(ref, literal, op) ==
    CASE ref.value.sort = "null" -> op = "!="
      [] ref.value.sort # "null" /\ literal.is_string ->
            RefAsString(ref) /\ compare_string(ref.value, literal.value, op)
      [] OTHER ->
            RefAsNumber(ref) /\ compare_numeric(ref.value, literal.value, op)

evaluate_literal_value(value, literal, op) ==
    CASE value.sort = "null" -> op = "!="
      [] value.sort # "null" /\ literal.is_string ->
            value.sort = "text" /\ compare_string(value, literal.value, op)
      [] OTHER ->
            IsNumber(value) /\ compare_numeric(value, literal.value, op)

evaluate_refs(expr, refs, fields) ==
    LET Ref(e) == refs[FieldIndex(fields, e.name)]
        Accepts[e \in ExpressionsIn(expr)] ==
            CASE e.kind = "and" -> Accepts[e.left] /\ Accepts[e.right]
              [] e.kind = "or" -> Accepts[e.left] \/ Accepts[e.right]
              [] e.kind = "comparison" -> evaluate_literal_ref(Ref(e), e.literal, e.op)
              [] OTHER -> \E k \in DOMAIN e.literals :
                            evaluate_literal_ref(Ref(e), e.literals[k], "=")
    IN  Accepts[expr]

evaluate_record(expr, values, fields) ==
    LET Value(e) == values[FieldIndex(fields, e.name)]
        Accepts[e \in ExpressionsIn(expr)] ==
            CASE e.kind = "and" -> Accepts[e.left] /\ Accepts[e.right]
              [] e.kind = "or" -> Accepts[e.left] \/ Accepts[e.right]
              [] e.kind = "comparison" -> evaluate_literal_value(Value(e), e.literal, e.op)
              [] OTHER -> \E k \in DOMAIN e.literals :
                            evaluate_literal_value(Value(e), e.literals[k], "=")
    IN  Accepts[expr]

\* The values of both fields of a row, as a scan and as a record give them.
RefsOf(row, fields) == [i \in DOMAIN fields |-> AsRef(fields[i].type, row[i])]
RecordOf(row, fields) == [i \in DOMAIN fields |-> AsRecord(row[i])]

----------------------------------------------------------------------------
(* The FIDs of both of two ascending lists, each once. *)
intersect_sorted_fids(left, right) ==
    LET After(list, i) ==
            Min({k \in i + 1 .. Len(list) + 1 : k > Len(list) \/ list[k] # list[i]})
        From[i \in 1 .. Len(left) + 1, j \in 1 .. Len(right) + 1] ==
            IF i > Len(left) \/ j > Len(right) THEN <<>>
            ELSE IF left[i] < right[j] THEN From[After(left, i), j]
            ELSE IF left[i] > right[j] THEN From[i, After(right, j)]
            ELSE <<left[i]>> \o From[After(left, i), After(right, j)]
    IN  From[1, 1]
=============================================================================
