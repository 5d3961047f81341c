----------------------------- MODULE Conditions -----------------------------
(* How a where.Condition becomes the WHERE clause of a statement on each
   backend, and which rows the database then returns.

   A WHERE clause is kept as what its text means to SQL: a sequence of
   alternatives separated by OR, each a sequence of atoms separated by AND,
   because AND binds tighter than OR and only a parenthesis protects a clause
   from its neighbours.  Evaluation is SQL's three-valued logic, with "E" for a
   statement the database rejects.

   A scalar field of a stored document is a string, written as its place in
   the order of strings, or JNull when the JSON holds an explicit null (a nil
   pointer), or Absent when it holds no such key (a nil pointer under
   omitempty).  The array field tags is the set of its elements, strings and
   numbers, and the map field attrs the set of its keys, whose values are
   scalars; either may be {JNull} or {Absent}.  Field x has the fts tag: a
   search term matches the documents whose x it is.  The text operators
   (RegExp, StartsWith, EndsWith, StringContains) are not modelled.         *)
EXTENDS Integers, Sequences, SequencesExt

JNull   == 0
Absent  == -1
SqlNull == -1

(* The strings: the empty one, the least of all; names of letters, digits and
   underscores; Dashed(s) with a character that is none of these in a name s;
   Dotted, a name that a dot divides.                                       *)
Empty     == 1
Names     == 2..19
Dashed(s) == 20 + s
Dotted    == 40
Strings   == 1..40

(* The JSON number that is written like the string s.                       *)
Number(s) == 100 + s

(* A parameter cast to text: a number turns into the string it is written as
   (a driver that refuses to bind a number as text fails the call instead).
   The cast of SQL NULL is NULL.                                            *)
Text(v) == IF v = JNull THEN SqlNull ELSE IF v > 100 THEN v - 100 ELSE v

(* What sanitizeFieldName leaves of a key, read as the end of a JSON path: a
   dot leads below a key of the map, where a scalar has nothing.  An operand
   that is no string counts as the empty key.                               *)
Nowhere == 41
sanitizeFieldName(key) ==
    CASE key \in Names  -> key
      [] key = Dotted   -> Nowhere
      [] key \in {Dashed(s) : s \in Names} -> key - 20
      [] OTHER          -> Empty

(***************************************************************************)
(* The condition trees of package where                                    *)
(***************************************************************************)

(* Field(f).Op(vals...).  NoRef in ref means that vals holds the operands. *)
NoRef == ""
FieldCond(f, op, vals) ==
    [kind |-> "field", field |-> f, op |-> op, ref |-> NoRef, vals |-> vals, subs |-> <<>>]

(* Field(f).Op(FieldRef(g)).                                                *)
FieldRefCond(f, op, g) == [FieldCond(f, op, <<>>) EXCEPT !.ref = g]

And(cs) == [FieldCond("", "", <<>>) EXCEPT !.kind = "and", !.subs = cs]
Or(cs)  == [FieldCond("", "", <<>>) EXCEPT !.kind = "or",  !.subs = cs]
Not(c)  == [FieldCond("", "", <<>>) EXCEPT !.kind = "not", !.subs = <<c>>]

Comparisons == {"Eq", "Ne", "Gt", "Gte", "Lt", "Lte"}

(***************************************************************************)
(* SQL text                                                                *)
(***************************************************************************)

Atom(a)  == << <<a>> >>
Paren(c) == Atom([t |-> "paren", c |-> c])
NotOf(c) == Atom([t |-> "not", c |-> c])

(* Writing " AND " or " OR " between two clauses: without parentheses AND
   takes the last alternative of the left text and the first of the right.  *)
AndJoin(a, b) ==
    IF a = <<>> THEN b
    ELSE Front(a) \o << Last(a) \o Head(b) >> \o Tail(b)
OrJoin(a, b)  == a \o b
Join(clauses, sep) ==
    FoldLeft(LAMBDA a, b : IF sep = "and" THEN AndJoin(a, b) ELSE OrJoin(a, b),
             <<>>, clauses)

(* Expressions: a column of the row read the way a backend reads it, a value
   bound in place, or the placeholder $n of PostgreSQL, cast to jsonb or text. *)
Col(how, f)  == [e |-> "col", how |-> how, f |-> f, v |-> 0]
Bound(v)     == [e |-> "val", how |-> "", f |-> "", v |-> v]
Param(n)     == [e |-> "param", how |-> "jsonb", f |-> "", v |-> n]
TextParam(n) == [Param(n) EXCEPT !.how = "text"]

Cmp(op, x, ys)  == Atom([t |-> "cmp", op |-> op, x |-> x, ys |-> ys])
IsNull(x)       == Atom([t |-> "isnull", x |-> x])
IsNotNull(x)    == Atom([t |-> "notnull", x |-> x])
Holds(x, ys)    == Atom([t |-> "holds", x |-> x, ys |-> ys])
Contained(f, y) == Atom([t |-> "contained", f |-> f, y |-> y])
SyntaxError     == Atom([t |-> "syntax"])
IdCmp(op, y)    == Atom([t |-> "id", op |-> op, ys |-> <<y>>])
Match(y)        == Atom([t |-> "match", y |-> y])

(***************************************************************************)
(* SQLite                                                                  *)
(***************************************************************************)

(* A nil operand is bound as SQL NULL; a number passes through.             *)
SQLite_formatBindArg(v) == IF v = JNull THEN SqlNull ELSE v

(* "?" binds by position and the code appends a clause's arguments in the
   order of its clauses, so the value is written where it is bound.         *)
SQLite_Args(vals) == [i \in DOMAIN vals |-> Bound(SQLite_formatBindArg(vals[i]))]

SQLite_fieldRefToSQL(c) ==
    IF c.op \in Comparisons
    THEN Cmp(c.op, Col("json_extract", c.field), <<Col("json_extract", c.ref)>>)
    ELSE <<>>

SQLite_fieldConditionToSQL(c) ==
    LET x  == Col("json_extract", c.field)
        ys == SQLite_Args(c.vals)
    IN  CASE c.ref # NoRef                           -> SQLite_fieldRefToSQL(c)
          [] c.op \in Comparisons \cup {"In", "NotIn"} -> Cmp(c.op, x, ys)
          [] c.op = "IsNil"                            -> IsNull(x)
          [] c.op = "IsNotNil"                         -> IsNotNull(x)
          [] c.op \in {"Contains", "ContainsAny"}      -> Holds(Col("json_each", c.field), ys)
          [] c.op = "ContainsAll" ->
               Join([i \in DOMAIN ys |-> Holds(Col("json_each", c.field), <<ys[i]>>)], "and")
          [] c.op = "HasKey" ->
               Holds(Col("json_type", c.field), <<Bound(sanitizeFieldName(c.vals[1]))>>)
          [] OTHER                                     -> <<>>

RECURSIVE SQLite_conditionToSQL(_)
(* Mutant: And and Or join the texts of their children as they are.         *)
SQLite_logicalBare(logic, cs) ==
    Join(SelectSeq([i \in DOMAIN cs |-> SQLite_conditionToSQL(cs[i])],
                   LAMBDA s : s # <<>>), logic)

(* A child of And, Or or Not that yields no text is left out, and a parent
   left with nothing yields none.                                           *)
SQLite_logicalToSQL(logic, cs) ==
    LET texts == SelectSeq([i \in DOMAIN cs |-> SQLite_conditionToSQL(cs[i])],
                           LAMBDA s : s # <<>>)
    IN  Join([i \in DOMAIN texts |-> Paren(texts[i])], logic)

SQLite_conditionToSQL(c) ==
    CASE c.kind = "field" -> SQLite_fieldConditionToSQL(c)
      [] c.kind = "not"   -> LET inner == SQLite_conditionToSQL(c.subs[1])
                             IN  IF inner = <<>> THEN <<>> ELSE NotOf(inner)
      [] OTHER            -> SQLite_logicalToSQL(c.kind, c.subs)

(* Mutant: top-level conditions are joined without parentheses.             *)
SQLite_whereBare(conds) ==
    SelectSeq([i \in DOMAIN conds |-> SQLite_conditionToSQL(conds[i])], LAMBDA s : s # <<>>)

(* Every top-level condition is put in parentheses of its own.              *)
SQLite_buildWhereClauses(conds) ==
    LET texts == SelectSeq([i \in DOMAIN conds |-> SQLite_conditionToSQL(conds[i])],
                           LAMBDA s : s # <<>>)
    IN  [i \in DOMAIN texts |-> Paren(texts[i])]

(* Mutant: the cursor's own row is on the next page again.                  *)
SQLite_cursorInclusive(clauses, q) ==
    clauses \o (IF q.after  # 0 THEN <<IdCmp("Gte", Bound(q.after))>>  ELSE <<>>)
            \o (IF q.before # 0 THEN <<IdCmp("Lte", Bound(q.before))>> ELSE <<>>)

(* 0 stands for the empty id: no cursor.                                    *)
SQLite_appendCursorClauses(clauses, q) ==
    clauses \o (IF q.after  # 0 THEN <<IdCmp("Gt", Bound(q.after))>>  ELSE <<>>)
            \o (IF q.before # 0 THEN <<IdCmp("Lt", Bound(q.before))>> ELSE <<>>)

SQLite_Where(q) ==
    [sql  |-> Join(SQLite_appendCursorClauses(SQLite_buildWhereClauses(q.conds), q), "and"),
     args |-> <<>>]

(* The statement of Search: MATCH ahead of the conditions, which are put in
   parentheses of their own, and the cursors.                               *)
SQLite_buildFTSSearchSQL(term, q) ==
    LET texts == SelectSeq([i \in DOMAIN q.conds |-> SQLite_conditionToSQL(q.conds[i])],
                           LAMBDA s : s # <<>>)
        clauses == <<Match(Bound(term))>> \o [i \in DOMAIN texts |-> Paren(texts[i])]
    IN  [sql |-> Join(SQLite_appendCursorClauses(clauses, q), "and"), args |-> <<>>]

(***************************************************************************)
(* PostgreSQL: every translation also takes the number of the next         *)
(* placeholder and returns its arguments and the next number after it      *)
(***************************************************************************)

Params(n, k) == [i \in 1..k |-> Param(n + i - 1)]

(* Equality on a top-level field with a scalar operand is written as
   containment, which the GIN index serves; a nil operand is not scalar.    *)
PG_canRewriteEqToContainment(c) == c.op = "Eq" /\ c.vals[1] # JNull

(* Mutant: the two sides of a comparison between fields are swapped.        *)
PG_fieldRefSwapped(c) ==
    IF c.op \in Comparisons
    THEN Cmp(c.op, Col("jsonb", c.ref), <<Col("jsonb", c.field)>>)
    ELSE <<>>

PG_fieldRefToSQL(c) ==
    IF c.op \in Comparisons
    THEN Cmp(c.op, Col("jsonb", c.field), <<Col("jsonb", c.ref)>>)
    ELSE <<>>

PG_fieldConditionToSQL(c, n) ==
    LET typed == Col("jsonb", c.field)
        text  == Col("text", c.field)
        ys    == Params(n, Len(c.vals))
        ts    == [i \in DOMAIN ys |-> TextParam(ys[i].v)]
        sql   ==
          CASE c.ref # NoRef                     -> PG_fieldRefToSQL(c)
            [] PG_canRewriteEqToContainment(c)   -> Contained(c.field, ys[1])
            [] c.op \in Comparisons              -> Cmp(c.op, typed, ys)
            [] c.op = "IsNil"                    -> IsNull(text)
            [] c.op = "IsNotNil"                 -> IsNotNull(text)
            [] c.op \in {"In", "NotIn"} ->
                 IF ys = <<>> THEN SyntaxError ELSE Cmp(c.op, typed, ys)
            [] c.op \in {"Contains", "HasKey"}   -> Holds(typed, ts)
            [] c.op = "ContainsAny" ->
                 IF ts = <<>> THEN SyntaxError
                 ELSE Paren(Join([i \in DOMAIN ts |-> Holds(typed, <<ts[i]>>)], "or"))
            [] c.op = "ContainsAll" ->
                 Join([i \in DOMAIN ts |-> Holds(typed, <<ts[i]>>)], "and")
            [] OTHER                             -> <<>>
    IN  [sql |-> sql, args |-> c.vals, next |-> n + Len(c.vals)]

NoText(n) == [sql |-> <<>>, args |-> <<>>, next |-> n]

(* The loop over conditions shared by logicalToSQL and buildWhereClauses:
   clauses in parentheses, arguments appended, the number moved on.         *)
PG_Step(acc, r) ==
    IF r.sql = <<>> THEN acc
    ELSE [clauses |-> Append(acc.clauses, Paren(r.sql)),
          args |-> acc.args \o r.args, next |-> r.next]

RECURSIVE PG_conditionToSQL(_, _)
PG_Loop(cs, n) ==
    FoldLeft(LAMBDA acc, c : PG_Step(acc, PG_conditionToSQL(c, acc.next)),
             [clauses |-> <<>>, args |-> <<>>, next |-> n], cs)

PG_logicalToSQL(logic, cs, n) ==
    LET r == PG_Loop(cs, n)
    IN  [sql |-> Join(r.clauses, logic), args |-> r.args, next |-> r.next]

PG_conditionToSQL(c, n) ==
    CASE c.kind = "field" -> PG_fieldConditionToSQL(c, n)
      [] c.kind = "not"   -> LET r == PG_conditionToSQL(c.subs[1], n)
                             IN  IF r.sql = <<>> THEN NoText(n)
                                 ELSE [r EXCEPT !.sql = NotOf(r.sql)]
      [] OTHER            -> PG_logicalToSQL(c.kind, c.subs, n)

PG_buildWhereClauses(conds) == PG_Loop(conds, 1)

PG_appendCursorClauses(r, q) ==
    LET a == IF q.after = 0 THEN r
             ELSE [clauses |-> Append(r.clauses, IdCmp("Gt", Param(r.next))),
                   args |-> Append(r.args, q.after), next |-> r.next + 1]
    IN  IF q.before = 0 THEN a
        ELSE [clauses |-> Append(a.clauses, IdCmp("Lt", Param(a.next))),
              args |-> Append(a.args, q.before), next |-> a.next + 1]

PG_Where(q) ==
    LET r == PG_appendCursorClauses(PG_buildWhereClauses(q.conds), q)
    IN  [sql |-> Join(r.clauses, "and"), args |-> r.args]

(* The search term is $1, the numbers of the conditions start at 2.         *)
PG_buildFTSSearchSQL(term, q) ==
    LET r == PG_appendCursorClauses(PG_Loop(q.conds, 2), q)
    IN  [sql |-> Join(<<Match(Param(1))>> \o r.clauses, "and"), args |-> <<term>> \o r.args]

(***************************************************************************)
(* What the database makes of a clause                                     *)
(***************************************************************************)

Bool(b) == IF b THEN "T" ELSE "F"
Neg(v)  == CASE v = "T" -> "F" [] v = "F" -> "T" [] OTHER -> v
KleeneAnd(S) == CASE "E" \in S -> "E" [] "F" \in S -> "F" [] "N" \in S -> "N" [] OTHER -> "T"
KleeneOr(S) == Neg(KleeneAnd({Neg(v) : v \in S}))

(* json_extract and the text extraction turn an explicit null into SQL NULL;
   the jsonb extraction keeps it as a value, which sorts below any other.   *)
ExprValue(x, d, args) ==
    CASE x.e = "val"   -> x.v
      [] x.e = "param" -> IF x.how = "text" THEN Text(args[x.v]) ELSE args[x.v]
      [] OTHER -> IF x.how # "jsonb" /\ d[x.f] = JNull THEN SqlNull ELSE d[x.f]

Compare(op, a, b) ==
    IF SqlNull \in {a, b} THEN "N"
    ELSE Bool(CASE op = "Eq" -> a = b [] op = "Ne"  -> a # b [] op = "Gt" -> a > b
                [] op = "Gte" -> a >= b [] op = "Lt" -> a < b [] op = "Lte" -> a <= b)

(* An element of an array or a key of a map.  json_each and json_type see
   nothing in a null or missing field; jsonb operators yield NULL for a
   missing one and for a NULL operand; a path that ends in a dot is an error. *)
Element(how, elems, vs) ==
    CASE how = "jsonb" /\ (elems = {Absent} \/ SqlNull \in vs) -> "N"
      [] elems \in {{Absent}, {JNull}}      -> "F"
      [] how = "json_type" /\ Empty \in vs  -> "E"
      [] OTHER                              -> Bool(vs \cap elems # {})

RECURSIVE Eval(_, _, _, _)
AtomValue(a, i, d, args) ==
    LET V(x) == ExprValue(x, d, args)
        Ys   == {V(a.ys[k]) : k \in DOMAIN a.ys}
    IN  CASE a.t = "paren"   -> Eval(a.c, i, d, args)
          [] a.t = "not"     -> Neg(Eval(a.c, i, d, args))
          [] a.t = "cmp"     ->
               CASE a.op = "In"    -> KleeneOr({Compare("Eq", V(a.x), y) : y \in Ys})
                 [] a.op = "NotIn" -> KleeneAnd({Compare("Ne", V(a.x), y) : y \in Ys})
                 [] OTHER          -> Compare(a.op, V(a.x), V(a.ys[1]))
          [] a.t = "isnull"  -> Bool(V(a.x) = SqlNull)
          [] a.t = "notnull" -> Bool(V(a.x) # SqlNull)
          [] a.t = "holds"   -> Element(a.x.how, d[a.x.f], Ys)
          [] a.t = "contained" -> Bool(d[a.f] = V(a.y))
          [] a.t = "id"      -> Compare(a.op, i, V(a.ys[1]))
          [] a.t = "match"   -> Bool(d.x = V(a.y))
          [] a.t = "syntax"  -> "E"

Eval(sql, i, d, args) ==
    KleeneOr({KleeneAnd({AtomValue(sql[k][m], i, d, args) : m \in DOMAIN sql[k]}) : k \in DOMAIN sql})

(* A statement with no WHERE clause returns every row.                      *)
Answer(w, i, d) == IF w.sql = <<>> THEN "T" ELSE Eval(w.sql, i, d, w.args)
=============================================================================
