----------------------------- MODULE MCQuerySet -----------------------------
(* The instances of QuerySet that TLC explores.                             *)
EXTENDS QuerySet

Doc(x, y, tags, attrs, deleted) ==
    [x |-> x, y |-> y, n |-> 1, tags |-> tags, attrs |-> attrs, deleted |-> deleted]

(* Every shape of document: fields present, null or missing, strings and
   numbers in an array, and keys that a path can spell or not in a map.     *)
Shapes ==
    {Doc(x, y, tags, {2}, Absent) : x \in {Absent, JNull, 1, 2}, y \in {Absent, 2},
                                    tags \in {{Absent}, {JNull}, {}, {2}, {1, 2}}}
    \cup {Doc(2, 2, tags, attrs, Absent) :
             tags \in {{1, 2}, {Number(2)}, {1, Number(2)}},
             attrs \in {{Absent}, {JNull}, {}, {2, 3}, {3, Dashed(3)}, {Dotted}}}
    \cup {Doc(x, 2, tags, attrs, 1) : x \in {Absent, 1, 2}, tags \in {{JNull}, {1, 2}},
                                      attrs \in {{Absent}, {3}}}

Operators ==
    {FieldCond("x", op, <<2>>) : op \in Comparisons}
    \cup {FieldCond("x", op, vs) : op \in {"In", "NotIn"}, vs \in {<<>>, <<1, 2>>}}
    \cup {FieldCond("x", op, <<>>) : op \in {"IsNil", "IsNotNil"}}
    \cup {FieldCond("x", "Ne", <<JNull>>), FieldRefCond("x", "Gte", "y"),
          FieldRefCond("tags", "Contains", "x"), And(<<>>)}
    \cup {FieldCond("tags", "Contains", <<v>>) : v \in {2, Number(2)}}
    \cup {FieldCond("tags", op, vs) : op \in {"ContainsAny", "ContainsAll"},
                                      vs \in {<<>>, <<1, 2>>}}
    \cup {FieldCond("attrs", "HasKey", <<key>>) : key \in {3, Dashed(3)}}

(* One operator of each translation, for deeper trees.                      *)
FewOperators ==
    {FieldCond("x", "Eq", <<2>>), FieldCond("x", "In", <<1, 2>>),
     FieldCond("y", "IsNil", <<>>), FieldCond("tags", "ContainsAll", <<1, 2>>)}

Translation(leaves, n, ids, cursors) ==
    [backend |-> "sqlite", leaves |-> leaves, maxLeaves |-> n, docs |-> Shapes,
     ids |-> ids, stored |-> {}, cursors |-> cursors, skips |-> {},
     sort |-> [field |-> "_id", dir |-> "asc"], limit |-> 1]

Live    == Doc(1, 2, {}, {}, Absent)
Newer   == Doc(2, 2, {}, {}, Absent)
Deleted == Doc(1, 2, {}, {}, 1)

(* Groups of the empty string, of another, and of no key at all.            *)
Keyless == {Doc(JNull, 2, {}, {}, Absent), [Doc(Absent, 2, {}, {}, Absent) EXCEPT !.n = Absent]}
Holed   == {Live, Newer} \cup Keyless

Walk(backend, field, dir, stored, skips, ids) ==
    [backend |-> backend, leaves |-> {}, maxLeaves |-> 0, docs |-> {}, ids |-> ids,
     stored |-> stored,
     cursors |-> {}, skips |-> skips, sort |-> [field |-> field, dir |-> dir], limit |-> 2]

TranslationsAndWalks ==
    {Translation(Operators, 2, {1}, {}), Translation(FewOperators, 2, 1..3, {2}),
     Translation(FewOperators, 3, {1}, {})}
    \cup {Walk(b, "_id", dir, {Live, Deleted}, {1}, 1..4) : b \in Backends, dir \in {"asc", "desc"}}
    \cup {Walk(b, "_id", "asc", Holed, {}, 1..3) : b \in Backends}

DocumentedWalk == {Walk("sqlite", "x", "desc", {Live, Newer}, {}, 1..4)}
=============================================================================
