---------------------------- MODULE MCQueryWrites ----------------------------
(* One call alone over every small table, and two calls at once.            *)
EXTENDS QueryWrites, TLC

CONSTANTS s1, s2

TwoSessions == {s1, s2}

Live(k)    == [st |-> "live", key |-> k]
Trashed(k) == [st |-> "deleted", key |-> k]

Base == [NoCall EXCEPT !.match = {"a"}, !.soft = TRUE]

(* Five stored rows in chunks of two: match sets of none, one, two and three
   chunks, with and without a last partial chunk.  A Skip over several chunks
   and a soft delete under IncludeDeleted are left out.                     *)
Deletes ==
    {q \in [op: {"delete"}, match: {{"a"}}, limit: {0, 2, 3, 5}, skip: 0..1, desc: {FALSE},
            all: BOOLEAN, soft: BOOLEAN, hard: BOOLEAN, set: {NoKey}, new: {NoKey}] :
        /\ q.soft /\ q.all => q.hard
        /\ q.hard \/ q.all => q.soft
        /\ q.skip > 0 => q.limit \in 1..ChunkSize}

Updates ==
    [op: {"update"}, match: {{"a"}}, limit: {0, 2}, skip: {0, 1}, desc: BOOLEAN,
     all: {FALSE}, soft: {FALSE}, hard: {FALSE}, set: {"b"}, new: {NoKey}]

Tables(soft) == [Ids -> {Live("a"), IF soft THEN Trashed("a") ELSE Live("b")}]

Alone ==
    UNION {[backend: {"sqlite"}, unique: {FALSE}, rows: Tables(q.soft), tries: {1},
            call: {(s1 :> q) @@ (s2 :> NoCall)}] : q \in Deletes \cup Updates}

(* Two calls about the key "a", with two ids left for inserts.              *)
GetOrCreate == [Base EXCEPT !.op = "upsertOne", !.new = "a"]

Racing ==
    <<GetOrCreate,
     [GetOrCreate EXCEPT !.all = TRUE],
     [GetOrCreate EXCEPT !.set = "b"],
     [Base EXCEPT !.op = "updateOne", !.set = "b"],
     [Base EXCEPT !.op = "delete"],
     [Base EXCEPT !.op = "delete", !.hard = TRUE],
     [Base EXCEPT !.op = "update", !.match = {"a", "b"}, !.set = "b"],
     [Base EXCEPT !.op = "update", !.match = {"a", "b"}, !.desc = TRUE]>>

Small ==
    {t \in [Ids -> {Live("a"), Live("b"), Trashed("a"), Gone}] :
        \A i \in Ids : i > 2 => t[i] = Gone}

Pairs == {(s1 :> Racing[p[1]]) @@ (s2 :> Racing[p[2]]) :
             p \in {x \in (DOMAIN Racing) \X (DOMAIN Racing) : x[1] <= x[2]}}

NoDuplicates(t) == \A i, j \in Ids : t[i].key = t[j].key /\ t[i] # Gone => i = j

Upserts(c) == \A s \in TwoSessions : c[s].op = "upsertOne"

(* Upserts are tried again after they fail.                                 *)
Together ==
    {u \in [backend: {"sqlite", "postgres"}, unique: BOOLEAN, rows: Small,
            call: Pairs, tries: {1, 2}] :
        /\ u.unique => NoDuplicates(u.rows)
        /\ u.tries = 2 <=> Upserts(u.call)}

AllSetups == Alone \cup Together

(* The hypothesis of the refinement proof.                                  *)
ASSUME UnboundedSetups == Unbounded
=============================================================================
