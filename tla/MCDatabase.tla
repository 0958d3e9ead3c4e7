----------------------------- MODULE MCDatabase ----------------------------
(* TLC instance of Database. *)
EXTENDS Database, TLC

MCColumns == {1, 2}
MCSchemas == {[pk |-> {}, uk |-> {}], [pk |-> {}, uk |-> {2}], [pk |-> {1}, uk |-> {1, 2}]}
MCUserIndexes == {<<0, "i">>}
MCKeyLists == {<<2>>, <<1, 2>>, <<3>>}

Compare(conn, col, op, val) == [conn |-> conn, col |-> col, op |-> op, val |-> val]
Conditions(conn) == {Compare(conn, 1, "=", 1), Compare(conn, 1, ">", 1),
                     Compare(conn, 2, "<>", 1), Compare(conn, 2, "<=", 1)}
Connected == Conditions("and") \cup Conditions("or")

MCWheres == {<<Compare("and", 1, "=", 1)>>, <<Compare("and", 2, ">=", 1)>>}
MCQueries ==
    {<<>>} \cup {<<Compare("and", c, op, 1)>> : c \in MCColumns,
                                                op \in {"=", "<>", "<", "<=", ">", ">="}}
      \cup {<<p, q>> : p \in Conditions("and"), q \in Connected}
      \cup {<<Compare("and", 1, "=", 1), Compare("and", 2, "<=", 1), r>> : r \in Connected}

Symmetric == Permutations(Tables)

=============================================================================
