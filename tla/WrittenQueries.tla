--------------------------- MODULE WrittenQueries ---------------------------
(***************************************************************************)
(* Queries as their users write them: with the optional parts left out     *)
(* where they say nothing, or in full, and sometimes with a token lost.    *)
(* QueryAsText is the reference the grammar is judged by; it is written    *)
(* from the shape of a query and not from the grammar's rules.             *)
(***************************************************************************)
EXTENDS Planning, SequencesExt

CONSTANTS
  Queries,                \* the queries users write
  Varied                  \* more of them, also written in full and with a token lost

ASSUME InputAssumption == \A q \in Queries \cup Varied : q # NoQuery /\ IsQuery(q)

VARIABLE
  asked                   \* history: the query the text was written for, if any

----------------------------------------------------------------------------
(* How a query is written.                                                 *)

Joined(texts, sep) ==
  LET upto[i \in DOMAIN texts] ==
        IF i = 1 THEN texts[1] ELSE upto[i - 1] \o sep \o texts[i]
  IN IF texts = <<>> THEN <<>> ELSE upto[Len(texts)]
Mapped(seq, Text(_)) == [i \in DOMAIN seq |-> Text(seq[i])]

NumberText(n) == <<CHOOSE t \in DOMAIN Number : Number[t] = n>>
LiteralText(v) == CHOOSE t \in DOMAIN LiteralOf : LiteralOf[t] = v
OpText(op) ==
  CASE op = "eq" -> <<"=">> [] op = "ne" -> <<"<", ">">> [] op = "lt" -> <<"<">>
    [] op = "lte" -> <<"<", "=">> [] op = "gt" -> <<">">> [] op = "gte" -> <<">", "=">>

NodeText(n, full) ==
  <<"(", n.alias>>
    \o (IF n.label = AnyLabel THEN <<>> ELSE <<":", n.label>>)
    \o (IF n.inline = <<>> /\ ~ full THEN <<>>
        ELSE <<"{">> \o Joined(Mapped(n.inline, LAMBDA f : <<f.prop, ":">> \o LiteralText(f.val)),
                               <<",">>) \o <<"}">>)
    \o <<")">>

EdgeText(e, full) ==
  LET detail == (IF e.alias = NoAlias THEN <<>> ELSE <<e.alias>>)
                  \o (IF e.type = AnyType THEN <<>> ELSE <<":", e.type>>)
                  \o (IF e.min = 1 /\ e.max = 1 /\ ~ full THEN <<>>
                      ELSE <<"*">> \o NumberText(e.min) \o <<".", ".">> \o NumberText(e.max))
      body == IF detail = <<>> THEN <<>> ELSE <<"[">> \o detail \o <<"]">>
  IN IF e.dir = "out" THEN <<"-">> \o body \o <<"-", ">">> ELSE <<"<", "-">> \o body \o <<"-">>

PatternText(p, full) ==
  NodeText(p.nodes[1], full) \o
  Joined([i \in DOMAIN p.edges |->
            EdgeText(p.edges[i], full) \o NodeText(p.nodes[i + 1], full)], <<>>)

RefText(r) == IF r.prop = NoProperty THEN <<r.alias>> ELSE <<r.alias, ".", r.prop>>

RECURSIVE WhereText(_, _)
WhereText(where, full) ==
  LET One(c) ==
        CASE c.kind = "property" -> <<c.alias, ".", c.filter.prop>> \o OpText(c.filter.op)
                                      \o LiteralText(c.filter.val)
          [] c.kind = "aliases" -> <<c.left>> \o OpText(c.op) \o <<c.right>>
          [] c.kind = "properties" -> RefText(c.left) \o OpText(c.op) \o RefText(c.right)
          [] c.kind = "absent" -> <<"NOT", "EXISTS", "{", "MATCH">> \o PatternText(c, full)
                                    \o WhereText(c.where, full) \o <<"}">>
  IN IF where = <<>> THEN <<>> ELSE <<"WHERE">> \o Joined(Mapped(where, One), <<"AND">>)

QueryAsText(q, full) ==
  <<"MATCH">> \o PatternText(q, full) \o WhereText(q.where, full)
    \o <<"RETURN">> \o Joined(Mapped(q.returns, RefText), <<",">>)
    \o (IF q.order = NoOrder THEN <<>>
        ELSE <<"ORDER", "BY", q.order.alias, ".", q.order.prop>>
               \o (IF q.order.dir = "desc" THEN <<"DESC">> ELSE IF full THEN <<"ASC">> ELSE <<>>))
    \o (IF q.limit = NoLimit THEN <<>> ELSE <<"LIMIT">> \o NumberText(q.limit))

----------------------------------------------------------------------------

WrittenInit ==
  /\ \/ asked \in Queries \cup Varied /\ source = QueryAsText(asked, FALSE)
     \/ asked \in Varied /\ source = QueryAsText(asked, TRUE)
     \/ /\ asked = NoQuery
        /\ \E q \in Varied :
             LET t == QueryAsText(q, FALSE) IN \E i \in DOMAIN t : source = RemoveAt(t, i)
  /\ PlannerInit

WrittenSpec == WrittenInit /\ [][Next /\ UNCHANGED asked]_<<vars, asked>>

\* The parser reads every query as it was meant, in whatever way it was
\* written, and never reads a query into a text that is not its own: of the
\* texts a lost token leaves, those of another query are read as that query
\* and the others refused.  Only a number too large stops it (parse, and the
\* order of the alternatives in dsl.pest:72-88).
ReadAsWritten ==
  /\ stage = "refused" => asked = NoQuery
  /\ query # NoQuery => /\ asked \in {NoQuery, query}
                        /\ \E full \in BOOLEAN : source = QueryAsText(query, full)
  /\ stage = "panicked" /\ asked # NoQuery => query = asked \/ ~ Fits(asked, Len(source))

=============================================================================
