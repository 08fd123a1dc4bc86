----------------------------- MODULE MCPlanning -----------------------------
(***************************************************************************)
(* Queries put together from parts: every first node, edge, second node    *)
(* and pair of conditions, and chains of two hops.  Judged on every graph  *)
(* of two edges between an L node and two M nodes.                         *)
(***************************************************************************)
EXTENDS WrittenQueries

CONSTANTS n1, n2, n3, e1, e2, L, M, N, T, U, k, j, x, y, z, g, h

MCNodeDef == (L :> ((k :> "ordered") @@ (j :> "composite"))) @@ (M :> (k :> "ordered"))
MCEdgeDef ==
  (T :> [from |-> L, to |-> M, props |-> (k :> "ordered")]) @@
  (U :> [from |-> M, to |-> L, props |-> (k :> "unordered")])
MCIndexed == {<<L, k>>}

\* The integers 0, 1 and 2, with 1.2 among them; "3" stands for 2^63, which
\* an i64 holds only when negative, and "4" for 2^64.  No row holds a string
\* or a Boolean.
MCValue == {-3, -1, 0, 1, 2, 3, 5, 6, 7}
MCNumber == ("0" :> 0) @@ ("1" :> 1) @@ ("2" :> 2) @@ ("3" :> 3) @@ ("4" :> 4)
MCLiteralOf ==
  (<<"0">> :> 0) @@ (<<"1">> :> 1) @@ (<<"1", ".", "2">> :> 2) @@ (<<"2">> :> 3)
    @@ (<<"3">> :> 8) @@ (<<"4">> :> 9) @@ (<<"-", "1">> :> -1) @@ (<<"-", "3">> :> -3)
    @@ (<<"'s'">> :> 5) @@ (<<"true">> :> 6) @@ (<<"false">> :> 7)

MCLiteral == Range(MCLiteralOf)

----------------------------------------------------------------------------
Where(p) == [prop |-> k, op |-> p[1], val |-> p[2]]
Node(alias, label) == [alias |-> alias, label |-> label, inline |-> <<>>]
NodeWith(alias, label, vals) ==
  [alias |-> alias, label |-> label,
   inline |-> [i \in DOMAIN vals |-> Where(<<"eq", vals[i]>>)]]
Edge(alias, type, dir, min, max) ==
  [alias |-> alias, type |-> type, dir |-> dir, min |-> min, max |-> max]
Ref(alias) == [alias |-> alias, prop |-> k]

On(alias, prop, op, v) ==
  [kind |-> "property", alias |-> alias, filter |-> [prop |-> prop, op |-> op, val |-> v]]
Same(l, op, r) == [kind |-> "aliases", left |-> l, op |-> op, right |-> r]
Compare(l, op, r) == [kind |-> "properties", left |-> Ref(l), op |-> op, right |-> Ref(r)]
Absent(from, e, to, where) ==
  [kind |-> "absent", nodes |-> <<Node(from, AnyLabel), Node(to, AnyLabel)>>,
   edges |-> <<e>>, where |-> where]

OneHop(alias, type) == Edge(alias, type, "out", 1, 1)

Firsts == {Node(x, L), Node(x, AnyLabel), NodeWith(x, L, <<0>>), NodeWith(x, L, <<0, 1>>)}
Edges == {OneHop(NoAlias, AnyType), OneHop(g, T), Edge(NoAlias, T, "out", 1, 2),
          Edge(g, T, "out", 1, 2), Edge(g, U, "in", 1, 1)}
Seconds == {Node(y, AnyLabel), Node(y, M), NodeWith(y, M, <<0>>), Node(y, N), Node(x, L)}

Inner ==
  {<<>>, <<On(h, k, "gte", 1)>>, <<Compare(h, "lte", g)>>, <<Compare(g, "lt", h)>>,
   <<Compare(y, "lte", h), On(h, k, "ne", 2)>>, <<On(x, k, "eq", 0)>>,
   <<Compare(h, "eq", h)>>, <<Absent(x, OneHop(h, T), y, <<>>)>>}

Conds ==
  {On(x, k, "eq", 0), On(x, k, "eq", 2), On(x, j, "eq", 0), On(y, k, "gt", 0),
   On(g, k, "lt", 1), Same(x, "ne", y), Compare(x, "lt", y)} \cup
  {Absent(x, OneHop(h, T), y, w) : w \in Inner} \cup
  {Absent(y, OneHop(NoAlias, U), x, <<>>), Absent(x, OneHop(h, T), z, <<>>),
   Absent(x, Edge(h, T, "in", 1, 1), y, <<>>)}

Wheres == {<<>>} \cup {<<c>> : c \in Conds} \cup (Conds \X Conds)

Bare(alias) == [alias |-> alias, prop |-> NoProperty]

\* Sets of records: TLC goes through them without building them.
Queries2(seconds, returns) ==
  [nodes : Firsts \X seconds, edges : {<<e>> : e \in Edges}, where : Wheres,
   returns : {returns}, order : {NoOrder}, limit : {NoLimit}]

Queries3 ==
  [nodes : {<<Node(x, L), Node(y, AnyLabel), Node(z, M)>>},
   edges : {<<OneHop(NoAlias, AnyType), e>> :
              e \in {OneHop(NoAlias, AnyType), Edge(g, U, "in", 1, 1), OneHop(g, T)}},
   where : Wheres, returns : {<<Bare(g)>>, <<Bare(h)>>, <<[alias |-> z, prop |-> k]>>},
   order : {NoOrder}, limit : {NoLimit}]

MCQueries ==
  Queries2({s \in Seconds : s.alias = y}, <<Bare(x), Bare(y)>>)
    \cup Queries2({s \in Seconds : s.alias = x}, <<Bare(x)>>) \cup Queries3

Ends ==
  [order : {NoOrder}, limit : {NoLimit}]
    \cup [order : {[alias |-> x, prop |-> k, dir |-> "desc"]}, limit : {4}]
    \cup [order : {[alias |-> y, prop |-> k, dir |-> "asc"]}, limit : {1}]

MCVaried ==
  {[nodes |-> <<NodeWith(x, L, <<0, 2>>), Node(y, AnyLabel)>>, edges |-> <<e>>, where |-> w,
    returns |-> <<Bare(x), Ref(g)>>, order |-> end.order, limit |-> end.limit] :
     e \in Edges \cup {Edge(NoAlias, AnyType, "in", 1, 3)},
     w \in {<<c>> : c \in Conds \cup {Compare("true", "lte", x), On("true", k, "lte", -3),
                                     On(y, k, "eq", 6), On(y, k, "eq", 8)}}
             \cup {<<Same(x, "ne", y), Absent(x, OneHop(h, T), y, <<Compare(h, "gte", g)>>),
                    On(y, k, "lt", -1)>>},
     end \in Ends}

----------------------------------------------------------------------------
NodeTable ==
  (n1 :> [label |-> L, props |-> (k :> 0) @@ (j :> Opaque)]) @@
  (n2 :> [label |-> M, props |-> (k :> 1) @@ (j :> Missing)]) @@
  (n3 :> [label |-> M, props |-> (k :> Missing) @@ (j :> Missing)])

EdgeRows(p) ==
  {[type |-> T, src |-> n1, dst |-> n, props |-> (k :> p) @@ (j :> Missing)] : n \in {n2, n3}}
  \cup {[type |-> U, src |-> n2, dst |-> n1, props |-> (k :> p) @@ (j :> Missing)]}

MCGraphs ==
  {[node |-> NodeTable, edge |-> (e1 :> r) @@ (e2 :> s)] :
     r \in EdgeRows(0), s \in EdgeRows(1)}

=============================================================================
