----------------------------- MODULE QueryText -----------------------------
(***************************************************************************)
(* The query language: the grammar that reads a text.                      *)
(*                                                                         *)
(* A text is a sequence of tokens: a word, a run of digits, a quoted       *)
(* string, or a single punctuation character, so that `<=` is two tokens   *)
(* and `1..3` four.  White space and comments are left out, and with them  *)
(* what the grammar makes of words written together, like RETURNx.         *)
(*                                                                         *)
(* The grammar is a PEG: alternatives are tried in order, an optional part *)
(* is taken whenever it matches, and nothing taken is given back.  A rule  *)
(* maps a position of the text s to the position after its match and what  *)
(* the walk over the match builds.  No rule matches at position 0: that is *)
(* how the failure of one part of a rule fails the rule.                   *)
(***************************************************************************)
EXTENDS Queries, Sequences

CONSTANTS
  Number,                 \* the numbers, each with the integer it stands for
  LiteralOf,              \* the texts of literals, each with what it stands for
  MaxHops, MaxLimit       \* the largest u32 and the largest u64

Quoted == {t[1] : t \in {u \in DOMAIN LiteralOf : Len(u) = 1}}
            \ (DOMAIN Number \cup {"true", "false"})
Keyword ==
  {"MATCH", "WHERE", "AND", "NOT", "EXISTS", "RETURN", "ORDER", "BY", "ASC", "DESC", "LIMIT"}

\* Keywords are not reserved.
Word == Alias \cup Label \cup EdgeType \cup Property \cup Keyword \cup {"true", "false"}

ASSUME TextAssumption ==
  /\ \A t \in DOMAIN LiteralOf : t \in Seq(Range(t)) /\ LiteralOf[t] \in Literal
  /\ \A t \in DOMAIN Number : Number[t] \in Nat
  /\ DOMAIN Number \cap Word = {}

----------------------------------------------------------------------------
(* Matching.                                                               *)

Match(at, val) == [at |-> at, val |-> val]
NoMatch == Match(0, <<>>)
Found(m) == m.at > 0

Tok(s, i) == IF i \in DOMAIN s THEN s[i] ELSE "EOI"
After(s, i, ts) ==
  IF \A j \in DOMAIN ts : Tok(s, i + j - 1) = ts[j] THEN i + Len(ts) ELSE 0

Optional(m, i, default) == IF Found(m) THEN m ELSE Match(i, default)

\* The first alternative that matches.
FirstOf(ms) ==
  LET at == {o \in DOMAIN ms : Found(ms[o])}
  IN IF at = {} THEN NoMatch ELSE ms[CHOOSE o \in at : \A k \in at : o <= k]

\* A part of a rule, and what follows it given its match.
Then(m, Rest(_)) == IF Found(m) THEN Rest(m) ELSE NoMatch
MatchTo(at, val) == IF at > 0 THEN Match(at, val) ELSE NoMatch

\* A rule, at every position of the text.
Positions(s) == 0 .. Len(s) + 1

\* item*
Many(s, item, i) ==
  LET f[j \in Positions(s)] ==
        LET m == item[j] IN
        IF Found(m)
        THEN LET rest == f[m.at] IN Match(rest.at, <<m.val>> \o rest.val)
        ELSE Match(j, <<>>)
  IN f[i]

\* item (sep item)*
ListOf(s, item, sep, i) ==
  Then(item[i], LAMBDA head :
  Then(Many(s, [j \in Positions(s) |-> item[After(s, j, <<sep>>)]], head.at), LAMBDA tail :
  MatchTo(tail.at, <<head.val>> \o tail.val)))

----------------------------------------------------------------------------
(* The rules.                                                              *)

IdentAt(s, i) == IF Tok(s, i) \in Word THEN Match(i + 1, Tok(s, i)) ELSE NoMatch

RefAt(s, i) ==
  Then(IdentAt(s, i), LAMBDA alias :
  Then(IdentAt(s, After(s, alias.at, <<".">>)), LAMBDA key :
  MatchTo(key.at, [alias |-> alias.val, prop |-> key.val])))

\* Mutant: a shorter operator is tried before a longer one it begins.
OpTextsShortFirst ==
  <<<<<<"<">>, "lt">>, <<<<">">>, "gt">>, <<<<"=">>, "eq">>,
    <<<<"<", "=">>, "lte">>, <<<<">", "=">>, "gte">>, <<<<"<", ">">>, "ne">>>>

OpTexts ==
  <<<<<<"<", "=">>, "lte">>, <<<<">", "=">>, "gte">>, <<<<"<", ">">>, "ne">>,
    <<<<"=">>, "eq">>, <<<<"<">>, "lt">>, <<<<">">>, "gt">>>>

OpAt(s, i) ==
  FirstOf([o \in DOMAIN OpTexts |-> MatchTo(After(s, i, OpTexts[o][1]), OpTexts[o][2])])

Sign(s, i) == IF Tok(s, i) = "-" THEN i + 1 ELSE i
IsNumber(s, i) == Tok(s, i) \in DOMAIN Number

\* A quoted string, a float, an integer, a Boolean: in this order.
LiteralEnds(s, i, n) ==
  <<IF Tok(s, i) \in Quoted THEN i + 1 ELSE 0,
    IF IsNumber(s, n) /\ Tok(s, n + 1) = "." /\ IsNumber(s, n + 2) THEN n + 3 ELSE 0,
    IF IsNumber(s, n) THEN n + 1 ELSE 0,
    IF Tok(s, i) \in {"true", "false"} THEN i + 1 ELSE 0>>

LiteralAt(s, i) ==
  Then(FirstOf([o \in 1 .. 4 |-> MatchTo(LiteralEnds(s, i, Sign(s, i))[o], {})]), LAMBDA m :
  Match(m.at, LiteralOf[SubSeq(s, i, m.at - 1)]))

\* property_kv and property_map
InlineAt(s, i) ==
  Then(IdentAt(s, i), LAMBDA key :
  Then(LiteralAt(s, After(s, key.at, <<":">>)), LAMBDA v :
  Match(v.at, [prop |-> key.val, op |-> "eq", val |-> v.val])))

PropertyMapAt(s, i) ==
  Then(MatchTo(After(s, i, <<"{">>), {}), LAMBDA open :
  Then(Optional(ListOf(s, [j \in Positions(s) |-> InlineAt(s, j)], ",", open.at),
                open.at, <<>>), LAMBDA kvs :
  MatchTo(After(s, kvs.at, <<"}">>), kvs.val)))

NameAt(s, i) == IdentAt(s, After(s, i, <<":">>))

NodeAt(s, i) ==
  Then(IdentAt(s, After(s, i, <<"(">>)), LAMBDA alias :
  Then(Optional(NameAt(s, alias.at), alias.at, AnyLabel), LAMBDA label :
  Then(Optional(PropertyMapAt(s, label.at), label.at, <<>>), LAMBDA inline :
  MatchTo(After(s, inline.at, <<")">>),
       [alias |-> alias.val, label |-> label.val, inline |-> inline.val]))))

NumberAt(s, i) == IF IsNumber(s, i) THEN Match(i + 1, Number[Tok(s, i)]) ELSE NoMatch

HopRangeAt(s, i) ==
  Then(NumberAt(s, After(s, i, <<"*">>)), LAMBDA min :
  Then(NumberAt(s, After(s, min.at, <<".", ".">>)), LAMBDA max :
  Match(max.at, <<min.val, max.val>>)))

\* edge_detail: without a range, one hop.
DetailAt(s, i, dir) ==
  Then(MatchTo(After(s, i, <<"[">>), {}), LAMBDA open :
  Then(Optional(IdentAt(s, open.at), open.at, NoAlias), LAMBDA alias :
  Then(Optional(NameAt(s, alias.at), alias.at, AnyType), LAMBDA type :
  Then(Optional(HopRangeAt(s, type.at), type.at, <<1, 1>>), LAMBDA range :
  MatchTo(After(s, range.at, <<"]">>),
       [alias |-> alias.val, type |-> type.val, dir |-> dir,
        min |-> range.val[1], max |-> range.val[2]])))))

ArrowAt(s, i, dir, shaft, head) ==
  Then(MatchTo(After(s, i, shaft), {}), LAMBDA open :
  Then(Optional(DetailAt(s, open.at, dir), open.at,
                [alias |-> NoAlias, type |-> AnyType, dir |-> dir, min |-> 1, max |-> 1]),
       LAMBDA detail : MatchTo(After(s, detail.at, head), detail.val)))

EdgeAt(s, i) ==
  FirstOf(<<ArrowAt(s, i, "out", <<"-">>, <<"-", ">">>),
            ArrowAt(s, i, "in", <<"<", "-">>, <<"-">>)>>)

HopAt(s, i) ==
  Then(EdgeAt(s, i), LAMBDA e :
  Then(NodeAt(s, e.at), LAMBDA n : Match(n.at, [edge |-> e.val, node |-> n.val])))

PatternAt(s, i) ==
  Then(NodeAt(s, i), LAMBDA n :
  Then(Many(s, [j \in Positions(s) |-> HopAt(s, j)], n.at), LAMBDA hops :
  Match(hops.at, [nodes |-> <<n.val>> \o [o \in DOMAIN hops.val |-> hops.val[o].node],
                  edges |-> [o \in DOMAIN hops.val |-> hops.val[o].edge]])))

PropertyAt(s, i) ==
  Then(RefAt(s, i), LAMBDA l :
  Then(OpAt(s, l.at), LAMBDA o :
  Then(LiteralAt(s, o.at), LAMBDA v :
  Match(v.at, [kind |-> "property", alias |-> l.val.alias,
               filter |-> [prop |-> l.val.prop, op |-> o.val, val |-> v.val]]))))

\* Two sides of one kind, and an operator between them.
PairAt(s, i, kind, SideAt(_, _)) ==
  Then(SideAt(s, i), LAMBDA l :
  Then(OpAt(s, l.at), LAMBDA o :
  Then(SideAt(s, o.at), LAMBDA r :
  Match(r.at, [kind |-> kind, left |-> l.val, op |-> o.val, right |-> r.val]))))

PropertyPairAt(s, i) == PairAt(s, i, "properties", RefAt)
AliasPairAt(s, i)    == PairAt(s, i, "aliases", IdentAt)

\* inner[j] is what the WHERE at position j of a NOT EXISTS reads.
AbsenceAt(s, inner, i) ==
  Then(PatternAt(s, After(s, i, <<"NOT", "EXISTS", "{", "MATCH">>)), LAMBDA p :
  Then(Optional(inner[p.at], p.at, <<>>), LAMBDA w :
  MatchTo(After(s, w.at, <<"}">>),
       [kind |-> "absent", nodes |-> p.val.nodes, edges |-> p.val.edges, where |-> w.val])))

\* where_condition: a literal may be the name of an alias, `true.k`.
ConditionAt(s, inner, i) ==
  FirstOf(<<AbsenceAt(s, inner, i), PropertyPairAt(s, i), PropertyAt(s, i), AliasPairAt(s, i)>>)

WhereOver(s, inner, i) ==
  Then(MatchTo(After(s, i, <<"WHERE">>), {}), LAMBDA open :
       ListOf(s, [j \in Positions(s) |-> ConditionAt(s, inner, j)], "AND", open.at))

\* where_clause, its NOT EXISTS nested at most as deep as the text is long.
WhereAt(s, i) ==
  LET where[d \in 0 .. Len(s)] ==
        [j \in Positions(s) |-> IF d = 0 THEN NoMatch ELSE WhereOver(s, where[d - 1], j)]
  IN where[Len(s)][i]

ReturnItemAt(s, i) ==
  FirstOf(<<RefAt(s, i),
            Then(IdentAt(s, i), LAMBDA a : Match(a.at, [alias |-> a.val, prop |-> NoProperty]))>>)

\* Without a direction the order is ascending.
OrderByAt(s, i) ==
  Then(RefAt(s, After(s, i, <<"ORDER", "BY">>)), LAMBDA r :
  Then(Optional(FirstOf(<<MatchTo(After(s, r.at, <<"ASC">>), "asc"),
                          MatchTo(After(s, r.at, <<"DESC">>), "desc")>>), r.at, "asc"), LAMBDA d :
  Match(d.at, [alias |-> r.val.alias, prop |-> r.val.prop, dir |-> d.val])))

LimitAt(s, i) == NumberAt(s, After(s, i, <<"LIMIT">>))

QueryAt(s) ==
  Then(PatternAt(s, After(s, 1, <<"MATCH">>)), LAMBDA p :
  Then(Optional(WhereAt(s, p.at), p.at, <<>>), LAMBDA w :
  Then(ListOf(s, [j \in Positions(s) |-> ReturnItemAt(s, j)], ",",
              After(s, w.at, <<"RETURN">>)), LAMBDA r :
  Then(Optional(OrderByAt(s, r.at), r.at, NoOrder), LAMBDA o :
  Then(Optional(LimitAt(s, o.at), o.at, NoLimit), LAMBDA l :
  IF Tok(s, l.at) = "EOI"
  THEN Match(l.at, [nodes |-> p.val.nodes, edges |-> p.val.edges, where |-> w.val,
                    returns |-> r.val, order |-> o.val, limit |-> l.val])
  ELSE NoMatch)))))

\* The patterns of a query: its own and those of its NOT EXISTS, nested at
\* most n deep.
PatternsOf(q, n) ==
  LET upto[d \in 0 .. n] ==
        IF d = 0 THEN {q}
        ELSE LET outer == upto[d - 1] IN
             outer \cup {c \in UNION {Range(p.where) : p \in outer} : c.kind = "absent"}
  IN upto[n]

HopsFit(p) == \A e \in Range(p.edges) : e.min <= MaxHops /\ e.max <= MaxHops

LiteralsFit(p) ==
  /\ \A n \in Range(p.nodes) : \A f \in Range(n.inline) : f.val \in Value
  /\ \A c \in Range(p.where) : c.kind = "property" => c.filter.val \in Value

LimitFits(q) == q.limit # NoLimit => q.limit <= MaxLimit

\* Mutant: a literal too large is let through.
FitsHopsOnly(q, n) == (\A p \in PatternsOf(q, n) : HopsFit(p)) /\ LimitFits(q)

\* What a text matches may hold a number too large for its type: the walk
\* that builds the query then panics.
Fits(q, n) == (\A p \in PatternsOf(q, n) : HopsFit(p) /\ LiteralsFit(p)) /\ LimitFits(q)

=============================================================================
