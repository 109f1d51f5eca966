------------------------------ MODULE WhereText ------------------------------
(***************************************************************************)
(* The WHERE of a custom query, from the cell of the sheet to the SQL: the *)
(* lexer and the parser that read it, the tree in the YAML file, the SQL   *)
(* and the Arg fields made from it, and the tree a call asks with the      *)
(* fields it has set.                                                      *)
(*                                                                         *)
(* A text is a sequence of words: <<"(">>, <<"AND">>, <<"IN">>, ...,       *)
(* <<"col", c>>, <<"const", v>> and <<"@", p, before, after>>, a parameter *)
(* with the wildcards around it.  Blanks and commas separate words.        *)
(***************************************************************************)
EXTENDS Integers, Sequences, FiniteSets, SequencesExt

CONSTANTS
    Texts,        \* the cells
    Fields        \* the parameters

VARIABLES
    text,         \* the cell
    stage,        \* "sheet", "yaml", "code", "asked"
    where,        \* the tree of the query
    sql,          \* its SQL, in the code and in the answer to a call
    args,         \* the fields of its Arg
    set           \* the fields the call has set

vars == <<text, stage, where, sql, args, set>>

Operators == {<<"AND">>, <<"OR">>, <<"IN">>, <<"NOT IN">>}   \* alone, where a token starts
None == [type |-> "none", value |-> <<>>, next |-> 0]
Invalid == <<<<"invalid">>>>

-------------------------------------------------------------------------------
(* The lexer *)

\* Mutant of Within: BETWEEN keeps no AND for itself.
WithinNoBetween(w, i, s) ==
    [between |-> FALSE,
     in |-> w[i] \in {<<"IN">>, <<"NOT IN">>} \/ s.in,
     opened |-> s.opened \/ (s.in /\ w[i] = <<"(">>),
     depth |-> IF s.in /\ s.opened /\ w[i] = <<"(">> THEN s.depth + 1
               ELSE IF s.in /\ w[i] = <<")">> THEN s.depth - 1 ELSE s.depth]

\* What an expression remembers of its word i: BETWEEN waits for an AND of its own,
\* IN for the parenthesis that closes its group.
Within(w, i, s) ==
    [between |-> w[i] = <<"BETWEEN">> \/ (s.between /\ w[i] # <<"AND">>),
     in |-> w[i] \in {<<"IN">>, <<"NOT IN">>} \/ s.in,
     opened |-> s.opened \/ (s.in /\ w[i] = <<"(">>),
     depth |-> IF s.in /\ s.opened /\ w[i] = <<"(">> THEN s.depth + 1
               ELSE IF s.in /\ w[i] = <<")">> THEN s.depth - 1 ELSE s.depth]

\* The word that follows the expression in which word i is.
RECURSIVE ExprEnd(_, _, _)
ExprEnd(w, i, s) ==
    IF i > Len(w) THEN i
    ELSE IF w[i] = <<"AND">> /\ ~s.between /\ ~s.in THEN i
    ELSE IF w[i] \in {<<"OR">>, <<"(">>, <<")">>} /\ ~s.in THEN i
    ELSE IF w[i] = <<")">> /\ s.depth = 0 THEN i + 1
    ELSE ExprEnd(w, i + 1, Within(w, i, s))

\* Lexer.NextToken at word i.
NextToken(w, i) ==
    IF i > Len(w) THEN None
    ELSE IF w[i] \in {<<"(">>, <<")">>} \cup Operators
         THEN [type |-> w[i][1], value |-> w[i], next |-> i + 1]
    ELSE LET end == ExprEnd(w, i, [between |-> FALSE, in |-> FALSE, opened |-> FALSE, depth |-> 0])
         IN [type |-> "expr", value |-> SubSeq(w, i, end - 1), next |-> end]

-------------------------------------------------------------------------------
(* The parser: a result is what it has read and the token that follows *)

Leaf(words) == [leaf |-> TRUE, expr |-> words]
Group(operator, conditions) == [leaf |-> FALSE, operator |-> operator, conditions |-> conditions]

\* parseCondition: a group, an expression, or nothing, and then the token stays.
\* parseExpression: the last operator is that of all its conditions.
RECURSIVE parseCondition(_, _), parseExpression(_, _), parseRest(_, _)
parseCondition(w, curr) ==
    IF curr.type = "("
    THEN LET nested == parseExpression(w, NextToken(w, curr.next)) IN
         [conds |-> <<Group(nested.operator, nested.conds)>>,
          curr |-> IF nested.curr.type = ")" THEN NextToken(w, nested.curr.next) ELSE nested.curr]
    ELSE IF curr.type = "expr"
    THEN [conds |-> <<Leaf(curr.value)>>, curr |-> NextToken(w, curr.next)]
    ELSE [conds |-> <<>>, curr |-> curr]
parseRest(w, clause) ==
    IF clause.curr.type \notin {"AND", "OR"} THEN clause
    ELSE LET next == parseCondition(w, NextToken(w, clause.curr.next)) IN
         parseRest(w, [operator |-> clause.curr.type, conds |-> clause.conds \o next.conds,
                       curr |-> next.curr])
parseExpression(w, curr) ==
    LET first == parseCondition(w, curr) IN
    parseRest(w, [operator |-> "AND", conds |-> first.conds, curr |-> first.curr])

\* ParseWhereCondition of the excel package.
Parse(w) == LET clause == parseExpression(w, NextToken(w, 1))
            IN Group(clause.operator, clause.conds)

-------------------------------------------------------------------------------
(* The tree in the YAML file, and read back from it by both packages *)

\* generateWhereCondition, at the root GenerateYAML: no key for what is empty.
RECURSIVE generateWhereCondition(_)
generateWhereCondition(c) ==
    IF c.leaf THEN [expr |-> c.expr]
    ELSE IF c.conditions = <<>> THEN [operator |-> c.operator]
    ELSE [operator |-> c.operator,
          conditions |-> [i \in DOMAIN c.conditions |-> generateWhereCondition(c.conditions[i])]]

\* ParseWhereCondition of both conditonwhere packages.
RECURSIVE ParseWhereCondition(_)
ParseWhereCondition(y) ==
    Group(IF "operator" \in DOMAIN y THEN y.operator ELSE "AND",
          IF "conditions" \notin DOMAIN y THEN <<>>
          ELSE [i \in DOMAIN y.conditions |->
                  IF "expr" \in DOMAIN y.conditions[i] THEN Leaf(y.conditions[i].expr)
                  ELSE ParseWhereCondition(y.conditions[i])])

-------------------------------------------------------------------------------
(* The SQL *)

\* convertLikeWildcards: a parameter with wildcards becomes a CONCAT.  An underscore
\* after it counts as part of its name.
convertLikeWildcards(words) ==
    [i \in DOMAIN words |->
       IF words[i][1] # "@" \/ (words[i][3] = "" /\ words[i][4] # "%") THEN words[i]
       ELSE <<"CONCAT", words[i][2], words[i][3], words[i][4]>>]

\* Mutant of GenerateWhereSQL: a group loses its parentheses.
RECURSIVE GenerateWhereSQLBare(_)
GenerateWhereSQLBare(c) ==
    IF c.leaf THEN convertLikeWildcards(c.expr)
    ELSE IF c.conditions = <<>> THEN Invalid
    ELSE FoldLeftDomain(LAMBDA acc, i : (IF i = 1 THEN acc ELSE acc \o <<<<c.operator>>>>)
                                          \o GenerateWhereSQLBare(c.conditions[i]),
                        <<>>, c.conditions)

\* GenerateWhereSQL: a group is in parentheses; a group of nothing fails it all.
RECURSIVE GenerateWhereSQL(_)
GenerateWhereSQL(c) ==
    IF c.leaf THEN convertLikeWildcards(c.expr)
    ELSE LET parts == [i \in DOMAIN c.conditions |-> GenerateWhereSQL(c.conditions[i])] IN
         IF parts = <<>> \/ Invalid \in Range(parts) THEN Invalid
         ELSE <<<<"(">>>> \o FoldLeftDomain(LAMBDA acc, i : (IF i = 1 THEN acc ELSE acc \o <<<<c.operator>>>>)
                                                              \o parts[i], <<>>, parts)
                \o <<<<")">>>>

-------------------------------------------------------------------------------
(* The fields of Arg *)

\* extractWhereParam: one parameter, in parentheses or not.
extractWhereParam(rest) ==
    LET in == IF Len(rest) >= 2 /\ Head(rest) = <<"(">> /\ Last(rest) = <<")">>
              THEN SubSeq(rest, 2, Len(rest) - 1) ELSE rest
    IN IF Len(in) = 1 /\ in[1][1] = "@" THEN {in[1][2]} ELSE {}

\* parseBetweenFields: a parameter on each side, and not the same.
parseBetweenFields(col, rest) ==
    LET ands == {i \in DOMAIN rest : rest[i] = <<"AND">>}
        at == CHOOSE i \in ands : \A j \in ands : i <= j
        low == extractWhereParam(SubSeq(rest, 1, at - 1))
        high == extractWhereParam(SubSeq(rest, at + 1, Len(rest)))
    IN IF ands = {} \/ low = {} \/ high = {} \/ low = high THEN {}
       ELSE {[col |-> col, field |-> f, slice |-> FALSE] : f \in low \cup high}

\* Mutant of parseWhereExpr: what is compared with several values takes one.
parseWhereExprSingle(words) ==
    LET at == {i \in DOMAIN words : words[i][1] \in {"NOT IN", "BETWEEN", "LIKE", "IN", "="}} IN
    IF at = {} THEN {}
    ELSE {[col |-> SubSeq(words, 1, Min(at) - 1), field |-> f, slice |-> FALSE] :
            f \in extractWhereParam(SubSeq(words, Min(at) + 1, Len(words)))}

\* parseWhereExpr: the operators by their rank, each at its first place.
parseWhereExpr(words) ==
    LET rank == <<"NOT IN", "BETWEEN", "LIKE", "IN", "=">>
        has == {r \in DOMAIN rank : \E i \in DOMAIN words : words[i] = <<rank[r]>>}
        op == rank[Min(has)]
        at == Min({i \in DOMAIN words : words[i] = <<op>>})
        col == SubSeq(words, 1, at - 1)
        rest == SubSeq(words, at + 1, Len(words))
    IN IF has = {} THEN {}
       ELSE IF op = "BETWEEN" THEN parseBetweenFields(col, rest)
       ELSE {[col |-> col, field |-> f, slice |-> op \in {"IN", "NOT IN"}] : f \in extractWhereParam(rest)}

RECURSIVE extractWhereFields(_)
extractWhereFields(c) ==
    IF c.leaf THEN parseWhereExpr(c.expr)
    ELSE UNION {extractWhereFields(c.conditions[i]) : i \in DOMAIN c.conditions}

-------------------------------------------------------------------------------
(* What a call asks *)

\* extractParamName: the first parameter of an expression.
extractParamName(words) ==
    LET at == {i \in DOMAIN words : words[i][1] = "@"} IN
    IF at = {} THEN {} ELSE {words[Min(at)][2]}

\* Mutant of FilterMaskWhereCondition: what no parameter is in goes too.
RECURSIVE FilterMaskConstants(_, _)
FilterMaskConstants(c, m) ==
    IF c.leaf THEN IF extractParamName(c.expr) \cap m # {} THEN <<c>> ELSE <<>>
    ELSE LET kept == FlattenSeq([i \in DOMAIN c.conditions |-> FilterMaskConstants(c.conditions[i], m)])
         IN IF kept = <<>> THEN <<>> ELSE <<Group(c.operator, kept)>>

\* FilterMaskWhereCondition: an expression stays if its parameter is set or it has
\* none, a group if something of it stays.
RECURSIVE FilterMaskWhereCondition(_, _)
FilterMaskWhereCondition(c, m) ==
    IF c.leaf THEN IF extractParamName(c.expr) \subseteq m THEN <<c>> ELSE <<>>
    ELSE LET kept == FlattenSeq([i \in DOMAIN c.conditions |-> FilterMaskWhereCondition(c.conditions[i], m)])
         IN IF kept = <<>> THEN <<>> ELSE <<Group(c.operator, kept)>>

-------------------------------------------------------------------------------
Init ==
    /\ text \in Texts
    /\ stage = "sheet" /\ where = Group("AND", <<>>) /\ sql = <<>> /\ args = {} /\ set = {}

\* The yaml command: an empty cell is no WHERE.
GenerateYAML ==
    /\ stage = "sheet" /\ text # <<>>
    /\ stage' = "yaml" /\ where' = generateWhereCondition(Parse(text))
    /\ UNCHANGED <<text, sql, args, set>>

\* The db command: the statement of the query and its Arg.
GenerateDAO ==
    /\ stage = "yaml"
    /\ where' = ParseWhereCondition(where)
    /\ sql' = GenerateWhereSQL(where') /\ args' = extractWhereFields(where')
    /\ stage' = IF sql' = Invalid THEN "failed" ELSE "code"
    /\ UNCHANGED <<text, set>>

\* BuildWhereFromConfig, with the fields of which the With method was called.
BuildWhereFromConfig(m) ==
    /\ stage = "code"
    /\ set' = m /\ stage' = "asked"
    /\ LET kept == FilterMaskWhereCondition(where, m)
       IN sql' = IF kept = <<>> THEN Invalid ELSE GenerateWhereSQL(kept[1])
    /\ UNCHANGED <<text, where, args>>

Next ==
    \/ GenerateYAML \/ GenerateDAO
    \/ \E m \in SUBSET {a.field : a \in args} : BuildWhereFromConfig(m)

Spec == Init /\ [][Next]_vars

-------------------------------------------------------------------------------
(* What SQL says of a text *)

\* Nesting before word i, and the ANDs and ORs outside of all parentheses.
Depth(w, i) == Cardinality({j \in 1..(i - 1) : w[j] = <<"(">>})
                 - Cardinality({j \in 1..(i - 1) : w[j] = <<")">>})
At(w, op) == {i \in DOMAIN w : /\ w[i] = <<op>> /\ Depth(w, i) = 0
                               /\ ~(op = "AND" /\ i > 2 /\ w[i - 2] = <<"BETWEEN">>)}
\* The parts between them.
Parts(w, cuts) ==
    LET from == {0} \cup cuts
        to(i) == IF \E j \in cuts : j > i THEN Min({j \in cuts : j > i}) ELSE Len(w) + 1
    IN {SubSeq(w, i + 1, to(i) - 1) : i \in from}

\* A pattern is its parameter and wildcards, however they are put together.
Pattern(words) == [i \in DOMAIN words |-> IF words[i][1] = "@" /\ (words[i][3] # "" \/ words[i][4] # "")
                                          THEN <<"CONCAT", words[i][2], words[i][3], words[i][4]>>
                                          ELSE words[i]]

\* AND binds more than OR.  A leaf that is not asked is "none" and says nothing.
RECURSIVE Truth(_, _, _)
Truth(w, true, m) ==
    LET told(cuts) == {Truth(p, true, m) : p \in Parts(w, cuts)} \ {"none"} IN
    IF At(w, "OR") # {} THEN LET t == told(At(w, "OR")) IN
         IF t = {} THEN "none" ELSE IF "yes" \in t THEN "yes" ELSE "no"
    ELSE IF At(w, "AND") # {} THEN LET t == told(At(w, "AND")) IN
         IF t = {} THEN "none" ELSE IF "no" \in t THEN "no" ELSE "yes"
    ELSE IF w # <<>> /\ w[1] = <<"(">> THEN Truth(SubSeq(w, 2, Len(w) - 1), true, m)
    ELSE IF ~(\A i \in DOMAIN w : w[i][1] = "@" => w[i][2] \in m) THEN "none"
    ELSE IF Pattern(w) \in true THEN "yes" ELSE "no"

RECURSIVE Leaves(_)
Leaves(w) ==
    LET cuts == At(w, "OR") \cup At(w, "AND") IN
    IF cuts # {} THEN UNION {Leaves(p) : p \in Parts(w, cuts)}
    ELSE IF w # <<>> /\ w[1] = <<"(">> THEN Leaves(SubSeq(w, 2, Len(w) - 1))
    ELSE {Pattern(w)}

\* No level of the cell has both operators, no level of a part either.
RECURSIVE Unmixed(_)
Unmixed(w) ==
    LET cuts == At(w, "OR") \cup At(w, "AND") IN
    /\ At(w, "OR") = {} \/ At(w, "AND") = {}
    /\ IF cuts # {} THEN \A p \in Parts(w, cuts) : Unmixed(p)
       ELSE w # <<>> /\ w[1] = <<"(">> => Unmixed(SubSeq(w, 2, Len(w) - 1))

\* A call sets both bounds of a BETWEEN or none; the code looks at the first only.
Bounded(w, m) ==
    \A leaf \in Leaves(w) :
        LET named == {leaf[i][2] : i \in {j \in DOMAIN leaf : leaf[j][1] \in {"@", "CONCAT"}}}
        IN named \subseteq m \/ named \cap m = {}

\* A query asks what its cell says: the SQL that the sheet, the YAML file, the
\* generator and the mask of a call lead to is true of the same rows as the text of
\* the cell, in which what is not set is left out (excel/parser_where.go NextToken
\* and parseExpression, both ParseWhereCondition, GenerateWhereSQL and
\* FilterMaskWhereCondition).
MeaningKept ==
    LET m == IF stage = "code" THEN Fields ELSE set IN
    stage \in {"code", "asked"} /\ Unmixed(text) /\ Bounded(text, m) =>
        \A true \in SUBSET Leaves(text) :
            Truth(text, true, m) = IF sql = Invalid THEN "none" ELSE Truth(sql, true, Fields)

\* A cell whose comparisons are a column, an operator and parameters yields a
\* statement whose parameters its Arg can give: each @ has a field, for the column
\* it is compared with, and a slice where IN wants several (parseWhereExpr against
\* the lexer's idea of an expression).  Other ways to write a comparison, with the
\* parameter on the left or in a function, are not among the cells.
ArgsComplete ==
    stage = "code" =>
        \A i \in {j \in DOMAIN text : text[j][1] = "@"} :
            LET col == Max({j \in 1..(i - 1) : text[j][1] = "col"})
            IN [col |-> <<text[col]>>, field |-> text[i][2],
                slice |-> text[col + 1] \in {<<"IN">>, <<"NOT IN">>}] \in args
==============================================================================
