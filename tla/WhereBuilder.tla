----------------------------- MODULE WhereBuilder -----------------------------
(***************************************************************************)
(* The WHERE clause builder of agdb/conditonwhere: chained calls grow a    *)
(* tree of conditions, Build flattens it to SQL text with placeholders and *)
(* a list of arguments.                                                    *)
(*                                                                         *)
(* SQL text is a sequence of parts: a condition with its placeholders, AND *)
(* or OR, or a parenthesized text.  Joining texts splices their parts, so  *)
(* that a missing parenthesis changes what the text means, as it does in   *)
(* SQL.  What the calls say is kept beside it in said.                     *)
(***************************************************************************)
EXTENDS Integers, Sequences, SequencesExt

CONSTANTS
    Conditions,  \* pairs of a column and an operator, "in nothing" for an empty IN
    PrimaryKey,  \* primaryKeyColumns
    Indexes,     \* indexColumns
    MaxCalls     \* bound: chained calls

VARIABLES
    nodes,       \* the WhereCondition objects, in the order of their creation
    root,        \* WhereClauseBuilder.root, 0 for nil
    pending,     \* pendingLogic
    stack,       \* groupStack
    \* History variables
    said,        \* the expression the calls spell, one level per open group
    calls

vars == <<nodes, root, pending, stack, said, calls>>

\* Operators that differ in their text only are one; the values are numbers,
\* all different, so that an argument at the wrong placeholder shows.
Values(op, n) ==
    CASE op \in {"=", "!=", ">", "<", ">=", "<="} -> <<n>>
      [] op = "between" -> <<n, n + 1>>
      [] op \in {"in", "not in"} -> <<n, n + 1>>
      [] OTHER -> <<>>

Init ==
    /\ nodes = <<>> /\ root = 0 /\ pending = "" /\ stack = <<>>
    /\ said = <<[logic |-> "AND", items |-> <<>>]>> /\ calls = 0

-------------------------------------------------------------------------------
(* Calls *)

New == Len(nodes) + 1
Fresh == 10 * calls
Top(s) == s[Len(s)]

\* The logic of the next condition.
Logic == IF pending = "" THEN "AND" ELSE pending

Leaf(f, op, l) == [field |-> f, op |-> op, vals |-> Values(op, Fresh), logic |-> l, children |-> <<>>]

\* The node a new condition is hung under: the innermost open group or the root.
Target == IF stack # <<>> THEN Top(stack) ELSE root

\* ns holds the new objects, the first of them the condition that is added.
Hang(ns) ==
    IF Target = 0 THEN nodes' = nodes \o ns /\ root' = New
    ELSE /\ nodes' = [nodes EXCEPT ![Target].children = Append(@, New)] \o ns
         /\ UNCHANGED root

\* What the calls say: an item joins the innermost open group.
Say(item) == said' = [said EXCEPT ![Len(said)].items = Append(@, item)]
Atom(f, op, l) == [logic |-> l, field |-> f, op |-> op, vals |-> Values(op, Fresh)]

Calls == calls < MaxCalls /\ calls' = calls + 1

\* Eq, Neq, Gt, Lt, Gte, Lte, In, NotIn and Between
Compare(f, op) ==
    /\ Calls
    /\ Hang(<<Leaf(f, op, Logic)>>)
    /\ Say(Atom(f, op, Logic))
    /\ pending' = "" /\ UNCHANGED stack

\* Inside a group a condition without a logic takes that of the group.
Inherited == IF stack # <<>> THEN nodes[Top(stack)].logic ELSE "AND"

\* Mutant of AddCondition: the group's logic also overrides a pending one.
AddConditionInherits(f, op) ==
    /\ Calls
    /\ Hang(<<Leaf(f, op, Inherited)>>)
    /\ Say(Atom(f, op, IF pending # "" THEN pending ELSE Inherited))
    /\ pending' = "" /\ UNCHANGED stack

\* AddCondition and AddConditions with a condition that has no logic of its own.
AddCondition(f, op) ==
    LET logic == IF pending # "" THEN pending ELSE Inherited IN
    /\ Calls
    /\ Hang(<<Leaf(f, op, logic)>>)
    /\ Say(Atom(f, op, logic))
    /\ pending' = "" /\ UNCHANGED stack

\* Or and And
SetLogic(l) ==
    /\ Calls /\ pending' = l /\ UNCHANGED <<nodes, root, stack, said>>

\* ConditionAndGroup and ConditionOrGroup over two conditions: the logic of the
\* conditions is set, the group has none of its own yet.
ConditionGroup(how, f, op, own) ==
    LET inner == IF how = "or" THEN "OR" ELSE "AND" IN
    [objects |-> <<[field |-> "", op |-> "", vals |-> <<>>, logic |-> own, children |-> <<New + 1, New + 2>>],
                   Leaf(f, "=", inner), [Leaf(f, op, inner) EXCEPT !.vals = Values(op, Fresh + 5)]>>,
     item |-> [logic |-> own,
               items |-> <<Atom(f, "=", inner), [Atom(f, op, inner) EXCEPT !.vals = Values(op, Fresh + 5)]>>]]

\* AndGroup keeps the logic of the group itself, OrGroup makes it OR.
GroupLogic(how) == IF how = "or" THEN "OR" ELSE Logic

Adds(group) ==
    /\ Calls /\ Hang(group.objects) /\ Say(group.item)
    /\ pending' = "" /\ UNCHANGED stack

\* Group, AndGroup and OrGroup; and AddCondition with a group made beforehand.
Group(how, f, op) ==
    \/ Adds(ConditionGroup(how, f, op, GroupLogic(how)))
    \/ Adds(ConditionGroup(how, f, op, IF pending # "" THEN pending ELSE Inherited))

\* BeginGroup
BeginGroup ==
    /\ Calls
    /\ Hang(<<[field |-> "", op |-> "", vals |-> <<>>, logic |-> Logic, children |-> <<>>]>>)
    /\ stack' = Append(stack, New)
    /\ said' = Append(said, [logic |-> Logic, items |-> <<>>])
    /\ pending' = ""

\* Closing the innermost group of what was said.
Closed(s) ==
    Append(SubSeq(s, 1, Len(s) - 2), [s[Len(s) - 1] EXCEPT !.items = Append(@, Top(s))])

\* EndGroup: back to the level above, if there is one.
EndGroup ==
    /\ Calls
    /\ stack' = IF stack = <<>> THEN <<>> ELSE Front(stack)
    /\ said' = IF stack = <<>> THEN said ELSE Closed(said)
    /\ UNCHANGED <<nodes, root, pending>>

Next ==
    \/ \E <<f, op>> \in Conditions :
         \/ Compare(f, op) \/ AddCondition(f, op)
         \/ \E how \in {"and", "or"} : Group(how, f, op)
    \/ \E l \in {"AND", "OR"} : SetLogic(l)
    \/ BeginGroup \/ EndGroup

Spec == Init /\ [][Next]_vars

-------------------------------------------------------------------------------
(* Build *)

Word(w) == [word |-> w]
NoSql == [parts |-> <<>>, args |-> <<>>]

\* buildSingleCondition: an IN without values makes no condition.
buildSingleCondition(n) ==
    IF n.op = "in nothing" THEN NoSql
    ELSE [parts |-> <<[field |-> n.field, op |-> n.op, marks |-> Len(n.vals)]>>, args |-> n.vals]

\* needParentheses looks at the connectives of this level only.
needParentheses(parts) == \E i, j \in DOMAIN parts : parts[i] = Word("AND") /\ parts[j] = Word("OR")

\* Joining the texts of the children, each by its own logic.
JoinChild(acc, sql, logic) ==
    IF sql.parts = <<>> THEN acc
    ELSE [parts |-> acc.parts \o (IF acc.parts # <<>> THEN <<Word(logic)>> ELSE <<>>) \o sql.parts,
          args |-> acc.args \o sql.args]

RECURSIVE buildWhereCondition(_)
JoinAll(start, ns) ==
    FoldLeft(LAMBDA acc, c : JoinChild(acc, buildWhereCondition(c), nodes[c].logic), start, ns)

\* Mutant of buildNestedGroup: parentheses only around mixed connectives.
buildGroupSparing(n) ==
    LET sql == JoinAll(NoSql, n.children)
    IN IF ~needParentheses(sql.parts) THEN sql ELSE [sql EXCEPT !.parts = <<[paren |-> @]>>]

\* buildNestedGroup: always in parentheses.
buildNestedGroup(n) ==
    LET sql == JoinAll(NoSql, n.children)
    IN IF sql.parts = <<>> THEN NoSql ELSE [sql EXCEPT !.parts = <<[paren |-> @]>>]

buildWhereCondition(c) ==
    LET n == nodes[c] IN
    IF n.field = "" /\ n.children # <<>> THEN buildNestedGroup(n)
    ELSE LET sql == JoinAll(IF n.field # "" THEN buildSingleCondition(n) ELSE NoSql, n.children)
         IN IF needParentheses(sql.parts) THEN [sql EXCEPT !.parts = <<[paren |-> @]>>] ELSE sql

Build == IF root = 0 THEN NoSql ELSE buildWhereCondition(root)

RECURSIVE collectConditionFields(_)
collectConditionFields(c) ==
    ({nodes[c].field} \ {""})
      \cup UNION {collectConditionFields(nodes[c].children[i]) : i \in DOMAIN nodes[c].children}

\* The leading column is what counts, and it is enough.
isPrimaryKeyUsed(used) == PrimaryKey # <<>> /\ PrimaryKey[1] \in used

\* The first index whose leading column is used, 0 for none.
findMatchingIndex(used) ==
    LET fits == {i \in DOMAIN Indexes : Indexes[i] # <<>> /\ Indexes[i][1] \in used}
    IN  IF fits = {} THEN 0 ELSE CHOOSE i \in fits : \A j \in fits : i <= j

\* BuildWithIndexCheck: the columns of what it says is used, <<>> when there is
\* nothing to say, an error otherwise.
BuildWithIndexCheck ==
    LET used == collectConditionFields(root) IN
    IF Build.parts = <<>> THEN <<>>
    ELSE IF isPrimaryKeyUsed(used) THEN PrimaryKey
    ELSE IF findMatchingIndex(used) # 0 THEN Indexes[findMatchingIndex(used)]
    ELSE <<"error">>

-------------------------------------------------------------------------------
(* What SQL and calls mean: the disjuncts of an expression, each a set of    *)
(* bound conditions or of nested expressions                                *)

IsParen(p) == DOMAIN p = {"paren"}
IsWord(p) == DOMAIN p = {"word"}

RECURSIVE Marks(_)
\* Placeholders in a text.
Marks(parts) ==
    FoldLeft(LAMBDA n, p : n + (IF IsWord(p) THEN 0 ELSE IF IsParen(p) THEN Marks(p.paren) ELSE p.marks),
             0, parts)

RECURSIVE Bound(_, _)
\* The text with its arguments put in for the placeholders, from left to right.
Bound(parts, args) ==
    LET put(acc, p) ==
          LET n == IF IsWord(p) THEN 0 ELSE Marks(<<p>>)
              mine == SubSeq(acc.args, 1, n)
          IN [args |-> SubSeq(acc.args, n + 1, Len(acc.args)),
              out |-> Append(acc.out,
                  IF IsWord(p) THEN p
                  ELSE IF IsParen(p) THEN [paren |-> Bound(p.paren, mine)]
                  ELSE [field |-> p.field, op |-> p.op, vals |-> mine])]
    IN FoldLeft(put, [args |-> args, out |-> <<>>], parts).out

\* The parts at even places are the words between the others.
RECURSIVE Meaning(_)
Meaning(bound) ==
    LET conds == {i \in DOMAIN bound : i % 2 = 1}
        linked(i, j) == \A k \in i..j : k % 2 = 0 => bound[k] = Word("AND")
        one(p) == IF IsParen(p) THEN Meaning(p.paren) ELSE {{[atom |-> p]}}
        term(i) == {j \in conds : linked(IF i < j THEN i ELSE j, IF i < j THEN j ELSE i)}
        \* the conjunction of the disjuncts of each member
        conj(js) == FoldSet(LAMBDA j, acc : {p \cup q : p \in acc, q \in one(bound[j])}, {{}}, js)
    IN UNION {conj(term(i)) : i \in conds}

RECURSIVE Spelled(_)
\* The same for what was said; groups and INs without content say nothing.
Spelled(items) ==
    LET text(it) == IF "items" \in DOMAIN it
                    THEN LET s == Spelled(it.items) IN IF s = <<>> THEN <<>> ELSE <<[paren |-> s]>>
                    ELSE IF it.op = "in nothing" THEN <<>>
                    ELSE <<[field |-> it.field, op |-> it.op, vals |-> it.vals]>>
        join(acc, it) == IF text(it) = <<>> THEN acc
                         ELSE acc \o (IF acc # <<>> THEN <<Word(it.logic)>> ELSE <<>>) \o text(it)
    IN FoldLeft(join, <<>>, items)

RECURSIVE AllClosed(_)
AllClosed(s) == IF Len(s) = 1 THEN s[1].items ELSE AllClosed(Closed(s))

SameMeaning ==
    LET b == Build IN
    /\ Marks(b.parts) = Len(b.args)
    /\ Meaning(Bound(b.parts, b.args)) = Meaning(Spelled(AllClosed(said)))

\* The SQL means what the chained calls say, with AND binding stronger than OR
\* and groups in parentheses, and every placeholder gets its own argument;
\* except that a clause that begins with a group never leaves it.
SqlSaysCalls ==
    root # 0 => (nodes[root].field = "" /\ Len(AllClosed(said)) > 1) \/ SameMeaning

RECURSIVE FieldsIn(_)
FieldsIn(parts) == UNION {IF IsWord(parts[i]) THEN {} ELSE IF IsParen(parts[i]) THEN FieldsIn(parts[i].paren)
                          ELSE {parts[i].field} : i \in DOMAIN parts}

\* The index that BuildWithIndexCheck names has its leading column in the SQL,
\* and it refuses a clause only when no leading column is there; an IN without
\* values counts although it is left out of the SQL.
IndexIsUsed ==
    Build.parts # <<>> =>
      LET empty == {nodes[i].field : i \in {j \in DOMAIN nodes : nodes[j].op = "in nothing"}}
          leading == {s[1] : s \in {t \in {PrimaryKey} \cup ToSet(Indexes) : t # <<>>}}
          named == BuildWithIndexCheck
      IN  IF named = <<"error">> THEN FieldsIn(Build.parts) \cap leading = {}
          ELSE named[1] \in FieldsIn(Build.parts) \cup empty

\* EndGroup ends the group: conditions that follow it are outside.
EndGroupLeaves == root # 0 => SameMeaning
===============================================================================
