---------------------------- MODULE TableGenerator ----------------------------
(***************************************************************************)
(* gen-go-db: the yaml command makes the YAML file of a table from its     *)
(* sheets, the db command makes the model and the DAO files of all tables  *)
(* from their YAML files, one file after the other, and a later round      *)
(* overwrites only the files it makes itself.                              *)
(*                                                                         *)
(* Of a file the model keeps the names it declares and those it refers to, *)
(* the packages it imports and uses, and the artefacts GeneratedTables     *)
(* lists.  Formatting is left out; a WHERE is the comparisons in it        *)
(* (WhereText has its operators).                                          *)
(***************************************************************************)
EXTENDS GeneratedTables, SequencesExt

CONSTANTS
    Sheets,       \* [tables -> sets of sheets]
    Packages,     \* the sets of tables that one repository package may have
    DbTypes,      \* the arguments of -d, in capitals
    Lower,        \* [names with capitals -> the same in small letters]
    MaxEdits,     \* bound: runs of the yaml command after the first of each table
    MaxRounds,    \* bound: runs of the db command
    MaxFailures   \* bound: writes that fail

VARIABLES
    yaml,         \* [tables -> YAML file or NoFile]
    files,        \* [<<table, kind>> -> file], of the files on disk
    round,        \* the db command that runs, or NoRound
    used,         \* [edits, rounds, failures]
    \* History variable
    complete,     \* [tables -> the sheet and dbType of the round that made all its files]
    torn          \* the tables of which a failed round has made some files

vars == <<yaml, files, round, used, complete, torn>>

Tables == DOMAIN yaml
NoFile == [file |-> FALSE]
NoRound == [todo |-> <<>>]
NotMade == [made |-> FALSE]

Init ==
    /\ \E package \in Packages :
         yaml = [t \in package |-> NoFile] /\ complete = [t \in package |-> NotMade]
    /\ files = <<>> /\ round = NoRound /\ torn = {}
    /\ used = [edits |-> 0, rounds |-> 0, failures |-> 0]

-------------------------------------------------------------------------------
(* The yaml command *)

\* The section a row is in: that of the last header before it.
Section(rows, i) ==
    LET headers == {j \in 1..i : "header" \in DOMAIN rows[j]}
    IN IF headers = {} THEN "none" ELSE rows[Max(headers)].header

\* The rows of a section, without the header.
RowsOf(rows, section) ==
    LET at == SelectSeq([i \in DOMAIN rows |-> i],
                        LAMBDA i : "header" \notin DOMAIN rows[i] /\ Section(rows, i) = section)
    IN [i \in DOMAIN at |-> rows[at[i]]]

\* ParseExcel: a column needs nine cells, the key the label PRIMARY_KEY; constraints
\* and indexes are their columns.
ParseExcel(rows) ==
    [columns |-> SelectSeq(RowsOf(rows, "columns"), LAMBDA r : r.cells >= 9),
     primary_key |-> FlattenSeq([i \in DOMAIN RowsOf(rows, "pk") |-> RowsOf(rows, "pk")[i].columns]),
     constraints |-> [i \in DOMAIN RowsOf(rows, "constraints") |-> RowsOf(rows, "constraints")[i].columns],
     indexes |-> [i \in DOMAIN RowsOf(rows, "indexes") |-> RowsOf(rows, "indexes")[i].columns]]

\* processWhereParam: the parameters that were declared, then those of the template
\* that were not, typed by the column of that name or by nothing.
processWhereParam(q, columns) ==
    LET declared == {q.declared[i].field : i \in DOMAIN q.declared}
        rest == SelectSeq(q.template, LAMBDA f : f \notin declared)
        typed(f) == LET named == {i \in DOMAIN columns : columns[i].field = f} IN
                    IF named = {} THEN [field |-> f, col |-> "", type |-> ""]
                    ELSE [field |-> f, col |-> columns[Min(named)].name, type |-> columns[Min(named)].type]
    IN q.declared \o [i \in DOMAIN rest |-> typed(rest[i])]

\* processCustomScriptSheet: a query has its WHERE or, after the row that says
\* so, a template and its parameters.
processCustomScriptSheet(custom, columns) ==
    [n \in DOMAIN custom |->
       [select |-> custom[n].select, page |-> custom[n].page, dynamic |-> custom[n].dynamic,
        where |-> IF custom[n].dynamic THEN <<>> ELSE custom[n].where,
        params |-> IF custom[n].dynamic THEN processWhereParam(custom[n], columns) ELSE <<>>]]

\* GenerateYAML
GenerateYAML(sheet) ==
    LET info == ParseExcel(sheet.rows) IN
    [file |-> TRUE, columns |-> info.columns, primary_key |-> info.primary_key,
     constraints |-> info.constraints, indexes |-> info.indexes,
     self_query_rules |-> processCustomScriptSheet(sheet.custom, info.columns), sheet |-> sheet]

\* GenerateYAMLFromExcel with -T and the name of the table.
GenerateYAMLFromExcel(t, sheet) ==
    /\ round = NoRound
    /\ yaml[t] = NoFile \/ used.edits < MaxEdits
    /\ used' = IF yaml[t] = NoFile THEN used ELSE [used EXCEPT !.edits = @ + 1]
    /\ yaml' = [yaml EXCEPT ![t] = GenerateYAML(sheet)]
    /\ UNCHANGED <<files, round, complete, torn>>

-------------------------------------------------------------------------------
(* Parsing a YAML file *)

\* getGoType knows these words; the others are issues.
getGoType ==
    [int |-> "int", int32 |-> "int", tinyint |-> "int", smallint |-> "int",
     int64 |-> "int64", bigint |-> "int64",
     float |-> "float64", float32 |-> "float64", double |-> "float64", float64 |-> "float64",
     decimal |-> "decimal", string |-> "string", varchar |-> "string", char |-> "string",
     text |-> "string", bool |-> "bool", boolean |-> "bool",
     time |-> "time", datetime |-> "time", timestamp |-> "time", date |-> "time"]

\* normalizeGoType: a pointer stays one, and needs the same package.
normalizeGoType(type) == type \in DOMAIN getGoType
Column(c) == [name |-> c.name, tags |-> c.tags, update |-> c.update,
              goType |-> IF "optimisticlock" \in c.tags THEN "optimisticlock" ELSE getGoType[c.type]]

\* Constraints are indexes too, unless they have no column.
Indexes(y) == y.indexes \o SelectSeq(y.constraints, LAMBDA c : c # <<>>)

\* extractWhereFields, or the parameters of a template, which bring their type.
Fields(q) ==
    IF q.params # <<>>
    THEN [i \in DOMAIN q.params |-> [field |-> q.params[i].field, col |-> q.params[i].col,
                                     goType |-> getGoType[q.params[i].type]]]
    ELSE [i \in DOMAIN q.where |-> [field |-> q.where[i].field, col |-> q.where[i].col, goType |-> ""]]

\* ParseYAML: one type it does not know, and there is no table.
Issues(y) ==
    {c \in ToSet(y.columns) : ~normalizeGoType(c.type)}
      \cup UNION {{p \in ToSet(y.self_query_rules[n].params) : ~normalizeGoType(p.type)} :
                    n \in DOMAIN y.self_query_rules}
\* The import packages of the types, noted before the lock column gets its own.
TypePackages(y) ==
    ({getGoType[c.type] : c \in ToSet(y.columns)} \cap {"time", "decimal"})
      \cup {"optimisticlock" : c \in {d \in ToSet(y.columns) : "optimisticlock" \in d.tags}}
      \cup (UNION {{getGoType[p.type] : p \in ToSet(y.self_query_rules[n].params)} :
                     n \in DOMAIN y.self_query_rules} \cap {"time", "decimal"})
ParseYAML(y) ==
    [columns |-> [i \in DOMAIN y.columns |-> Column(y.columns[i])],
     primaryKeys |-> y.primary_key, indexes |-> Indexes(y), packages |-> TypePackages(y),
     queries |-> [n \in DOMAIN y.self_query_rules |->
                    [select |-> y.self_query_rules[n].select, page |-> y.self_query_rules[n].page,
                     dynamic |-> y.self_query_rules[n].dynamic,
                     where |-> y.self_query_rules[n].where # <<>>,
                     fields |-> Fields(y.self_query_rules[n])]],
     sheet |-> y.sheet]

\* checkQueryArgsIndexes: a query that compares something compares the first column
\* of the key, or the first of an index and no column of the key, in any spelling.
EqualFold(a, b) == LET fold(w) == IF w \in DOMAIN Lower THEN Lower[w] ELSE w IN fold(a) = fold(b)
checkQueryArgsIndexes(d) ==
    \A n \in DOMAIN d.queries :
        LET fields == d.queries[n].fields
            \* the first field that is in the key ends the search
            hits == {i \in DOMAIN fields : \E pk \in ToSet(d.primaryKeys) : EqualFold(pk, fields[i].col)}
        IN \/ fields = <<>>
           \/ hits # {} /\ (Len(d.primaryKeys) > 1 =>
                              EqualFold(fields[Min(hits)].col, Head(d.primaryKeys)))
           \/ hits = {} /\ \E i \in DOMAIN d.indexes : \E f \in ToSet(fields) :
                             d.indexes[i] # <<>> /\ EqualFold(Head(d.indexes[i]), f.col)

-------------------------------------------------------------------------------
(* The model file *)

Names(d) == {c.name : c \in ToSet(d.columns)}
isIndexColumn(d, name) ==
    name \in ToSet(d.primaryKeys) \/ \E i \in DOMAIN d.indexes : name \in ToSet(d.indexes[i])
isSpecialColumn(c) == c.tags \cap {"create", "update", "javaVersion", "optimisticlock"} # {}

\* buildFieldChecks: the first role that fits.
buildFieldChecks(d) ==
    LET primary == {c \in ToSet(d.columns) : c.name \in ToSet(d.primaryKeys)}
        index == {c \in ToSet(d.columns) : isIndexColumn(d, c.name)} \ primary
        special == {c \in ToSet(d.columns) : isSpecialColumn(c)} \ (primary \cup index)
        names(s) == {c.name : c \in s}
    IN Roles(names(primary), names(index), names(special),
             names(ToSet(d.columns) \ (primary \cup index \cup special)))

\* generateGormTag: the columns of an index by their priorities, which only columns
\* of the table have.
generateGormTag(d) ==
    {ix \in {SelectSeq(d.indexes[i], LAMBDA c : c \in Names(d)) : i \in DOMAIN d.indexes} : ix # <<>>}

\* generateIndexLeadingColsBlock
generateIndexLeadingColsBlock(d) ==
    (IF d.primaryKeys # <<>> THEN {Head(d.primaryKeys)} ELSE {})
      \cup {Head(d.indexes[i]) : i \in {j \in DOMAIN d.indexes : d.indexes[j] # <<>>}}

hasWhereDataToYAMLCache(d) == \E n \in DOMAIN d.queries : d.queries[n].where

\* generateImports
generateImports(d) ==
    {"fmt"} \cup d.packages
      \cup (IF \E n \in DOMAIN d.queries : d.queries[n].page THEN {"gormdb"} ELSE {})
      \cup (IF d.queries # <<>> THEN {"conditonwhere"} ELSE {})
      \cup (IF hasWhereDataToYAMLCache(d) THEN {"yaml"} ELSE {})

\* generateQueryArgStruct: a field is typed by the template or by a column of the
\* same spelling, and left out without either.
generateQueryArgStruct(d, n) ==
    SelectSeq(d.queries[n].fields, LAMBDA f : f.goType # "" \/ f.col \in Names(d))

Res(q, n) == IF q.select = "*" THEN <<"struct">> ELSE <<n, "Res">>

\* buildQueryBlocks: what they declare, and what ConvertToMap and the page refer to.
QueryNames(d, n) ==
    {<<n, "Arg">>} \cup {<<n, "Arg", f.field>> : f \in ToSet(generateQueryArgStruct(d, n))}
      \cup (IF d.queries[n].page THEN {<<n, "Arg", "Page">>, <<n, "PageRes">>} ELSE {})
      \cup (IF d.queries[n].select # "*" THEN {<<n, "Res">>} ELSE {})
QueryRefers(d, n) ==
    {<<n, "Arg", f.field>> : f \in ToSet(d.queries[n].fields)}
      \cup (IF d.queries[n].page THEN {<<n, "Arg", "Page">>, Res(d.queries[n], n)} ELSE {})

\* BuildModelTemplateData and model.go.tmpl
GetModelTemplate(d) ==
    LET leading == generateIndexLeadingColsBlock(d) IN
    [declares |-> {<<"struct">>} \cup UNION {QueryNames(d, n) : n \in DOMAIN d.queries}
                    \cup (IF leading # {} THEN {<<"IndexLeadingCols">>} ELSE {})
                    \cup (IF hasWhereDataToYAMLCache(d) THEN {<<"ConditionMap">>} ELSE {}),
     twice |-> {n \in DOMAIN d.queries :
                  LET args == generateQueryArgStruct(d, n)
                  IN \E i, j \in DOMAIN args : i # j /\ args[i].field = args[j].field},
     refers |-> UNION {QueryRefers(d, n) : n \in DOMAIN d.queries},
     imports |-> generateImports(d), compares |-> {},
     uses |-> {"fmt"} \cup {c.goType : c \in ToSet(d.columns)}
                \cup UNION {{f.goType : f \in ToSet(generateQueryArgStruct(d, n))} : n \in DOMAIN d.queries}
                \cup (IF \E n \in DOMAIN d.queries : d.queries[n].page THEN {"gormdb"} ELSE {})
                \cup (IF d.queries # <<>> THEN {"conditonwhere"} ELSE {})
                \cup (IF hasWhereDataToYAMLCache(d) THEN {"yaml"} ELSE {}),
     artefacts |-> [cols |-> Names(d), pk |-> d.primaryKeys, indexes |-> generateGormTag(d),
                    lock |-> {c.name : c \in {e \in ToSet(d.columns) : e.goType = "optimisticlock"}},
                    roles |-> buildFieldChecks(d), leading |-> leading]]

-------------------------------------------------------------------------------
(* The files of the DAO *)

\* Mutant of GuardIndexes: the last column of an index is as good as the first.
GuardIndexesAny(d) == {Last(d.indexes[i]) : i \in {j \in DOMAIN d.indexes : d.indexes[j] # <<>>}} \cap Names(d)

GuardPKCond(d) == IF d.primaryKeys = <<>> THEN {} ELSE {Head(d.primaryKeys)}
GuardIndexes(d) == {Head(d.indexes[i]) : i \in {j \in DOMAIN d.indexes : d.indexes[j] # <<>>}} \cap Names(d)
PKZeroCond(d) == ToSet(d.primaryKeys) \cap Names(d)

\* PKQueryZeroCond: a key of one column is compared with a literal, that of the
\* numbers unless it is a string or a boolean; one of several, field by field, in
\* the form ZeroCheckExpr has for each type.
PKQueryZeroCond(d) ==
    LET keys == {c \in ToSet(d.columns) : c.name \in ToSet(d.primaryKeys)} IN
    IF Cardinality(keys) # 1 THEN {}
    ELSE {[type |-> c.goType, literal |-> IF c.goType \in {"string", "bool"} THEN c.goType ELSE "number"] :
            c \in keys}
findLockCol(d) == {c.name : c \in {e \in ToSet(d.columns) : "optimisticlock" \in e.tags}}

\* DoMethods: every query asks the condition map and the leading columns; a template
\* always has pages.
DoMethod(q, n) ==
    {<<n, "Arg">>, <<"ConditionMap">>, <<"IndexLeadingCols">>, <<"NamingSqlMap">>, Res(q, n)}
      \cup (IF q.dynamic \/ q.page THEN {<<n, "PageRes">>, <<n, "Arg", "Page">>} ELSE {})

GetDaoTemplate(d) ==
    [declares |-> {<<"Dao">>}, twice |-> {}, imports |-> {}, uses |-> {}, compares |-> PKQueryZeroCond(d),
     refers |-> {<<"struct">>} \cup UNION {DoMethod(d.queries[n], n) : n \in DOMAIN d.queries}
                  \cup (IF d.queries # <<>> THEN {<<"InitNamingSql">>} ELSE {}),
     artefacts |-> [used |-> GuardPKCond(d) \cup GuardIndexes(d), find |-> PKZeroCond(d),
                    update |-> [key |-> PKZeroCond(d), valid |-> findLockCol(d)]]]

\* BuildConstantData: the info of a query, named after the query alone.
GetConstantTemplate(d) ==
    [declares |-> {<<"NamingSqlMap">>} \cup {<<n, "NamingInfo">> : n \in DOMAIN d.queries},
     twice |-> {}, imports |-> {}, uses |-> {}, compares |-> {},
     refers |-> UNION {{<<n, "Arg">>, IF d.queries[n].page THEN <<n, "PageRes">> ELSE Res(d.queries[n], n)} :
                         n \in DOMAIN d.queries},
     artefacts |-> <<>>]

\* Mutant of BuildNamingSqlData: both databases are always initialised.
BuildNamingSqlDataBoth(dbType) == {"MYSQL", "DB2"}

BuildNamingSqlData(dbType) == IF dbType = "" THEN {"MYSQL", "DB2"} ELSE {dbType}
GetNamingSqlTemplate(dbType) ==
    [declares |-> {<<"InitNamingSql">>}, twice |-> {}, imports |-> {}, uses |-> {}, compares |-> {},
     refers |-> {<<"Init", db>> : db \in BuildNamingSqlData(dbType)},
     artefacts |-> [databases |-> BuildNamingSqlData(dbType)]]

\* BuildDBTypeNamingSqlData: the statements and their registration.
GetDBTypeNamingSqlTemplate(d, db) ==
    LET statements(n) == {<<db, n>>} \cup (IF d.queries[n].page THEN {<<db, n, "Count">>} ELSE {})
    IN [declares |-> {<<"Init", db>>} \cup UNION {statements(n) : n \in DOMAIN d.queries},
        twice |-> {}, imports |-> {}, uses |-> {}, compares |-> {},
        refers |-> {<<"NamingSqlMap">>} \cup UNION {statements(n) : n \in DOMAIN d.queries},
        artefacts |-> <<>>]

-------------------------------------------------------------------------------
(* The db command *)

\* The files of a table, in the order of GenerateModel and GenerateDAO.
Kinds(d, dbType) ==
    <<"model", "dao", "constant">>
      \o (IF d.queries = <<>> THEN <<>>
          ELSE <<"namingsql">> \o (IF dbType = "" THEN <<"MYSQL", "DB2">> ELSE <<dbType>>))
Content(d, kind, dbType) ==
    CASE kind = "model" -> GetModelTemplate(d)
      [] kind = "dao" -> GetDaoTemplate(d)
      [] kind = "constant" -> GetConstantTemplate(d)
      [] kind = "namingsql" -> GetNamingSqlTemplate(dbType)
      [] OTHER -> GetDBTypeNamingSqlTemplate(d, kind)

\* GenerateDAOFromYAML: a database it does not know, or a type in any YAML file,
\* and nothing is made; else the tables that are asked for, or all, one by one.
GenerateDAOFromYAML(asked, dbType, dry) ==
    LET present == {t \in Tables : yaml[t] # NoFile}
        chosen == IF asked = {} THEN present ELSE asked \cap present
    IN
    /\ round = NoRound /\ used.rounds < MaxRounds
    /\ used' = [used EXCEPT !.rounds = @ + 1]
    /\ round' = IF /\ dbType \in {"", "MYSQL", "DB2"} /\ chosen # {}
                   /\ \A t \in present : Issues(yaml[t]) = {}
                THEN [todo |-> SetToSeq(chosen), dbType |-> dbType, dry |-> dry, at |-> 1,
                      data |-> [t \in present |-> ParseYAML(yaml[t])]]
                ELSE NoRound
    /\ UNCHANGED <<yaml, files, complete, torn>>

\* What comes before a file is written: the check of the queries, and a guard that
\* needs the first column of the key (GuardPKCond dereferences what it did not find).
Renders(d, kind) ==
    /\ kind = "model" => checkQueryArgsIndexes(d)
    /\ kind = "dao" => GuardPKCond(d) \subseteq Names(d)

\* The next file is written; a dry run writes to a directory of its own.
WriteFile ==
    LET t == Head(round.todo)
        d == round.data[t]
        kinds == Kinds(d, round.dbType)
        last == round.at = Len(kinds)
    IN /\ round.todo # <<>> /\ Renders(d, kinds[round.at])
       /\ files' = IF round.dry THEN files
                   ELSE (<<t, kinds[round.at]>> :> Content(d, kinds[round.at], round.dbType)) @@ files
       /\ complete' = IF round.dry THEN complete
                      ELSE [complete EXCEPT ![t] =
                              IF last THEN [made |-> TRUE, sheet |-> d.sheet, dbType |-> round.dbType]
                              ELSE NotMade]
       /\ torn' = IF last /\ ~round.dry /\ d.queries # <<>> THEN torn \ {t} ELSE torn
       /\ round' = IF ~last THEN [round EXCEPT !.at = @ + 1]
                   ELSE IF Len(round.todo) = 1 THEN NoRound
                   ELSE [round EXCEPT !.at = 1, !.todo = Tail(@)]
       /\ UNCHANGED <<yaml, used>>

\* A query without an index, a key without its column, or a write that fails ends
\* the round.
Fails ==
    /\ round.todo # <<>>
    /\ \/ LET d == round.data[Head(round.todo)]
          IN ~Renders(d, Kinds(d, round.dbType)[round.at]) /\ UNCHANGED used
       \/ used.failures < MaxFailures /\ used' = [used EXCEPT !.failures = @ + 1]
    /\ torn' = IF round.at > 1 /\ ~round.dry THEN torn \cup {Head(round.todo)} ELSE torn
    /\ round' = NoRound
    /\ UNCHANGED <<yaml, files, complete>>

Next ==
    \/ \E t \in Tables : \E sheet \in Sheets[t] : GenerateYAMLFromExcel(t, sheet)
    \/ \E asked \in SUBSET Tables, dbType \in DbTypes, dry \in BOOLEAN :
         GenerateDAOFromYAML(asked, dbType, dry)
    \/ WriteFile \/ Fails

Spec == Init /\ [][Next]_vars

-------------------------------------------------------------------------------
\* The sheets whose code compiles: the rest is accepted as well.  The columns of
\* the key and of the queries are columns of the table, a key of one column is a
\* string, a boolean or a number, no parameter is used twice in a query, a template
\* has pages and, as every query asks the condition map, some query has a WHERE and a
\* leading column, and the lock is no time or decimal.
Supported(t) ==
    LET d == ParseYAML(GenerateYAML(complete[t].sheet)) IN
    /\ ToSet(d.primaryKeys) \subseteq Names(d)
    /\ \A c \in ToSet(d.columns) :
         ToSet(d.primaryKeys) = {c.name} => c.goType \notin {"time", "decimal", "optimisticlock"}
    /\ \A n \in DOMAIN d.queries :
         LET q == d.queries[n] IN
         /\ \A f \in ToSet(q.fields) : f.goType = "" => f.col \in Names(d)
         /\ \A i, j \in DOMAIN q.fields : i # j => q.fields[i].field # q.fields[j].field
         /\ q.dynamic => q.page
    /\ d.queries # <<>> => hasWhereDataToYAMLCache(d) /\ generateIndexLeadingColsBlock(d) # {}
    /\ d.packages \subseteq {c.goType : c \in ToSet(d.columns)}
         \cup UNION {{f.goType : f \in ToSet(d.queries[n].fields)} : n \in DOMAIN d.queries}

\* The tables whose files one round made to the end, and no later one has begun again.
Made == {t \in Tables : complete[t].made /\ Supported(t)}

\* A name in the package: it begins with that of the table, but for the info of a
\* query, which is named after the query alone.
InPackage(t, names) == {IF Last(n) = "NamingInfo" THEN n ELSE <<t>> \o n : n \in names}
Declares(f) == InPackage(f[1], files[f].declares)
Refers(f) == InPackage(f[1], files[f].refers)

\* What a failed round leaves for good: its namingsql file calls the Init of files
\* that were not made any more, and a later round for the table without its queries
\* does not remove that file.
LeftOver(f) == IF f[1] \in torn /\ f[2] = "namingsql" THEN files[f].refers ELSE {}

\* What the rounds leave compiles.  Of a supported table that a round has made to the
\* end, every file on disk, old ones included, uses only names that some file of the
\* package declares, imports what it uses and compares a key with a literal of its
\* type, whatever rounds failed before; the exception is a left-over namingsql file.
\* And no name is declared twice in the package, by tables that are torn either,
\* but the info of a query of that name in two tables (GenerateDAO writes up to six
\* files of which later rounds, with another -d, other queries or a failure, rewrite
\* only some).
PackageBuilds ==
    /\ \A f \in {g \in DOMAIN files : g[1] \in Made} :
         /\ Refers(f) \subseteq UNION {Declares(g) : g \in DOMAIN files} \cup InPackage(f[1], LeftOver(f))
         /\ files[f].twice = {} /\ files[f].imports \subseteq files[f].uses
         /\ \A c \in files[f].compares : c.literal = "number" => c.type \in {"int", "int64", "float64"}
    /\ \A f, g \in DOMAIN files : f # g =>
         \A n \in Declares(f) \cap Declares(g) : f[1] # g[1] /\ Last(n) = "NamingInfo"

\* The generator still makes of a sheet what the repository package holds: the
\* artefacts of GeneratedTables that the last complete round made agree with the
\* table of that name, its databases when that round was for MYSQL alone (the
\* repository's own files are made by hand-run rounds).
RepositoryReproduced ==
    \A t \in {s \in Tables : s \in DOMAIN TableOf /\ complete[s].made} :
        LET model == files[<<t, "model">>].artefacts
            dao == files[<<t, "dao">>].artefacts
        IN /\ \A a \in DOMAIN model : model[a] = TableOf[t][a]
           /\ \A a \in DOMAIN dao : dao[a] = TableOf[t][a]
           /\ complete[t].dbType = "MYSQL" /\ <<t, "namingsql">> \in DOMAIN files =>
                files[<<t, "namingsql">>].artefacts.databases = TableOf[t].databases
===============================================================================
