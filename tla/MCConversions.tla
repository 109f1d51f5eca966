---------------------------- MODULE MCConversions ----------------------------
(***************************************************************************)
(* Model checking the parts that one goroutine at a time uses and that     *)
(* turn one form of data into another: the ring buffer, the frames of a    *)
(* connection, the builder of conditions, the conditions of a sheet, the   *)
(* generator of repositories and the binder.  They do not interact: part   *)
(* says which of them the behaviour is about, the others stay as they are. *)
(***************************************************************************)
EXTENDS RingBuffer, FiniteSets, SequencesExt

VARIABLES
    part,
    codec, sent, wire, buffer, ring, pool, wakes, open, out, conns, refused,  \* Inbound
    nodes, root, pending, stack, said, calls,                                 \* WhereBuilder
    text, stage, where, sql, args, set,                                       \* WhereText
    yaml, files, round, used, complete, torn,                                 \* TableGenerator
    env, object, state, changes, before                                       \* Binding

frameVars == <<codec, sent, wire, buffer, ring, pool, wakes, open, out, conns, refused>>
clauseVars == <<nodes, root, pending, stack, said, calls>>
cellVars == <<text, stage, where, sql, args, set>>
generatorVars == <<yaml, files, round, used, complete, torn>>
binderVars == <<env, object, state, changes, before>>
MCVars == <<vars, part, frameVars, clauseVars, cellVars, generatorVars, binderVars>>

\* Every kind of length field that four-valued bytes allow, with the field in the
\* length or an adjustment or neither, with and without a header before it and bytes
\* to strip.  A field of characters has no byte order; a header is stripped.
Codecs ==
    {k \in [str : BOOLEAN, order : {"big", "little"}, len : 1..3, offset : {0, 1},
            encAdjust : {-1, 0}, includes : BOOLEAN, strip : {0, 2}, max : {10}] :
       /\ k.str => k.order = "big"
       /\ k.offset <= k.strip
       /\ k.includes => k.encAdjust = 0}

Frames == INSTANCE Inbound WITH
    Base <- 4, WordLen <- 3, Bodies <- {<<>>, <<1>>, <<2, 3>>},
    MaxFrames <- 2, MaxConns <- 2, MaxRefusals <- 1, rb <- ring

Clauses == INSTANCE WhereBuilder WITH
    Conditions <- {<<"a", "in nothing">>, <<"b", "between">>, <<"c", "=">>},
    PrimaryKey <- <<"a", "c">>, Indexes <- <<<<>>, <<"d">>, <<"b", "a">>>>, MaxCalls <- 4

-------------------------------------------------------------------------------
(* The conditions of a sheet: every form, alone, in pairs, and nested twice. *)

Col(c) == <<"col", c>>
Const(c) == <<"const", c>>
Param(p) == <<"@", p, "", "">>
Paren(w) == <<<<"(">>>> \o w \o <<<<")">>>>
Equals == <<Col("a"), <<"=">>, Param("A")>>
OneOf == <<Col("b"), <<"IN">>>> \o Paren(<<Param("B")>>)
Constant == <<Col("g"), <<"=">>, Const("2")>>
Between == <<Col("c"), <<"BETWEEN">>, Param("C"), <<"AND">>, Param("D")>>
Like == <<Col("d"), <<"LIKE">>, <<"@", "E", "%", "">>>>
SubQuery ==
    <<Col("e"), <<"NOT IN">>>>
      \o Paren(<<<<"SELECT">>, <<"WHERE">>>> \o Paren(Constant \o <<<<"OR">>>> \o Constant)
                 \o <<<<"AND">>>> \o Constant)
Forms == {Equals, OneOf, Between, Like, SubQuery}
Few == {Equals, OneOf, Constant}
Join(v, o, w) == v \o <<<<o>>>> \o w
Pairs(some) == {Join(v, o, w) : v \in some, o \in {"AND", "OR"}, w \in some}
Groups(some) == {Paren(w) : w \in some}
Cells ==
    Pairs(Forms \cup Groups(Pairs({Equals, SubQuery})))
      \cup Pairs(Few \cup Groups(Pairs(Few)))
      \cup {Join(Join(v, o, Paren(Join(w, q, Paren(Join(v, o, w))))), o, w) :
              v, w \in Few, o, q \in {"AND", "OR"}}
      \cup Groups(Groups(Forms)) \cup {<<>>, Paren(<<>>)}

Cell == INSTANCE WhereText WITH Texts <- Cells, Fields <- {"A", "B", "C", "D", "E"}

-------------------------------------------------------------------------------
(* The tables of the repository, and two that have every kind of query. *)

Column(name, field, type, tags) ==
    [cells |-> 9, name |-> name, field |-> field, type |-> type, tags |-> tags, update |-> TRUE]
Strings(names) ==
    LET s == FoldSet(LAMBDA name, seq : Append(seq, name), <<>>, names) 
    IN [i \in DOMAIN s |-> Column(s[i], s[i], "string", {})]
Header(h) == <<[header |-> h]>>
Rows(lists) == [i \in DOMAIN lists |-> [columns |-> lists[i]]]
Sheet(cols, pk, unique, indexes, custom) ==
    [rows |-> Header("columns") \o cols
                \o Header("pk") \o (IF pk = <<>> THEN <<>> ELSE Rows(<<pk>>))
                \o Header("constraints") \o Rows(unique) \o Header("indexes") \o Rows(indexes),
     custom |-> custom]
Condition(col, field) == [col |-> col, field |-> field]
Query(select, page, conditions) ==
    [select |-> select, page |-> page, dynamic |-> FALSE, where |-> conditions]
Dynamic(page, declared, template) ==
    [select |-> "*", page |-> page, dynamic |-> TRUE, declared |-> declared, template |-> template]

Times == <<Column("create_time", "CreateTime", "time", {"create"}),
           Column("last_update_time", "LastUpdateTime", "time", {"update"})>>
Version(tags) == <<Column("jpa_version", "JpaVersion", "int64", {"javaVersion"} \cup tags)>>
Student ==
    <<Column("score", "Score", "decimal", {}), Column("is_graduate", "IsGraduate", "bool", {})>>
      \o Strings({"tenant_id", "student_no", "name", "address", "phone", "class_id", "card_no",
                  "enroll_date"})
      \o Version({}) \o Times
StudentIndexes == <<<<"card_no">>, <<"phone">>, <<"class_id">>, <<"name", "address">>>>
Teacher ==
    Strings({"id", "name", "address", "phone", "class_id", "card_no", "time_pointer", "bool_test"})
      \o <<Column("salary", "Salary", "decimal", {})>> \o Version({"optimisticlock"}) \o Times


Tables == INSTANCE GeneratedTables
Request == Tables!Tbl3dsRequestStruct.cols
NoQueries == <<>>
Repository == [
    tm_teacher |-> Sheet(Teacher, <<"id">>, <<<<"card_no">>, <<"phone">>>>,
        <<<<"class_id">>, <<"name", "address">>>>,
        [FindByNameNadAddress |->
            Query("some", FALSE, <<Condition("name", "Name"), Condition("address", "Address")>>),
         FindByPhone |-> Query("*", TRUE, <<Condition("phone", "Phone")>>)]),
    tbl_3ds_request |-> Sheet(
        Strings(Request \ {"INSERT_TIMESTAMP"})
          \o <<Column("INSERT_TIMESTAMP", "InsertTimestamp", "time", {"create"})>>,
        <<"ID", "CLUSTER_ID">>,
        <<<<"RETRIEVAL_REFERENCE_NUMBER", "MERCHANT_ID", "TRANSACTION_TYPE">>>>,
        <<<<"INSERT_TIMESTAMP">>, <<"ORDER_ID", "MERCHANT_ID">>>>,
        [Xxxxx |-> Query("*", FALSE, <<Condition("RETRIEVAL_REFERENCE_NUMBER", "RRN")>>)]),
    tm_student |-> Sheet(Student, <<"tenant_id", "student_no">>, <<>>, StudentIndexes, NoQueries),
    tm_no_index |-> Sheet(Student, <<"tenant_id", "student_no">>, <<>>, <<>>, NoQueries),
    tm_no_primary |-> Sheet(Student, <<>>, <<>>, StudentIndexes, NoQueries),
    tm_no |-> Sheet(Student, <<>>, <<>>, <<>>, NoQueries)]

Two == <<Column("a", "A", "int", {}), Column("b", "B", "time", {"create"})>>
AnyQueries == {
    NoQueries,
    [Find |-> Query("*", FALSE, <<Condition("a", "Z"), Condition("b", "Z")>>),
     Tmpl |-> Dynamic(TRUE, <<[field |-> "Q", col |-> "", type |-> "decimal"]>>, <<"Q", "A">>)],
    [Find |-> Query("*", FALSE, <<Condition("a", "A")>>), Tmpl |-> Dynamic(TRUE, <<>>, <<"A">>)],
    [Tmpl |-> Dynamic(FALSE, <<>>, <<"C">>)]}
FindByB == [Find |-> Query("a", TRUE, <<Condition("b", "B")>>)]
\* An index in capitals, a key that is a time, and one that is no column.
AnySheets ==
    {Sheet(Two, <<"a", "b">>, <<>>, <<>>, queries) : queries \in AnyQueries}
      \cup {Sheet(Two, <<"a">>, <<>>, <<<<"B">>>>, FindByB), Sheet(Two, <<"b">>, <<>>, <<>>, NoQueries),
            Sheet(Two, <<"c", "a">>, <<>>, <<<<"b">>>>, NoQueries)}
Sheets ==
    [t \in DOMAIN Repository \cup {"x", "y"} |->
       CASE t = "x" -> AnySheets
         [] t = "y" -> {Sheet(Two, <<>>, <<<<"b", "a">>>>, <<>>, FindByB)}
         [] OTHER -> {Repository[t]}]
Packages == {{t} : t \in DOMAIN Repository} \cup {{"x", "y"}}

Generator == INSTANCE TableGenerator WITH
    DbTypes <- {"", "MYSQL", "oracle"}, Lower <- [B |-> "b"], MaxEdits <- 1, MaxRounds <- 2, MaxFailures <- 1

-------------------------------------------------------------------------------
(* The binder: an object with every kind of field, bound to configurations that
   lack, add, misspell or overflow some of them; and texts full of placeholders. *)

Scalar(kind) == [kind |-> kind]
Struct(fields) == [kind |-> "struct", fields |-> fields]
SliceOf(type) == [kind |-> "slice", elem |-> type]
NoTag == [key |-> <<>>, hasDef |-> FALSE, def |-> <<>>]
Untagged(name, type) ==
    [name |-> name, exported |-> TRUE, embedded |-> FALSE, type |-> type, tagged |-> FALSE,
     tag |-> NoTag, required |-> "none"]
Tagged(name, type, key) ==
    [Untagged(name, type) EXCEPT !.tagged = TRUE, !.tag = [NoTag EXCEPT !.key = <<key>>]]
Defaulted(field, def) ==
    [field EXCEPT !.tag = [@ EXCEPT !.hasDef = TRUE, !.def = <<def>>]]
Host == Struct(<<Tagged("Ip", Scalar("string"), "ip"),
                 Defaulted(Tagged("Weight", Scalar("uint8"), "w"), "1")>>)
Inner == Struct(<<[Tagged("A", Scalar("int8"), "a") EXCEPT !.required = "true"],
                  Tagged("Tags", SliceOf(Scalar("string")), "tags"),
                  Tagged("More", [kind |-> "map", elem |-> Scalar("int")], "more")>>)
Server == Struct(<<
    [Untagged("hidden", Scalar("string")) EXCEPT !.exported = FALSE],
    Defaulted(Tagged("Port", Scalar("int8"), "port"), "8"),
    Tagged("Hosts", SliceOf(Host), "hosts"),
    [Untagged("Times", Struct(<<Untagged("Ttl", Scalar("duration"))>>)) EXCEPT !.embedded = TRUE],
    Untagged("Opts", [kind |-> "map", elem |-> Scalar("int16")]),
    Tagged("Grid", SliceOf(SliceOf(Scalar("bool"))), "grid"),
    Untagged("P", [kind |-> "ptr", elem |-> Inner, set |-> TRUE]),
    Tagged("In", Inner, "in")>>)

Under(key) == <<"srv", ".">> \o key
HostKey(i, name) == Under(<<"hosts", "[", i, "]", ".", name>>)
Base == (Under(<<"Port">>) :> <<"7">>) @@ (HostKey("0", "ip") :> <<"h">>)
          @@ (Under(<<"opts", ".", "x">>) :> <<"300">>)
Changed == {
    <<>>,
    Under(<<"port">>) :> <<"300">>,
    (Under(<<"port">>) :> <<"${", "p", "}">>) @@ (<<"p">> :> <<"5">>),
    HostKey("1", "w") :> <<"300">>, HostKey("1", "w") :> <<"7">>, HostKey("2", "w") :> <<"7">>,
    Under(<<"ttl">>) :> <<"5", "us">>, Under(<<"ttl">>) :> <<"5">>,
    Under(<<"opts", ".", "y">>) :> <<"7">>, Under(<<"opts", ".", "y">>) :> <<"bad">>,
    Under(<<"opts", ".", "x">>) :> <<>>,
    Under(<<"in", ".", "b">>) :> <<"7">>, Under(<<"in", ".", "a">>) :> <<"5">>,
    (Under(<<"in", ".", "a">>) :> <<"7">>) @@ (Under(<<"in", ".", "tags", "[", "0", "]">>) :> <<"x">>),
    (Under(<<"p", ".", "a">>) :> <<"5">>) @@ (Under(<<"p", ".", "more", ".", "x">>) :> <<"7">>),
    Under(<<"p", ".", "a">>) :> <<"7">>,
    (Under(<<"grid", "[", "0", "]", "[", "0", "]">>) :> <<"true">>)
      @@ (Under(<<"grid", "[", "0", "]", "[", "1", "]">>) :> <<"false">>)
      @@ (Under(<<"grid", "[", "1", "]">>) :> <<>>)}
Sections == {
    <<>>,
    HostKey("1", "w") :> <<"7">>, Under(<<"opts", ".", "y">>) :> <<"7">>,
    (Under(<<"in", ".", "a">>) :> <<"7">>) @@ (Under(<<"in", ".", "tags", "[", "0", "]">>) :> <<"x">>),
    (Under(<<"p", ".", "a">>) :> <<"5">>) @@ (Under(<<"p", ".", "more", ".", "x">>) :> <<"7">>)}
Configurations ==
    {<<c, Base>> : c \in Changed} \cup {<<c @@ d>> : c \in Changed, d \in Sections}

Placeholder(w) == <<"${">> \o w \o <<"}">>
Texts == {
    <<>>, <<"5">>, <<"b">>, <<"${", "c">>, Placeholder(<<"b">>), Placeholder(<<"z">>),
    Placeholder(<<"a">>) \o Placeholder(<<"a">>), Placeholder(Placeholder(<<"b">>)),
    Placeholder(<<"a", ":">> \o Placeholder(<<"c">>)) \o <<"7">>,
    Placeholder(<<"z", ":", "7">>) \o <<":">> \o Placeholder(<<"b", ":", "5">>)}
Riddles ==
    {<<(<<"a">> :> x) @@ (<<"b">> :> y) @@ (<<"c">> :> z)>> : x \in Texts, y \in Texts, z \in Texts}
OneRiddle == <<(<<"a">> :> <<>>) @@ (<<"b">> :> <<>>) @@ (<<"c">> :> <<>>)>>

Order == {<<"x", "y">>, <<"y", "x">>}
Folded == [Port |-> "port", Opts |-> "opts", Ttl |-> "ttl", P |-> "p"]
Numbers == ("1" :> 1) @@ ("5" :> 5) @@ ("7" :> 7) @@ ("8" :> 8) @@ ("300" :> 300)

Binder == INSTANCE Binding WITH
    Environments <- Configurations, Root <- Server, RootKey <- <<"srv">>,
    Orders <- Order, Lower <- Folded, Number <- Numbers, Unit <- [us |-> 1000], MaxChanges <- 1
Resolver == INSTANCE Binding WITH
    Environments <- Riddles, Root <- Server, RootKey <- <<"srv">>,
    Orders <- Order, Lower <- Folded, Number <- Numbers, Unit <- [us |-> 1000], MaxChanges <- 0

-------------------------------------------------------------------------------
\* No part looks at a byte of the ring buffer (the frames have bytes of their own).
BytesAlike == Permutations(Byte)

Parts == {"ring", "frames", "clauses", "cell", "generator", "binder", "resolver"}
Only(p, var, value) == part = p \/ var = value
OneCodec == [str |-> FALSE, order |-> "big", len |-> 1, offset |-> 0, encAdjust |-> 0,
             includes |-> FALSE, strip |-> 0, max |-> 10]

MCInit ==
    /\ part \in Parts
    /\ Only("ring", rb, New(0)) /\ Init
    /\ Clauses!Init
    /\ Only("frames", codec, OneCodec) /\ Frames!Init
    /\ Only("generator", yaml, [t \in {"tm_no"} |-> Generator!NoFile]) /\ Generator!Init
    /\ IF part = "binder" THEN Binder!Init
       ELSE Only("resolver", env, OneRiddle) /\ Resolver!Init
    /\ Only("cell", text, <<>>) /\ Cell!Init

Elsewhere(p) ==
    /\ part = p /\ UNCHANGED part
    /\ p # "ring" => UNCHANGED vars
    /\ p # "frames" => UNCHANGED frameVars
    /\ p # "clauses" => UNCHANGED clauseVars
    /\ p # "cell" => UNCHANGED cellVars
    /\ p # "generator" => UNCHANGED generatorVars
    /\ p \notin {"binder", "resolver"} => UNCHANGED binderVars

MCNext ==
    \/ Elsewhere("ring") /\ Next
    \/ Elsewhere("frames") /\ Frames!Next
    \/ Elsewhere("clauses") /\ Clauses!Next
    \/ Elsewhere("cell") /\ Cell!Next
    \/ Elsewhere("generator") /\ Generator!Next
    \/ Elsewhere("binder") /\ Binder!Next
    \/ Elsewhere("resolver") /\ Resolver!Next

MCSpec == MCInit /\ [][MCNext]_MCVars

-------------------------------------------------------------------------------
(* Properties *)

\* The frames handed to the next handler are the messages the peer sent, in
\* whatever pieces the bytes arrived, and no complete frame is left lying
\* (doDecode, Peek, Discard, OnTraffic).
FramesArrive == part = "frames" => Frames!FramesExact /\ Frames!NothingStuck

\* The SQL of a builder says what its chain of calls says, and a condition it
\* accepts can use an index (buildWhereCondition, BuildWithIndexCheck).
ClausesMean == part = "clauses" => Clauses!SqlSaysCalls /\ Clauses!IndexIsUsed

\* The condition of a sheet keeps its meaning through the YAML file, the
\* generated SQL and the filter of a call, and its parameters all have a field
\* (ParseWhereCondition, extractWhereFields, BuildWhereFromConfig).
CellMeans == part = "cell" => Cell!MeaningKept /\ Cell!ArgsComplete

\* The files on disk of the tables that a round made to the end compile together,
\* whatever rounds failed before, but for a file a failed round has left over and
\* for queries of one name in two tables; and the repository package is what its
\* sheets give (GenerateDAOFromYAML, ParseYAML).
GeneratedSound == part = "generator" => Generator!PackageBuilds /\ Generator!RepositoryReproduced

\* A refreshed object is what a new one would be, but for what is not configured
\* any more, and placeholders expand to what they stand for (BindValue,
\* bindStruct, parseStringValueWithVisited).
BoundRight ==
    /\ part = "binder" => Binder!RefreshedAsNew
    /\ part \in {"binder", "resolver"} => Resolver!PlaceholdersExpand
==============================================================================
