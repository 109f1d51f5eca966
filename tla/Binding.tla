------------------------------- MODULE Binding -------------------------------
(***************************************************************************)
(* Values of the configuration: the placeholders in them (ag_conf          *)
(* PropertyPlaceholderHelper) and the binder that fills an object from     *)
(* them and fills it again when they change.                               *)
(*                                                                         *)
(* Keys and texts are sequences of tokens: "${", "}", ":", ".", "[", "]",  *)
(* and words; Lower folds the case of the words that have one.  Number and *)
(* Unit say what strconv and time make of a word.  No source has two keys  *)
(* that differ in case only.                                               *)
(***************************************************************************)
EXTENDS Integers, Sequences, FiniteSets, SequencesExt

CONSTANTS
    Environments, \* the configurations: sequences of sources [key -> text]
    Root,         \* the type of the object
    RootKey,      \* the name it is bound to
    Orders,       \* the orders in which a source may be ranged over
    Lower,        \* [words with capitals -> words]
    Number,       \* [words -> integers]
    Unit,         \* [units of time -> their length]
    MaxChanges    \* bound: changes of the configuration

VARIABLES
    env,          \* the configuration
    object,       \* what is bound
    state,        \* "new", "bound", or "failed" after a bind that returned an error
    changes,
    before        \* history: the object when the last bind began

vars == <<env, object, state, changes, before>>

-------------------------------------------------------------------------------
(* Keys and lookup *)

Fold(k) == [i \in DOMAIN k |-> IF k[i] \in DOMAIN Lower THEN Lower[k[i]] ELSE k[i]]
HasPrefix(k, p) == Len(p) <= Len(k) /\ Fold(SubSeq(k, 1, Len(p))) = Fold(p)
Digits == {ToString(i) : i \in 0..9}
isArrayKey(k) ==
    Len(k) > 3 /\ k[Len(k)] = "]" /\ k[Len(k) - 1] \in Digits /\ k[Len(k) - 2] = "["

\* GetPropertyAsRawString: the first source that has the key, though its text be empty.
Raw(e, key) ==
    LET has(i) == \E k \in DOMAIN e[i] : Fold(k) = Fold(key)
        at == SelectInSeq([i \in DOMAIN e |-> has(i)], LAMBDA b : b)
    IN IF at = 0 THEN <<>> ELSE e[at][CHOOSE k \in DOMAIN e[at] : Fold(k) = Fold(key)]

\* containsDescendantOfName
containsDescendantOfName(e, name) ==
    \E i \in DOMAIN e : \E k \in DOMAIN e[i] :
        \/ Fold(k) = Fold(name)
        \/ HasPrefix(k, name \o <<".">>)
        \/ isArrayKey(name) /\ HasPrefix(k, name \o <<"[">>) /\ isArrayKey(k)

\* getDescendantSubKeysOfName: the words after the name, up to a dot or an index.
getDescendantSubKeysOfName(e, name) ==
    {k[Len(name) + 2] : k \in {q \in UNION {DOMAIN e[i] : i \in DOMAIN e} :
                                 HasPrefix(q, name \o <<".">>) /\ Len(q) > Len(name) + 1}}

-------------------------------------------------------------------------------
(* Placeholders *)

Failed == [ok |-> FALSE, text |-> <<>>]
Found(text) == [ok |-> TRUE, text |-> text]

\* findPlaceholderEndIndex
RECURSIVE findPlaceholderEndIndex(_, _, _)
findPlaceholderEndIndex(buf, i, nested) ==
    IF i > Len(buf) THEN 0
    ELSE IF buf[i] = "}" THEN IF nested = 0 THEN i ELSE findPlaceholderEndIndex(buf, i + 1, nested - 1)
    ELSE findPlaceholderEndIndex(buf, i + 1, IF buf[i] = "${" THEN nested + 1 ELSE nested)

\* The text of a placeholder once its own placeholders are replaced: that of the
\* whole as a key, of the key before the separator, or what follows it.
PropVal(e, p) ==
    LET sep == SelectInSeq(p, LAMBDA t : t = ":")
        key == SubSeq(p, 1, sep - 1)
    IN IF Raw(e, p) # <<>> \/ sep = 0 THEN Raw(e, p)
       ELSE IF Raw(e, key) # <<>> THEN Raw(e, key) ELSE SubSeq(p, sep + 1, Len(p))

\* Mutant of Replace: a placeholder stays visited.
RECURSIVE ReplaceOnce(_, _, _, _, _)
ReplaceOnce(e, buf, from, visited, ignore) ==
    LET start == SelectInSubSeq(buf, from, Len(buf), LAMBDA t : t = "${")
        end == findPlaceholderEndIndex(buf, start + 1, 0)
        placeholder == SubSeq(buf, start + 1, end - 1)
    IN IF start = 0 \/ end = 0 THEN Found(buf)
       ELSE IF placeholder \in visited THEN Failed
       ELSE LET key == ReplaceOnce(e, placeholder, 1, visited \cup {placeholder}, ignore)
                value == ReplaceOnce(e, PropVal(e, key.text), 1, visited \cup {placeholder}, ignore)
            IN IF ~key.ok THEN Failed
               ELSE IF PropVal(e, key.text) = <<>> THEN Failed
               ELSE IF ~value.ok THEN Failed
               ELSE ReplaceOnce(e, SubSeq(buf, 1, start - 1) \o value.text \o SubSeq(buf, end + 1, Len(buf)),
                                start + Len(value.text), visited \cup {placeholder}, ignore)

\* parseStringValueWithVisited, from a place in the text on: a placeholder met again
\* while it is being resolved is a circle.
RECURSIVE Replace(_, _, _, _, _)
Replace(e, buf, from, visited, ignore) ==
    LET start == SelectInSubSeq(buf, from, Len(buf), LAMBDA t : t = "${")
        end == findPlaceholderEndIndex(buf, start + 1, 0)
        placeholder == SubSeq(buf, start + 1, end - 1)
    IN IF start = 0 \/ end = 0 THEN Found(buf)
       ELSE IF placeholder \in visited THEN Failed
       ELSE LET key == Replace(e, placeholder, 1, visited \cup {placeholder}, ignore)
                value == Replace(e, PropVal(e, key.text), 1, visited \cup {placeholder}, ignore)
            IN IF ~key.ok THEN Failed
               ELSE IF PropVal(e, key.text) = <<>>
               THEN IF ignore THEN Replace(e, buf, end + 1, visited, ignore) ELSE Failed
               ELSE IF ~value.ok THEN Failed
               ELSE Replace(e, SubSeq(buf, 1, start - 1) \o value.text \o SubSeq(buf, end + 1, Len(buf)),
                            start + Len(value.text), visited, ignore)

\* ResolveRequiredPlaceholders and ResolvePlaceholders.
ResolveNestedPlaceholders(e, text) == Replace(e, text, 1, {}, FALSE)
ResolvePlaceholders(e, text) == Replace(e, text, 1, {}, TRUE).text

\* GetProperty: an error is logged and looks like a missing key.
GetProperty(e, key) == ResolveNestedPlaceholders(e, Raw(e, key)).text

-------------------------------------------------------------------------------
(* Types: [kind], with elem for slice, map and ptr, and fields for struct, each
   [name, exported, embedded, type, tagged, tag, required] *)

Integer == [int8 |-> -128..127, int16 |-> -32768..32767, int |-> Int, int64 |-> Int,
            uint8 |-> 0..255, uint16 |-> 0..65535, uint |-> Nat, uint64 |-> Nat, duration |-> Int]
Scalars == DOMAIN Integer \cup {"bool", "string", "float"}

\* IsBindableType: no array, and no pointer as an element.
IsBindableType(type) ==
    LET t == IF type.kind \in {"map", "slice", "ptr"} THEN type.elem ELSE type
    IN type.kind # "array" /\ t.kind \in Scalars \cup {"struct", "map", "slice"}

\* An object before it is bound; the code that made it may have set the pointer.
RECURSIVE Zero(_)
Zero(type) ==
    CASE type.kind = "struct" -> [f \in {type.fields[i].name : i \in DOMAIN type.fields} |->
                                    Zero((CHOOSE g \in ToSet(type.fields) : g.name = f).type)]
      [] type.kind \in {"slice", "map"} -> <<>>
      [] type.kind = "ptr" -> IF type.set THEN Zero(type.elem) ELSE <<"nil">>
      [] OTHER -> <<"zero">>

Bound(v) == [ok |-> TRUE, v |-> v]
Error(v) == [ok |-> FALSE, v |-> v]

\* parseValue: by the width of the type; a duration without unit counts nanoseconds.
Value(kind, text) ==
    CASE kind = "string" -> {text}
      [] kind = "bool" -> IF text \in {<<"true">>, <<"false">>} THEN {text} ELSE {}
      [] kind = "duration" /\ Len(text) = 2 ->
           IF text[1] \in DOMAIN Number /\ text[2] \in DOMAIN Unit
           THEN {<<"n", Number[text[1]] * Unit[text[2]]>>} ELSE {}
      [] OTHER -> IF Len(text) # 1 \/ text[1] \notin DOMAIN Number THEN {}
                  ELSE IF kind = "float" \/ Number[text[1]] \in Integer[kind]
                  THEN {<<"n", Number[text[1]]>>} ELSE {}
parseValue(kind, text, v) ==
    IF Value(kind, text) = {} THEN Error(v) ELSE Bound(CHOOSE n \in Value(kind, text) : TRUE)

\* doBindValue
doBindValue(e, kind, v, p) ==
    LET value == GetProperty(e, p.key) IN
    IF value # <<>> THEN parseValue(kind, value, v)
    ELSE IF p.tag.hasDef THEN parseValue(kind, p.tag.def, v)
    ELSE IF p.required THEN Error(v) ELSE Bound(v)

-------------------------------------------------------------------------------
(* The binder *)

NoTag == [key |-> <<>>, hasDef |-> FALSE, def |-> <<>>]
Below(key, sub) == IF key = <<>> THEN sub ELSE IF sub = <<>> THEN key ELSE key \o <<".">> \o sub

\* BindTag: the key of a field, or nothing when the tag is an error.
BindTag(key, tag) ==
    IF tag.key = <<>> THEN IF tag.hasDef THEN {key} ELSE {}
    ELSE {Below(key, IF tag.key = <<"ROOT">> THEN <<>> ELSE tag.key)}

\* The parameter of a field: without a key of its own it goes by its name.
FieldParam(key, f) ==
    LET tagged == IF f.tagged THEN BindTag(key, f.tag) ELSE {key} IN
    {[key |-> IF k = key THEN Below(key, <<f.name>>) ELSE k, required |-> f.required = "true",
      tag |-> IF f.tagged THEN f.tag ELSE NoTag] :
       k \in IF f.required \in {"none", "true", "false"} THEN tagged ELSE {}}

RECURSIVE BindValue(_, _, _, _, _), bindFields(_, _, _, _, _, _), bindStruct(_, _, _, _, _),
          bindSlice(_, _, _, _, _, _), bindMap(_, _, _, _, _, _)

\* The fields from the i-th on: the first error ends it, what is bound by then stays.
bindFields(e, type, v, key, i, order) ==
    IF i > Len(type.fields) THEN Bound(v)
    ELSE LET f == type.fields[i]
             skip == ~f.exported \/ (f.embedded /\ f.type.kind # "struct")
             param == FieldParam(key, f)
             r == IF f.embedded
                  THEN bindStruct(e, f.type, v[f.name], [key |-> key, required |-> FALSE, tag |-> NoTag], order)
                  ELSE BindValue(e, f.type, v[f.name], CHOOSE p \in param : TRUE, order)
         IN IF skip THEN bindFields(e, type, v, key, i + 1, order)
            ELSE IF ~f.embedded /\ param = {} THEN Error(v)
            ELSE IF ~r.ok THEN Error([v EXCEPT ![f.name] = r.v])
            ELSE bindFields(e, type, [v EXCEPT ![f.name] = r.v], key, i + 1, order)

\* bindStruct: a struct of which nothing is configured is left as it is.
bindStruct(e, type, v, p, order) ==
    IF p.tag.hasDef /\ p.tag.def # <<>> THEN Error(v)
    ELSE IF ~containsDescendantOfName(e, p.key)
    THEN IF p.required /\ ~p.tag.hasDef THEN Error(v) ELSE Bound(v)
    ELSE bindFields(e, type, v, p.key, 1, order)

\* Mutant of bindSlice: the slice of the field is appended to, not a new one.
bindSliceKeeps(e, type, slice, p, i, order) ==
    LET key == p.key \o <<"[", ToString(i), "]">>
        r == BindValue(e, type.elem, Zero(type.elem), [key |-> key, required |-> FALSE, tag |-> NoTag], order)
    IN IF ~containsDescendantOfName(e, key)
       THEN IF i = 0 /\ p.required THEN Error(slice) ELSE Bound(slice)
       ELSE IF ~r.ok THEN Error(slice)
       ELSE bindSlice(e, type, Append(slice, r.v), p, i + 1, order)

\* bindSlice: new elements, up to the first index of which nothing is configured.
bindSlice(e, type, slice, p, i, order) ==
    LET key == p.key \o <<"[", ToString(i), "]">>
        r == BindValue(e, type.elem, Zero(type.elem), [key |-> key, required |-> FALSE, tag |-> NoTag], order)
        made == IF i = 0 THEN <<>> ELSE slice
    IN IF ~containsDescendantOfName(e, key)
       THEN IF i = 0 /\ p.required THEN Error(made) ELSE Bound(made)
       ELSE IF ~r.ok THEN Error(made)
       ELSE bindSlice(e, type, Append(made, r.v), p, i + 1, order)

\* bindMap: a new map, of the sub-keys in the order they are met.
bindMap(e, type, map, p, keys, order) ==
    IF keys = <<>> THEN Bound(map)
    ELSE LET r == BindValue(e, type.elem, Zero(type.elem),
                            [key |-> Below(p.key, <<Head(keys)>>), required |-> FALSE, tag |-> NoTag], order)
         IN IF ~r.ok THEN Error(map)
            ELSE bindMap(e, type, [k \in DOMAIN map \cup {Head(keys)} |-> IF k = Head(keys) THEN r.v ELSE map[k]],
                         p, Tail(keys), order)

\* BindValue
BindValue(e, type, v, p, order) ==
    IF ~IsBindableType(type) THEN Error(v)
    ELSE CASE type.kind = "ptr" ->
                IF ~type.set THEN Error(v) ELSE BindValue(e, type.elem, v, p, order)
           [] type.kind = "slice" -> bindSlice(e, type, v, p, 0, order)
           [] type.kind = "map" ->
                IF p.tag.hasDef /\ p.tag.def # <<>> THEN Error(v)
                ELSE IF ~containsDescendantOfName(e, p.key)
                THEN IF p.required /\ ~p.tag.hasDef THEN Error(<<>>) ELSE Bound(<<>>)
                ELSE bindMap(e, type, <<>>, p,
                             SelectSeq(order, LAMBDA w : w \in getDescendantSubKeysOfName(e, p.key)), order)
           [] type.kind = "struct" -> bindStruct(e, type, v, p, order)
           [] OTHER -> doBindValue(e, type.kind, v, p)

RootParam == [key |-> IF RootKey = <<"ROOT">> THEN <<>> ELSE RootKey, required |-> FALSE, tag |-> NoTag]

-------------------------------------------------------------------------------
Init ==
    /\ env \in Environments
    /\ object = Zero(Root) /\ before = object /\ state = "new" /\ changes = 0

\* Bind, which also registers the listener.
Bind(order) ==
    /\ state = "new" /\ before' = object
    /\ LET r == BindValue(env, Root, object, RootParam, order)
       IN object' = r.v /\ state' = IF r.ok THEN "bound" ELSE "failed"
    /\ UNCHANGED <<env, changes>>

\* The listener: the sources have changed, the same object is bound again; nobody
\* looks at the error.
Refresh(e, order) ==
    /\ state # "new" /\ changes < MaxChanges
    /\ env' = e /\ changes' = changes + 1 /\ before' = object
    /\ LET r == BindValue(e, Root, object, RootParam, order)
       IN object' = r.v /\ state' = IF r.ok THEN "bound" ELSE "failed"

Next == \E order \in Orders : Bind(order) \/ \E e \in Environments : Refresh(e, order)

Spec == Init /\ [][Next]_vars

-------------------------------------------------------------------------------
(* Properties *)

\* What a configuration should make of an object, given what it makes of a new one:
\* a slice or map is the new one, whatever was in it; so is a scalar, unless it is
\* neither configured nor has a default, when it keeps its value; and a struct of
\* which nothing is configured keeps everything, its slices and maps included.
RECURSIVE Rebound(_, _, _, _)
Rebound(type, key, old, new) ==
    CASE type.kind = "struct" /\ containsDescendantOfName(env, key) ->
           [name \in DOMAIN old |->
              LET f == CHOOSE g \in ToSet(type.fields) : g.name = name
                  below == IF f.embedded THEN {key} ELSE {p.key : p \in FieldParam(key, f)}
              IN IF f.exported /\ (f.embedded => f.type.kind = "struct")
                 THEN Rebound(f.type, CHOOSE k \in below : TRUE, old[name], new[name]) ELSE old[name]]
      [] type.kind = "struct" /\ ~containsDescendantOfName(env, key) -> old
      [] type.kind = "ptr" -> IF type.set THEN Rebound(type.elem, key, old, new) ELSE old
      [] type.kind \in {"slice", "map"} -> new
      [] OTHER -> IF new = <<"zero">> THEN old ELSE new

\* A bind that succeeds leaves the object as the configuration would make a new
\* one, up to the scalars and the whole sections that are not configured, which stay
\* as they were: in a section that is configured no element of an earlier slice
\* or map survives, whatever was bound before and whether or not that failed half
\* way (bindSlice and bindMap replace, bindStruct descends or returns at once,
\* bind.go:177-188, and the listener binds into the same object).
RefreshedAsNew ==
    state = "bound" =>
        \E order \in Orders :
            LET new == BindValue(env, Root, Zero(Root), RootParam, order)
            IN new.ok /\ object = Rebound(Root, RootParam.key, before, new.v)

\* What a text means: a placeholder stands for the value of its key or for its
\* default, which have to be there; to need more of them than there are is a circle.
Matching(w, i) ==
    LET count(t, j) == Cardinality({k \in i..j : w[k] = t})
        ends == {j \in i..Len(w) : w[j] = "}" /\ count("${", j) = count("}", j)}
    IN IF ends = {} THEN 0 ELSE CHOOSE j \in ends : \A k \in ends : j <= k
StandsFor(e, p) ==
    LET cuts == {i \in DOMAIN p : p[i] = ":"}
        first == CHOOSE i \in cuts : \A j \in cuts : i <= j
        said == <<Raw(e, p)>> \o (IF cuts = {} THEN <<>>
                                 ELSE <<Raw(e, SubSeq(p, 1, first - 1)), SubSeq(p, first + 1, Len(p))>>)
    IN FoldRight(LAMBDA text, later : IF text = <<>> THEN later ELSE text, said, <<>>)
RECURSIVE Meaning(_, _, _)
Meaning(e, w, fuel) ==
    LET at == SelectInSeq(w, LAMBDA t : t = "${")
        end == Matching(w, at)
        key == Meaning(e, SubSeq(w, at + 1, end - 1), fuel - 1)
        value == Meaning(e, StandsFor(e, key.text), fuel - 1)
        rest == Meaning(e, SubSeq(w, end + 1, Len(w)), fuel)
    IN IF at = 0 THEN Found(w)
       ELSE IF end = 0 THEN Found(w)
       ELSE IF fuel = 0 THEN Failed
       ELSE IF ~key.ok THEN Failed
       ELSE IF StandsFor(e, key.text) = <<>> THEN Failed
       ELSE IF ~value.ok \/ ~rest.ok THEN Failed
       ELSE Found(SubSeq(w, 1, at - 1) \o value.text \o rest.text)

\* Placeholders are replaced by what they stand for, nested or repeated, and the
\* search always ends: only a real circle or a missing value is an error
\* (parseStringValueWithVisited marks placeholders on the way down and clears them
\* on the way back).
PlaceholdersExpand ==
    \A i \in DOMAIN env : \A k \in DOMAIN env[i] :
        LET placeholders == FoldLeft(LAMBDA n, source :
                               n + FoldSet(LAMBDA q, m : m + Len(source[q]), 0, DOMAIN source), 0, env)
        IN /\ ResolveNestedPlaceholders(env, env[i][k]) = Meaning(env, env[i][k], placeholders + 1)
           /\ ResolveNestedPlaceholders(env, env[i][k]).ok =>
                ResolvePlaceholders(env, env[i][k]) = ResolveNestedPlaceholders(env, env[i][k]).text
==============================================================================
