--------------------------- MODULE PropertySources ---------------------------
(***************************************************************************)
(* The ordered list of property sources behind an environment              *)
(* (ag/ag_conf MutablePropertySources on ag_ext.CopyOnWriteSlice), the     *)
(* lookup of a key in it, and the decrypt source that accompanies a source *)
(* with enciphered values.                                                 *)
(*                                                                         *)
(* A source is a name and a function from some keys to values.  A value is *)
(* what it says and the form it is written in: "plain", "cipher" for a     *)
(* text with the {cipher} prefix, "broken" for such a text the encryptor   *)
(* rejects.  Each list operation runs under the list's lock and stores one *)
(* new slice, so that a reader sees the list before or after it.           *)
(***************************************************************************)
EXTENDS Integers, Sequences

Plain(n) == [of |-> n, dec |-> FALSE]

Source(name, kv) == [name |-> name, kv |-> kv]

\* indexOfName; positions count from 1, and 0 is the code's -1.
IndexOfName(l, name) ==
    IF \E i \in DOMAIN l : l[i].name = name
    THEN CHOOSE i \in DOMAIN l : l[i].name = name /\ \A j \in 1..(i - 1) : l[j].name # name
    ELSE 0

Contains(l, name) == IndexOfName(l, name) # 0

Get(l, name) == l[IndexOfName(l, name)]

\* CopyOnWriteSlice.AddIndex: ps goes after the first n elements, or last.
AddIndex(l, n, ps) ==
    LET k == IF n > Len(l) THEN Len(l) ELSE n
    IN  SubSeq(l, 1, k) \o <<ps>> \o SubSeq(l, k + 1, Len(l))

\* Mutant of RemoveIfPresent: nothing is removed.
RemoveNothing(l, name) == l

RemoveIfPresent(l, name) ==
    LET i == IndexOfName(l, name)
    IN  IF i = 0 THEN l ELSE SubSeq(l, 1, i - 1) \o SubSeq(l, i + 1, Len(l))

AddFirst(l, ps) == AddIndex(RemoveIfPresent(l, ps.name), 0, ps)

AddLast(l, ps) == Append(RemoveIfPresent(l, ps.name), ps)

\* AddBefore and AddAfter look the position up before they remove the source
\* from its old place.  The caller has checked that name is in the list.
AddBefore(l, name, ps) ==
    AddIndex(RemoveIfPresent(l, ps.name), IndexOfName(l, name) - 1, ps)

AddAfter(l, name, ps) ==
    AddIndex(RemoveIfPresent(l, ps.name), IndexOfName(l, name), ps)

\* Mutant of Replace: the new source takes the last place.
ReplaceAtEnd(l, ps) == Append(RemoveIfPresent(l, ps.name), ps)

\* ReplaceSource, for a name in the list.
Replace(l, ps) == [l EXCEPT ![IndexOfName(l, ps.name)] = ps]

-------------------------------------------------------------------------------
(* Decryption and lookup *)

DecryptName(name) == [name EXCEPT !.dec = TRUE]

Enciphered(kv) == {k \in DOMAIN kv : kv[k].form # "plain"}

\* BuildDecryptForPropertySource succeeds.
Decryptable(kv) == \A k \in DOMAIN kv : kv[k].form # "broken"

DecryptSource(ps) ==
    Source(DecryptName(ps.name),
           [k \in Enciphered(ps.kv) |-> [ps.kv[k] EXCEPT !.form = "plain"]])

\* Mutant of WithDecrypt: a decrypt source that has become empty stays.
WithDecryptKept(l, ps) ==
    IF Enciphered(ps.kv) # {} THEN AddBefore(l, ps.name, DecryptSource(ps)) ELSE l

\* CreateOrUpdateDecryptForPropertySource and the same lines of a refresh.
WithDecrypt(l, ps) ==
    IF Enciphered(ps.kv) # {}
    THEN AddBefore(l, ps.name, DecryptSource(ps))
    ELSE RemoveIfPresent(l, DecryptName(ps.name))

\* getProperty: the first source with the key, None if there is none.
Lookup(l, key, None) ==
    LET having == {i \in DOMAIN l : key \in DOMAIN l[i].kv}
    IN  IF having = {} THEN None
        ELSE l[CHOOSE i \in having : \A j \in having : i <= j].kv[key]
===============================================================================
