------------------------- MODULE ConfigRefreshProofs -------------------------
(***************************************************************************)
(* The configuration at run time, for every set of data ids, contents and  *)
(* keys: list, decrypt sources and bound fields stay consistent, and no    *)
(* refresh changes which source has precedence over which.                 *)
(***************************************************************************)
EXTENDS ConfigRefresh, Facts

-------------------------------------------------------------------------------
(* Names and sources *)

Maps == UNION {[D -> Values] : D \in SUBSET Keys}
Src == [name : Names, kv : Maps]

IsDec(n) == n.dec

LEMMA NameFacts ==
    ASSUME NEW n \in Names
    PROVE  /\ DecryptName(n) \in Names /\ IsDec(DecryptName(n))
           /\ \A m \in Names : ~IsDec(n) /\ ~IsDec(m) /\ DecryptName(n) = DecryptName(m) => n = m
<1>1. DecryptName(n) \in Names /\ IsDec(DecryptName(n))
  BY DEF Names, DecryptName, IsDec
<1>2. ASSUME NEW m \in Names, ~IsDec(n), ~IsDec(m), DecryptName(n) = DecryptName(m) PROVE n = m
  <2>1. n.of = m.of
    BY <1>2 DEF Names, DecryptName
  <2>2. n.dec = FALSE /\ m.dec = FALSE
    BY <1>2 DEF Names, IsDec
  <2>3. n = [of |-> n.of, dec |-> n.dec] /\ m = [of |-> m.of, dec |-> m.dec]
    BY DEF Names
  <2> QED BY <2>1, <2>2, <2>3
<1> QED BY <1>1, <1>2

LEMMA PlainFacts ==
    ASSUME NEW a \in Origins
    PROVE  Plain(a) \in Names /\ ~IsDec(Plain(a)) /\ Plain(a).of = a /\ DecryptName(Plain(a)).of = a
<1>1. Plain(a) \in Names
  BY DEF Plain, Names
<1>2. ~IsDec(Plain(a)) /\ Plain(a).of = a
  BY DEF Plain, IsDec
<1>3. DecryptName(Plain(a)).of = a
  BY DEF Plain, DecryptName
<1> QED BY <1>1, <1>2, <1>3

LEMMA MapIs == ASSUME NEW kv PROVE kv \in Maps <=> IsMap(kv)
<1>1. ASSUME kv \in Maps PROVE IsMap(kv)
  BY <1>1 DEF Maps, IsMap
<1>2. ASSUME IsMap(kv) PROVE kv \in Maps
  BY <1>2 DEF Maps, IsMap
<1> QED BY <1>1, <1>2

LEMMA SrcIs == ASSUME NEW ps PROVE ps \in Src => IsSource(ps)
<1> SUFFICES ASSUME ps \in Src PROVE IsSource(ps)
  OBVIOUS
<1>1. ps = [name |-> ps.name, kv |-> ps.kv] /\ ps.name \in Names /\ ps.kv \in Maps
  BY DEF Src
<1> QED BY <1>1, MapIs DEF IsSource, Source

LEMMA SourceIn ==
    ASSUME NEW n \in Names, NEW kv, IsMap(kv)
    PROVE  Source(n, kv) \in Src /\ Source(n, kv).name = n /\ Source(n, kv).kv = kv
<1>1. kv \in Maps
  BY MapIs
<1> QED BY <1>1 DEF Source, Src

\* What a decrypt source holds (BuildDecryptForPropertySource).
LEMMA DecryptSourceFacts ==
    ASSUME NEW ps \in Src
    PROVE  /\ DecryptSource(ps) \in Src
           /\ DecryptSource(ps).name = DecryptName(ps.name)
           /\ DOMAIN DecryptSource(ps).kv = Enciphered(ps.kv)
           /\ Enciphered(DecryptSource(ps).kv) = {}
           /\ Decryptable(DecryptSource(ps).kv)
<1> DEFINE f == [k \in Enciphered(ps.kv) |-> [ps.kv[k] EXCEPT !.form = "plain"]]
<1>1. IsMap(ps.kv) /\ ps.name \in Names
  BY SrcIs DEF IsSource
<1>2. Enciphered(ps.kv) \subseteq DOMAIN ps.kv
  BY DEF Enciphered
<1>3. ASSUME NEW k \in Enciphered(ps.kv) PROVE f[k] \in Values /\ f[k].form = "plain"
  <2>1. ps.kv[k] \in Values
    BY <1>1, <1>2 DEF IsMap
  <2> QED BY <2>1 DEF Values
<1>4. DOMAIN f = Enciphered(ps.kv)
  OBVIOUS
<1>5. IsMap(f)
  <2>1. f \in [Enciphered(ps.kv) -> Values]
    BY <1>3
  <2> QED BY <2>1, <1>1, <1>2, <1>4 DEF IsMap
<1>6. Enciphered(f) = {} /\ Decryptable(f)
  BY <1>3, <1>4 DEF Enciphered, Decryptable
<1>7. DecryptName(ps.name) \in Names
  BY <1>1, NameFacts
<1>8. DecryptSource(ps) = Source(DecryptName(ps.name), f)
  BY DEF DecryptSource
<1> HIDE DEF f
<1> QED BY <1>4, <1>5, <1>6, <1>7, <1>8, SourceIn

-------------------------------------------------------------------------------
(* The list *)

Distinct(l) == \A i, j \in DOMAIN l : l[i].name = l[j].name => i = j
Has(l, n) == \E i \in DOMAIN l : l[i].name = n

\* t is s with x after its first k elements.
Inserted(s, t, k, x) ==
    /\ k \in 0..Len(s) /\ Len(t) = Len(s) + 1
    /\ \A j \in 1..k : t[j] = s[j]
    /\ t[k + 1] = x
    /\ \A j \in (k + 1)..Len(s) : t[j + 1] = s[j]

LEMMA ElementIn ==
    ASSUME NEW l \in Seq(Src), NEW i \in DOMAIN l
    PROVE  l[i] \in Src /\ l[i].name \in Names /\ IsMap(l[i].kv)
<1>1. l[i] \in Src
  OBVIOUS
<1>2. l[i].name \in Names /\ l[i].kv \in Maps
  BY <1>1 DEF Src
<1> QED BY <1>1, <1>2, MapIs

\* indexOfName finds the one source of a name.
LEMMA IndexIs ==
    ASSUME NEW S, NEW l \in Seq(S), Distinct(l), NEW n
    PROVE  /\ \A i \in 1..Len(l) : l[i].name = n => IndexOfName(l, n) = i
           /\ ~Has(l, n) => IndexOfName(l, n) = 0
<1>1. ASSUME NEW i \in 1..Len(l), l[i].name = n PROVE IndexOfName(l, n) = i
  <2> DEFINE P(x) == l[x].name = n /\ \A j \in 1..(x - 1) : l[j].name # n
  <2>1. i \in DOMAIN l /\ DOMAIN l = 1..Len(l) /\ Len(l) \in Nat
    OBVIOUS
  <2>2. P(i)
    BY <1>1, <2>1 DEF Distinct
  <2>3. \A x \in DOMAIN l : P(x) => x = i
    BY <1>1, <2>1 DEF Distinct
  <2>4. IndexOfName(l, n) = CHOOSE x \in DOMAIN l : P(x)
    BY <1>1, <2>1 DEF IndexOfName
  <2> HIDE DEF P
  <2> QED BY <2>1, <2>2, <2>3, <2>4
<1>2. ASSUME ~Has(l, n) PROVE IndexOfName(l, n) = 0
  BY <1>2 DEF Has, IndexOfName
<1> QED BY <1>1, <1>2

\* CopyOnWriteSlice.AddIndex within the list.
LEMMA AddIndexIs ==
    ASSUME NEW S, NEW l \in Seq(S), NEW x \in S, NEW k \in 0..Len(l)
    PROVE  AddIndex(l, k, x) \in Seq(S) /\ Inserted(l, AddIndex(l, k, x), k, x)
<1> DEFINE a == SubSeq(l, 1, k)
           c == SubSeq(l, k + 1, Len(l))
           b == <<x>>
           t == (a \o b) \o c
<1>1. k \in Nat /\ Len(l) \in Nat /\ k <= Len(l)
  OBVIOUS
<1>2. AddIndex(l, k, x) = t
  <2>1. ~(k > Len(l))
    BY <1>1
  <2> QED BY <2>1, Zenon DEF AddIndex
<1>3. a \in Seq(S) /\ Len(a) = k /\ \A j \in 1..k : a[j] = l[j]
  BY <1>1
<1>4. c \in Seq(S) /\ Len(c) = Len(l) - k /\ \A j \in 1..(Len(l) - k) : c[j] = l[k + j]
  BY <1>1
<1>5. b \in Seq(S) /\ Len(b) = 1 /\ b[1] = x
  OBVIOUS
<1> HIDE DEF a, b, c
<1> DEFINE d == a \o b
<1>6. /\ d \in Seq(S) /\ Len(d) = Len(a) + Len(b)
      /\ \A j \in 1..Len(a) : d[j] = a[j]
      /\ \A j \in 1..Len(b) : d[Len(a) + j] = b[j]
  <2>1. a \in Seq(S) /\ b \in Seq(S)
    BY <1>3, <1>5
  <2> QED BY ONLY <2>1, ConcatAt
<1> HIDE DEF d
<1>7. d \in Seq(S) /\ Len(d) = k + 1 /\ (\A j \in 1..k : d[j] = l[j]) /\ d[k + 1] = x
  BY <1>1, <1>3, <1>5, <1>6
<1>8. /\ d \o c \in Seq(S) /\ Len(d \o c) = Len(d) + Len(c)
      /\ \A j \in 1..Len(d) : (d \o c)[j] = d[j]
      /\ \A j \in 1..Len(c) : (d \o c)[Len(d) + j] = c[j]
  <2>1. d \in Seq(S) /\ c \in Seq(S)
    BY <1>4, <1>7
  <2> QED BY ONLY <2>1, ConcatAt
<1>9. t = d \o c
  BY DEF d
<1> HIDE DEF t
<1>10. t \in Seq(S) /\ Len(t) = Len(l) + 1
  <2>1. t \in Seq(S) /\ Len(t) = Len(d) + Len(c)
    BY <1>8, <1>9
  <2>2. Len(d) = k + 1 /\ Len(c) = Len(l) - k
    BY <1>4, <1>7
  <2> HIDE DEF d
  <2> QED BY <2>1, <2>2, <1>1
<1>11. (\A j \in 1..k : t[j] = l[j]) /\ t[k + 1] = x
  BY <1>1, <1>7, <1>8, <1>9
<1>12. ASSUME NEW j \in (k + 1)..Len(l) PROVE t[j + 1] = l[j]
  <2>1. j - k \in 1..(Len(l) - k) /\ k + (j - k) = j /\ Len(d) + (j - k) = j + 1
    <3>1. Len(d) = k + 1
      BY <1>7
    <3> QED BY <3>1, <1>1
  <2>2. t[Len(d) + (j - k)] = c[j - k]
    BY <2>1, <1>4, <1>8, <1>9
  <2>3. c[j - k] = l[k + (j - k)]
    BY <2>1, <1>4
  <2> QED BY <2>1, <2>2, <2>3
<1> QED BY <1>2, <1>10, <1>11, <1>12 DEF Inserted

\* RemoveIfPresent leaves a list without the name, from which the old one differs
\* by that source.
LEMMA RemoveIs ==
    ASSUME NEW S, NEW l \in Seq(S), Distinct(l), NEW n
    PROVE  /\ RemoveIfPresent(l, n) \in Seq(S)
           /\ ~Has(l, n) => RemoveIfPresent(l, n) = l
           /\ \A p \in 1..Len(l) :
                l[p].name = n => Inserted(RemoveIfPresent(l, n), l, p - 1, l[p])
<1>1. ASSUME ~Has(l, n) PROVE RemoveIfPresent(l, n) = l
  BY <1>1, IndexIs DEF RemoveIfPresent
<1>2. ASSUME NEW p \in 1..Len(l), l[p].name = n
      PROVE  /\ RemoveIfPresent(l, n) \in Seq(S)
             /\ Inserted(RemoveIfPresent(l, n), l, p - 1, l[p])
  <2> DEFINE a == SubSeq(l, 1, p - 1)
             c == SubSeq(l, p + 1, Len(l))
  <2>1. p \in Nat /\ p > 0 /\ Len(l) \in Nat /\ p <= Len(l)
    OBVIOUS
  <2>2. RemoveIfPresent(l, n) = a \o c
    <3>1. IndexOfName(l, n) = p /\ p # 0
      BY <1>2, <2>1, IndexIs
    <3> QED BY <3>1, Zenon DEF RemoveIfPresent
  <2>3. a \in Seq(S) /\ Len(a) = p - 1 /\ \A j \in 1..(p - 1) : a[j] = l[j]
    BY <2>1
  <2>4. c \in Seq(S) /\ Len(c) = Len(l) - p /\ \A j \in 1..(Len(l) - p) : c[j] = l[p + j]
    BY <2>1
  <2> HIDE DEF a, c
  <2>5. /\ a \o c \in Seq(S) /\ Len(a \o c) = Len(a) + Len(c)
        /\ \A j \in 1..Len(a) : (a \o c)[j] = a[j]
        /\ \A j \in 1..Len(c) : (a \o c)[Len(a) + j] = c[j]
    <3>1. a \in Seq(S) /\ c \in Seq(S)
      BY <2>3, <2>4
    <3> QED BY ONLY <3>1, ConcatAt
  <2> DEFINE r == a \o c
  <2>6. r \in Seq(S) /\ Len(r) = Len(l) - 1 /\ \A j \in 1..(p - 1) : r[j] = l[j]
    BY <2>1, <2>3, <2>4, <2>5
  <2>7. ASSUME NEW j \in p..Len(r) PROVE l[j + 1] = r[j]
    <3>1. j + 1 - p \in 1..(Len(l) - p) /\ p + (j + 1 - p) = j + 1 /\ Len(a) + (j + 1 - p) = j
      BY <2>1, <2>3, <2>6
    <3>2. r[Len(a) + (j + 1 - p)] = c[j + 1 - p]
      BY <3>1, <2>4, <2>5
    <3>3. c[j + 1 - p] = l[p + (j + 1 - p)]
      BY <3>1, <2>4
    <3> QED BY <3>1, <3>2, <3>3
  <2>8. p - 1 \in 0..Len(r) /\ Len(l) = Len(r) + 1 /\ (p - 1) + 1 = p
    BY <2>1, <2>6
  <2> HIDE DEF r
  <2>9. Inserted(r, l, p - 1, l[p])
    BY <2>6, <2>7, <2>8 DEF Inserted
  <2> QED BY <2>2, <2>6, <2>9 DEF r
<1>3. RemoveIfPresent(l, n) \in Seq(S)
  BY <1>1, <1>2 DEF Has
<1> QED BY <1>1, <1>2, <1>3

-------------------------------------------------------------------------------
(* What an insertion, or a removal seen backwards, does to the list *)

\* Where position j of s is in t.
Up(k, j) == IF j <= k THEN j ELSE j + 1

LEMMA InsertedAt ==
    ASSUME NEW S, NEW s \in Seq(S), NEW t \in Seq(S), NEW k, NEW x, Inserted(s, t, k, x)
    PROVE  /\ k \in Nat /\ Len(s) \in Nat /\ k + 1 \in DOMAIN t /\ t[k + 1] = x /\ x \in S
           /\ \A j \in DOMAIN s : Up(k, j) \in DOMAIN t /\ Up(k, j) # k + 1 /\ t[Up(k, j)] = s[j]
           /\ \A i \in DOMAIN t : i = k + 1 \/ \E j \in DOMAIN s : i = Up(k, j)
<1>1. k \in Nat /\ Len(s) \in Nat /\ Len(t) = Len(s) + 1 /\ k <= Len(s)
  BY DEF Inserted
<1>2. DOMAIN s = 1..Len(s) /\ DOMAIN t = 1..(Len(s) + 1)
  BY <1>1
<1>3. k + 1 \in DOMAIN t /\ t[k + 1] = x
  BY <1>1, <1>2 DEF Inserted
<1>4. x \in S
  BY <1>3
<1>5. ASSUME NEW j \in DOMAIN s
      PROVE  Up(k, j) \in DOMAIN t /\ Up(k, j) # k + 1 /\ t[Up(k, j)] = s[j]
  <2>1. CASE j <= k
    BY <2>1, <1>1, <1>2 DEF Up, Inserted
  <2>2. CASE ~(j <= k)
    <3>1. j \in (k + 1)..Len(s) /\ Up(k, j) = j + 1
      BY <2>2, <1>1, <1>2 DEF Up
    <3>2. t[j + 1] = s[j]
      BY <3>1 DEF Inserted
    <3> QED BY <3>1, <3>2, <1>1, <1>2
  <2> QED BY <2>1, <2>2
<1>6. ASSUME NEW i \in DOMAIN t, i # k + 1 PROVE \E j \in DOMAIN s : i = Up(k, j)
  <2>1. CASE i <= k
    BY <2>1, <1>1, <1>2 DEF Up
  <2>2. CASE i > k
    <3>1. i - 1 \in DOMAIN s /\ Up(k, i - 1) = i
      BY <2>2, <1>6, <1>1, <1>2 DEF Up
    <3> QED BY <3>1
  <2> QED BY <2>1, <2>2, <1>1, <1>2
<1> QED BY <1>1, <1>3, <1>4, <1>5, <1>6

LEMMA UpOrder ==
    ASSUME NEW k \in Nat, NEW i \in Nat, NEW j \in Nat
    PROVE  /\ Up(k, i) \in Nat /\ (i <= j <=> Up(k, i) <= Up(k, j))
           /\ Up(k, i) = Up(k, j) => i = j
           /\ Up(k, j) = Up(k, i) + 1 => j = i + 1
           /\ j = i + 1 /\ i # k => Up(k, j) = Up(k, i) + 1
BY DEF Up

\* Names stay distinct when one goes, and when a new one comes.
LEMMA InsertedDistinct ==
    ASSUME NEW S, NEW s \in Seq(S), NEW t \in Seq(S), NEW k, NEW x, Inserted(s, t, k, x)
    PROVE  /\ Distinct(t) => Distinct(s) /\ ~Has(s, x.name)
           /\ Distinct(s) /\ ~Has(s, x.name) => Distinct(t)
           /\ \A n : Has(t, n) <=> Has(s, n) \/ n = x.name
<1>1. k \in Nat /\ DOMAIN s \subseteq Nat /\ k + 1 \in DOMAIN t /\ t[k + 1] = x
  BY InsertedAt
<1>2. \A j \in DOMAIN s : Up(k, j) \in DOMAIN t /\ Up(k, j) # k + 1 /\ t[Up(k, j)] = s[j]
  BY InsertedAt
<1>3. \A i \in DOMAIN t : i = k + 1 \/ \E j \in DOMAIN s : i = Up(k, j)
  BY InsertedAt
<1>4. \A i, j \in DOMAIN s : Up(k, i) = Up(k, j) => i = j
  BY <1>1, UpOrder
<1>5. ASSUME Distinct(t) PROVE Distinct(s) /\ ~Has(s, x.name)
  <2>1. Distinct(s)
    BY <1>2, <1>4, <1>5 DEF Distinct
  <2>2. ~Has(s, x.name)
    BY <1>1, <1>2, <1>5 DEF Distinct, Has
  <2> QED BY <2>1, <2>2
<1>6. ASSUME Distinct(s), ~Has(s, x.name) PROVE Distinct(t)
  <2> SUFFICES ASSUME NEW i \in DOMAIN t, NEW j \in DOMAIN t, t[i].name = t[j].name PROVE i = j
    BY DEF Distinct
  <2>1. ASSUME i = k + 1 PROVE i = j
    BY <2>1, <1>1, <1>2, <1>3, <1>6 DEF Has
  <2>2. ASSUME j = k + 1 PROVE i = j
    BY <2>2, <1>1, <1>2, <1>3, <1>6 DEF Has
  <2>3. ASSUME i # k + 1, j # k + 1 PROVE i = j
    <3>1. PICK i0 \in DOMAIN s, j0 \in DOMAIN s : i = Up(k, i0) /\ j = Up(k, j0)
      BY <2>3, <1>3
    <3>2. s[i0].name = s[j0].name
      BY <3>1, <1>2
    <3> QED BY <3>1, <3>2, <1>6 DEF Distinct
  <2> QED BY <2>1, <2>2, <2>3
<1>7. ASSUME NEW n PROVE Has(t, n) <=> Has(s, n) \/ n = x.name
  BY <1>1, <1>2, <1>3 DEF Has
<1> QED BY <1>5, <1>6, <1>7

\* The precedence of the others is the same with and without x.
LEMMA InsertedPrecedence ==
    ASSUME NEW S, NEW s \in Seq(S), NEW t \in Seq(S), NEW k, NEW x, Inserted(s, t, k, x),
           NEW m, NEW n, m # x.name, n # x.name
    PROVE  Precedes(s, m, n) <=> Precedes(t, m, n)
<1>1. k \in Nat /\ DOMAIN s \subseteq Nat /\ t[k + 1] = x
  BY InsertedAt
<1>2. \A j \in DOMAIN s : Up(k, j) \in DOMAIN t /\ t[Up(k, j)] = s[j]
  BY InsertedAt
<1>3. \A i \in DOMAIN t : i = k + 1 \/ \E j \in DOMAIN s : i = Up(k, j)
  BY InsertedAt
<1>4. \A i, j \in DOMAIN s : i <= j <=> Up(k, i) <= Up(k, j)
  BY <1>1, UpOrder
<1>5. ASSUME Precedes(s, m, n) PROVE Precedes(t, m, n)
  <2>1. PICK i \in DOMAIN s, j \in DOMAIN s : i <= j /\ s[i].name = m /\ s[j].name = n
    BY <1>5 DEF Precedes
  <2>2. Up(k, i) <= Up(k, j) /\ t[Up(k, i)].name = m /\ t[Up(k, j)].name = n
    BY <2>1, <1>2, <1>4
  <2> QED BY <2>2, <1>2 DEF Precedes
<1>6. ASSUME Precedes(t, m, n) PROVE Precedes(s, m, n)
  <2>1. PICK i \in DOMAIN t, j \in DOMAIN t : i <= j /\ t[i].name = m /\ t[j].name = n
    BY <1>6 DEF Precedes
  <2>2. i # k + 1 /\ j # k + 1
    BY <2>1, <1>1
  <2>3. PICK i0 \in DOMAIN s, j0 \in DOMAIN s : i = Up(k, i0) /\ j = Up(k, j0)
    BY <2>2, <1>3
  <2>4. i0 <= j0 /\ s[i0].name = m /\ s[j0].name = n
    BY <2>1, <2>3, <1>2, <1>4
  <2> QED BY <2>4 DEF Precedes
<1> QED BY <1>5, <1>6

-------------------------------------------------------------------------------
(* Lookups *)

\* Source i is the first one with the key.
Answers(l, key, i) ==
    /\ i \in DOMAIN l /\ key \in DOMAIN l[i].kv
    /\ \A j \in DOMAIN l : j < i => key \notin DOMAIN l[j].kv

\* getProperty, without the CHOOSE.
LEMMA LookupIs ==
    ASSUME NEW S, NEW l \in Seq(S), NEW key
    PROVE  /\ \A i : Answers(l, key, i) => Lookup(l, key, None) = l[i].kv[key]
           /\ (\A i : ~Answers(l, key, i)) => Lookup(l, key, None) = None
<1> DEFINE H == {i \in DOMAIN l : key \in DOMAIN l[i].kv}
<1>1. H \in SUBSET Nat
  OBVIOUS
<1>2. Lookup(l, key, None) = IF H = {} THEN None ELSE l[CHOOSE i \in H : \A j \in H : i <= j].kv[key]
  BY DEF Lookup
<1>3. ASSUME NEW i, Answers(l, key, i) PROVE Lookup(l, key, None) = l[i].kv[key]
  <2>1. i \in H /\ \A j \in H : ~(j < i)
    BY <1>3 DEF Answers
  <2> HIDE DEF H
  <2>2. i \in H /\ \A j \in H : i <= j
    BY <2>1, <1>1
  <2>3. \A c \in H : (\A j \in H : c <= j) => c = i
    BY <2>2, <1>1
  <2>4. (CHOOSE c \in H : \A j \in H : c <= j) = i
    BY <2>2, <2>3
  <2> QED BY <1>2, <2>2, <2>4
<1>4. ASSUME \A i : ~Answers(l, key, i) PROVE Lookup(l, key, None) = None
  <2>1. ASSUME H # {} PROVE FALSE
    <3>1. PICK i \in H : \A j \in H : i <= j
      BY <2>1, <1>1, Smallest
    <3>2. Answers(l, key, i)
      BY <3>1, <1>1 DEF Answers
    <3> QED BY <3>2, <1>4
  <2> QED BY <2>1, <1>2
<1> QED BY <1>3, <1>4

\* Two lists whose sources answer alike give the same value.
LEMMA LookupSame ==
    ASSUME NEW S, NEW l \in Seq(S), NEW r \in Seq(S), NEW key,
           \A i : Answers(l, key, i) => \E j : Answers(r, key, j) /\ r[j].kv[key] = l[i].kv[key],
           \A j : Answers(r, key, j) => \E i : Answers(l, key, i)
    PROVE  Lookup(l, key, None) = Lookup(r, key, None)
<1>1. ASSUME NEW i, Answers(l, key, i) PROVE Lookup(l, key, None) = Lookup(r, key, None)
  <2>1. PICK j : Answers(r, key, j) /\ r[j].kv[key] = l[i].kv[key]
    BY <1>1
  <2> QED BY <1>1, <2>1, LookupIs
<1>2. ASSUME \A i : ~Answers(l, key, i) PROVE Lookup(l, key, None) = Lookup(r, key, None)
  <2>1. \A j : ~Answers(r, key, j)
    BY <1>2
  <2> QED BY <1>2, <2>1, LookupIs
<1> QED BY <1>1, <1>2

\* A source without the key changes no lookup of it.
LEMMA InsertedLookup ==
    ASSUME NEW S, NEW s \in Seq(S), NEW t \in Seq(S), NEW k, NEW x, Inserted(s, t, k, x),
           NEW key, key \notin DOMAIN x.kv
    PROVE  Lookup(s, key, None) = Lookup(t, key, None)
<1>1. k \in Nat /\ DOMAIN s \subseteq Nat /\ t[k + 1] = x
  BY InsertedAt
<1>2. \A j \in DOMAIN s : Up(k, j) \in DOMAIN t /\ t[Up(k, j)] = s[j]
  BY InsertedAt
<1>3. \A i \in DOMAIN t : i = k + 1 \/ \E j \in DOMAIN s : i = Up(k, j)
  BY InsertedAt
<1>4. \A i, j \in DOMAIN s : Up(k, i) < Up(k, j) <=> i < j
  <2> SUFFICES ASSUME NEW i \in DOMAIN s, NEW j \in DOMAIN s PROVE Up(k, i) < Up(k, j) <=> i < j
    OBVIOUS
  <2> QED BY <1>1 DEF Up
<1>5. ASSUME NEW i, Answers(s, key, i) PROVE Answers(t, key, Up(k, i))
  <2>1. i \in DOMAIN s /\ Up(k, i) \in DOMAIN t /\ key \in DOMAIN t[Up(k, i)].kv
    BY <1>2, <1>5 DEF Answers
  <2>2. ASSUME NEW j \in DOMAIN t, j < Up(k, i), key \in DOMAIN t[j].kv PROVE FALSE
    <3>1. PICK j0 \in DOMAIN s : j = Up(k, j0)
      BY <2>2, <1>1, <1>3
    <3>2. j0 < i /\ key \in DOMAIN s[j0].kv
      BY <2>1, <2>2, <3>1, <1>2, <1>4
    <3> QED BY <3>2, <1>5 DEF Answers
  <2> QED BY <2>1, <2>2 DEF Answers
<1>6. ASSUME NEW j, Answers(t, key, j) PROVE \E i : Answers(s, key, i)
  <2>1. j \in DOMAIN t /\ j # k + 1
    BY <1>1, <1>6 DEF Answers
  <2>2. PICK i \in DOMAIN s : j = Up(k, i)
    BY <2>1, <1>3
  <2>3. key \in DOMAIN s[i].kv
    BY <2>2, <1>2, <1>6 DEF Answers
  <2>4. ASSUME NEW i0 \in DOMAIN s, i0 < i PROVE key \notin DOMAIN s[i0].kv
    <3>1. Up(k, i0) \in DOMAIN t /\ Up(k, i0) < j
      BY <2>2, <2>4, <1>2, <1>4
    <3> QED BY <3>1, <1>2, <1>6 DEF Answers
  <2> QED BY <2>3, <2>4 DEF Answers
<1>7. ASSUME NEW i, Answers(s, key, i)
      PROVE  \E j : Answers(t, key, j) /\ t[j].kv[key] = s[i].kv[key]
  <2>1. t[Up(k, i)] = s[i]
    BY <1>2, <1>7 DEF Answers
  <2> QED BY <2>1, <1>5, <1>7
<1> QED BY <1>6, <1>7, LookupSame

-------------------------------------------------------------------------------
(* Sources and their decrypt sources *)

\* The source at i has a decrypt source next to it exactly if it needs one.
Paired(l, i) ==
    /\ Enciphered(l[i].kv) = {} => ~Has(l, DecryptName(l[i].name))
    /\ Enciphered(l[i].kv) # {} =>
         \E d \in DOMAIN l : (d = i + 1 \/ i = d + 1) /\ l[d] = DecryptSource(l[i])

PairedBut(l, M) == \A i \in DOMAIN l : ~IsDec(l[i].name) /\ l[i].name \notin M => Paired(l, i)
PairedAll(l) == PairedBut(l, {})

\* No decrypt source without its source.
Accompanied(l) ==
    \A j \in DOMAIN l : IsDec(l[j].name) =>
        \E i \in DOMAIN l : ~IsDec(l[i].name) /\ l[j].name = DecryptName(l[i].name)

\* A source that is the decrypt source of no name outside M.
ForeignBut(x, M) == \A n \in Names : ~IsDec(n) /\ n \notin M => x.name # DecryptName(n)

LEMMA ForeignFacts ==
    ASSUME NEW M, NEW m \in Names, ~IsDec(m), NEW x \in Src,
           x.name = m \/ (m \in M /\ x.name = DecryptName(m))
    PROVE  ForeignBut(x, M)
BY NameFacts DEF ForeignBut

\* Taking the decrypt source of a name in M away separates no other pair.
LEMMA RemovedPaired ==
    ASSUME NEW s \in Seq(Src), NEW t \in Seq(Src), NEW k, NEW x, Inserted(s, t, k, x),
           NEW M, ForeignBut(x, M), PairedBut(t, M)
    PROVE  PairedBut(s, M)
<1>1. k \in Nat /\ DOMAIN s \subseteq Nat /\ t[k + 1] = x
  BY InsertedAt
<1>2. \A j \in DOMAIN s : Up(k, j) \in DOMAIN t /\ t[Up(k, j)] = s[j]
  BY InsertedAt
<1>3. \A i \in DOMAIN t : i = k + 1 \/ \E j \in DOMAIN s : i = Up(k, j)
  BY InsertedAt
<1> SUFFICES ASSUME NEW i \in DOMAIN s, ~IsDec(s[i].name), s[i].name \notin M PROVE Paired(s, i)
  BY DEF PairedBut
<1>4. Paired(t, Up(k, i)) /\ t[Up(k, i)] = s[i]
  BY <1>2 DEF PairedBut
<1>5. s[i] \in Src /\ s[i].name \in Names
  BY ElementIn
<1>6. ASSUME Enciphered(s[i].kv) = {} PROVE ~Has(s, DecryptName(s[i].name))
  BY <1>2, <1>4, <1>6 DEF Paired, Has
<1>7. ASSUME Enciphered(s[i].kv) # {}
      PROVE  \E d \in DOMAIN s : (d = i + 1 \/ i = d + 1) /\ s[d] = DecryptSource(s[i])
  <2>1. PICK e \in DOMAIN t : (e = Up(k, i) + 1 \/ Up(k, i) = e + 1) /\ t[e] = DecryptSource(s[i])
    BY <1>4, <1>7 DEF Paired
  <2>2. t[e].name = DecryptName(s[i].name)
    BY <2>1, <1>5, DecryptSourceFacts
  <2>3. e # k + 1
    BY <2>2, <1>1, <1>5 DEF ForeignBut
  <2>4. PICK d \in DOMAIN s : e = Up(k, d)
    BY <2>3, <1>3
  <2>5. d = i + 1 \/ i = d + 1
    <3>1. k \in Nat /\ i \in Nat /\ d \in Nat
      BY <1>1
    <3>2. Up(k, d) = Up(k, i) + 1 \/ Up(k, i) = Up(k, d) + 1
      BY <2>1, <2>4
    <3>3. \A a, b \in Nat : Up(k, b) = Up(k, a) + 1 => b = a + 1
      BY <3>1, UpOrder
    <3> QED BY ONLY <3>1, <3>2, <3>3
  <2>6. s[d] = DecryptSource(s[i])
    BY <2>1, <2>4, <1>2
  <2> QED BY <2>5, <2>6
<1> QED BY <1>6, <1>7 DEF Paired

\* No pair of another source lies on both sides of place k.
Unsplit(s, k, M) ==
    \A i, d \in DOMAIN s :
        ~IsDec(s[i].name) /\ s[i].name \notin M /\ s[d] = DecryptSource(s[i]) =>
            ~(i = k /\ d = k + 1) /\ ~(d = k /\ i = k + 1)

LEMMA InsertedPaired ==
    ASSUME NEW s \in Seq(Src), NEW t \in Seq(Src), NEW k, NEW x, Inserted(s, t, k, x),
           NEW M, ForeignBut(x, M), IsDec(x.name) \/ x.name \in M, PairedBut(s, M), Unsplit(s, k, M)
    PROVE  PairedBut(t, M)
<1>1. k \in Nat /\ DOMAIN s \subseteq Nat /\ t[k + 1] = x
  BY InsertedAt
<1>2. \A j \in DOMAIN s : Up(k, j) \in DOMAIN t /\ t[Up(k, j)] = s[j]
  BY InsertedAt
<1>3. \A i \in DOMAIN t : i = k + 1 \/ \E j \in DOMAIN s : i = Up(k, j)
  BY InsertedAt
<1> SUFFICES ASSUME NEW j \in DOMAIN t, ~IsDec(t[j].name), t[j].name \notin M PROVE Paired(t, j)
  BY DEF PairedBut
<1>4. PICK i \in DOMAIN s : j = Up(k, i)
  BY <1>1, <1>3
<1>5. t[j] = s[i]
  BY <1>2, <1>4
<1>6. s[i] \in Src /\ s[i].name \in Names
  BY ElementIn
<1>7. Paired(s, i)
  BY <1>5 DEF PairedBut
<1>8. ASSUME Enciphered(t[j].kv) = {} PROVE ~Has(t, DecryptName(t[j].name))
  <2>1. ~Has(s, DecryptName(s[i].name))
    BY <1>5, <1>7, <1>8 DEF Paired
  <2>2. x.name # DecryptName(s[i].name)
    BY <1>5, <1>6 DEF ForeignBut
  <2> QED BY <2>1, <2>2, <1>5, InsertedDistinct
<1>9. ASSUME Enciphered(t[j].kv) # {}
      PROVE  \E d \in DOMAIN t : (d = j + 1 \/ j = d + 1) /\ t[d] = DecryptSource(t[j])
  <2>1. PICK d \in DOMAIN s : (d = i + 1 \/ i = d + 1) /\ s[d] = DecryptSource(s[i])
    BY <1>5, <1>7, <1>9 DEF Paired
  <2>2. ~(i = k /\ d = k + 1) /\ ~(d = k /\ i = k + 1)
    BY <2>1, <1>5 DEF Unsplit
  <2>3. Up(k, d) = j + 1 \/ j = Up(k, d) + 1
    <3>1. k \in Nat /\ i \in Nat /\ d \in Nat
      BY <1>1
    <3>2. (d = i + 1 /\ i # k) \/ (i = d + 1 /\ d # k)
      BY <2>1, <2>2
    <3>3. Up(k, d) = Up(k, i) + 1 \/ Up(k, i) = Up(k, d) + 1
      BY ONLY <3>1, <3>2, UpOrder
    <3> QED BY <3>3, <1>4
  <2>4. t[Up(k, d)] = DecryptSource(t[j])
    BY <2>1, <1>2, <1>5
  <2> QED BY <2>3, <2>4, <1>2
<1> QED BY <1>8, <1>9 DEF Paired

\* No decrypt source is left alone when a decrypt source goes, or when a source
\* comes that is none or has its source in the list.
LEMMA InsertedAccompanied ==
    ASSUME NEW s \in Seq(Src), NEW t \in Seq(Src), NEW k, NEW x, Inserted(s, t, k, x)
    PROVE  /\ IsDec(x.name) /\ Accompanied(t) => Accompanied(s)
           /\ ~IsDec(x.name) /\ Accompanied(s) => Accompanied(t)
           /\ Accompanied(s)
              /\ (\E i \in DOMAIN s : ~IsDec(s[i].name) /\ x.name = DecryptName(s[i].name))
              => Accompanied(t)
<1>1. k \in Nat /\ t[k + 1] = x
  BY InsertedAt
<1>2. \A j \in DOMAIN s : Up(k, j) \in DOMAIN t /\ t[Up(k, j)] = s[j]
  BY InsertedAt
<1>3. \A i \in DOMAIN t : i = k + 1 \/ \E j \in DOMAIN s : i = Up(k, j)
  BY InsertedAt
<1>4. ASSUME IsDec(x.name), Accompanied(t) PROVE Accompanied(s)
  <2> SUFFICES ASSUME NEW j \in DOMAIN s, IsDec(s[j].name)
               PROVE  \E i \in DOMAIN s : ~IsDec(s[i].name) /\ s[j].name = DecryptName(s[i].name)
    BY DEF Accompanied
  <2>1. PICK i \in DOMAIN t : ~IsDec(t[i].name) /\ s[j].name = DecryptName(t[i].name)
    BY <1>2, <1>4 DEF Accompanied
  <2>2. PICK i0 \in DOMAIN s : i = Up(k, i0)
    BY <2>1, <1>1, <1>3, <1>4
  <2> QED BY <2>1, <2>2, <1>2
<1>5. ASSUME ~IsDec(x.name) \/ (\E i \in DOMAIN s : ~IsDec(s[i].name) /\ x.name = DecryptName(s[i].name)),
             Accompanied(s)
      PROVE  Accompanied(t)
  <2> SUFFICES ASSUME NEW j \in DOMAIN t, IsDec(t[j].name)
               PROVE  \E i \in DOMAIN t : ~IsDec(t[i].name) /\ t[j].name = DecryptName(t[i].name)
    BY DEF Accompanied
  <2>1. PICK i \in DOMAIN s : ~IsDec(s[i].name) /\ t[j].name = DecryptName(s[i].name)
    <3>1. CASE j = k + 1
      BY <3>1, <1>1, <1>5
    <3>2. CASE j # k + 1
      <4>1. PICK j0 \in DOMAIN s : j = Up(k, j0)
        BY <3>2, <1>3
      <4>2. s[j0] = t[j]
        BY <4>1, <1>2
      <4> QED BY <4>2, <1>5 DEF Accompanied
    <3> QED BY <3>1, <3>2
  <2> QED BY <2>1, <1>2
<1> QED BY <1>4, <1>5

\* WithDecrypt takes the decrypt source of ps out of the list, if there is one,
\* which leaves r, and puts the new one, if it needs one, next to ps at i.
DecryptedBy(l, t, i, ps, r) ==
    /\ \/ r = l /\ ~Has(l, DecryptName(ps.name))
       \/ \E p \in DOMAIN l : l[p].name = DecryptName(ps.name) /\ Inserted(r, l, p - 1, l[p])
    /\ Distinct(r) /\ ~Has(r, DecryptName(ps.name))
    /\ \/ Enciphered(ps.kv) = {} /\ t = r
       \/ Enciphered(ps.kv) # {} /\ Inserted(r, t, i - 1, DecryptSource(ps))
    /\ \E j \in DOMAIN r : r[j] = ps /\ (j = i - 1 \/ j = i)

LEMMA DecryptMoves ==
    ASSUME NEW l \in Seq(Src), Distinct(l), NEW i \in DOMAIN l, ~IsDec(l[i].name)
    PROVE  /\ WithDecrypt(l, l[i]) \in Seq(Src)
           /\ \E r \in Seq(Src) : DecryptedBy(l, WithDecrypt(l, l[i]), i, l[i], r)
<1> DEFINE ps == l[i]
           dn == DecryptName(ps.name)
           r == RemoveIfPresent(l, dn)
           d == DecryptSource(ps)
           t == WithDecrypt(l, ps)
<1>1. i \in 1..Len(l) /\ Len(l) \in Nat /\ i \in Nat /\ i - 1 \in Nat
  OBVIOUS
<1>2. ps \in Src /\ ps.name \in Names /\ dn # ps.name /\ d \in Src /\ d.name = dn
  BY ElementIn, NameFacts, DecryptSourceFacts
<1>3. r \in Seq(Src)
  BY RemoveIs
<1>4. IndexOfName(l, ps.name) = i
  BY <1>1, IndexIs
<1>5. t = IF Enciphered(ps.kv) # {} THEN AddIndex(r, i - 1, d) ELSE r
  <2>1. t = IF Enciphered(ps.kv) # {} THEN AddBefore(l, ps.name, d) ELSE r
    BY DEF WithDecrypt
  <2>2. AddBefore(l, ps.name, d) = AddIndex(RemoveIfPresent(l, d.name), IndexOfName(l, ps.name) - 1, d)
    BY DEF AddBefore
  <2> QED BY <1>2, <1>4, <2>1, <2>2
<1> HIDE DEF r, d, t, dn
<1>6. \/ r = l /\ ~Has(l, dn)
      \/ \E p \in DOMAIN l : l[p].name = dn /\ Inserted(r, l, p - 1, l[p])
  <2>1. CASE ~Has(l, dn)
    BY <2>1, RemoveIs DEF r
  <2>2. CASE Has(l, dn)
    <3>1. PICK p \in DOMAIN l : l[p].name = dn
      BY <2>2 DEF Has
    <3>2. p \in 1..Len(l)
      OBVIOUS
    <3>3. Inserted(r, l, p - 1, l[p])
      BY <3>1, <3>2, RemoveIs DEF r
    <3> QED BY <3>1, <3>3
  <2> QED BY <2>1, <2>2
<1>7. Distinct(r) /\ ~Has(r, dn)
  BY <1>3, <1>6, InsertedDistinct
<1>8. \E j \in DOMAIN r : r[j] = ps /\ (j = i - 1 \/ j = i)
  <2>1. CASE r = l
    BY <2>1
  <2>2. ASSUME NEW p \in DOMAIN l, l[p].name = dn, Inserted(r, l, p - 1, l[p])
        PROVE  \E j \in DOMAIN r : r[j] = ps /\ (j = i - 1 \/ j = i)
    <3>1. i # p /\ p - 1 \in Nat /\ (p - 1) + 1 = p
      BY <2>2, <1>2
    <3>2. PICK j \in DOMAIN r : i = Up(p - 1, j)
      BY <2>2, <3>1, <1>3, InsertedAt
    <3>3. l[Up(p - 1, j)] = r[j]
      BY <2>2, <1>3, InsertedAt
    <3>4. j \in Nat
      BY <1>3
    <3>5. j = i - 1 \/ j = i
      BY <3>1, <3>2, <3>4, <1>1 DEF Up
    <3> QED BY <3>2, <3>3, <3>5
  <2> QED BY <2>1, <2>2, <1>6
<1>9. i - 1 \in 0..Len(r)
  <2>1. PICK j \in 1..Len(r) : j = i - 1 \/ j = i
    BY <1>3, <1>8
  <2> QED BY <2>1, <1>1, <1>3
<1>10. /\ t \in Seq(Src)
       /\ \/ Enciphered(ps.kv) = {} /\ t = r
          \/ Enciphered(ps.kv) # {} /\ Inserted(r, t, i - 1, d)
  <2>1. CASE Enciphered(ps.kv) = {}
    BY <2>1, <1>3, <1>5
  <2>2. CASE Enciphered(ps.kv) # {}
    <3>1. t = AddIndex(r, i - 1, d)
      BY <2>2, <1>5
    <3>2. t \in Seq(Src) /\ Inserted(r, t, i - 1, d)
      BY <3>1, <1>2, <1>3, <1>9, AddIndexIs
    <3> QED BY <2>2, <3>2
  <2> QED BY <2>1, <2>2
<1>11. DecryptedBy(l, t, i, ps, r)
  BY <1>6, <1>7, <1>8, <1>10 DEF DecryptedBy, dn, d
<1> QED BY <1>3, <1>10, <1>11 DEF t

\* What WithDecrypt keeps and restores for the source at i: distinct names, the
\* other pairs, and the pair of the source itself.
LEMMA DecryptKeeps ==
    ASSUME NEW l \in Seq(Src), Distinct(l), Accompanied(l),
           NEW i \in DOMAIN l, ~IsDec(l[i].name), NEW M, l[i].name \in M, PairedBut(l, M)
    PROVE  /\ WithDecrypt(l, l[i]) \in Seq(Src) /\ Distinct(WithDecrypt(l, l[i]))
           /\ PairedBut(WithDecrypt(l, l[i]), M \ {l[i].name}) /\ Accompanied(WithDecrypt(l, l[i]))
<1> DEFINE ps == l[i]
           m == ps.name
           t == WithDecrypt(l, ps)
           d == DecryptSource(ps)
<1>1. PICK r \in Seq(Src) : DecryptedBy(l, t, i, ps, r)
  BY DecryptMoves
<1>2. t \in Seq(Src) /\ i \in Nat
  BY DecryptMoves
<1>3. ps \in Src /\ m \in Names /\ d \in Src /\ d.name = DecryptName(m) /\ IsDec(d.name)
  BY ElementIn, NameFacts, DecryptSourceFacts
<1> HIDE DEF t, d
<1>4. ForeignBut(d, M)
  BY <1>3, ForeignFacts
<1>5. PairedBut(r, M) /\ Accompanied(r)
  <2>1. ASSUME NEW p \in DOMAIN l, l[p].name = DecryptName(m), Inserted(r, l, p - 1, l[p])
        PROVE  PairedBut(r, M) /\ Accompanied(r)
    <3>1. l[p] \in Src
      BY ElementIn
    <3>2. ForeignBut(l[p], M) /\ IsDec(l[p].name)
      BY <2>1, <3>1, <1>3, ForeignFacts
    <3> QED BY <2>1, <3>2, RemovedPaired, InsertedAccompanied
  <2> QED BY <2>1, <1>1 DEF DecryptedBy
<1>6. PICK j \in DOMAIN r : r[j] = ps /\ (j = i - 1 \/ j = i)
  BY <1>1 DEF DecryptedBy
<1>7. Distinct(r) /\ ~Has(r, DecryptName(m)) /\ j \in Nat
  BY <1>1 DEF DecryptedBy
<1>8. CASE Enciphered(ps.kv) = {} /\ t = r
  <2>1. ASSUME NEW i0 \in DOMAIN r, ~IsDec(r[i0].name), r[i0].name = m PROVE Paired(r, i0)
    <3>1. i0 = j
      BY <2>1, <1>6, <1>7 DEF Distinct
    <3>2. Enciphered(r[i0].kv) = {} /\ ~Has(r, DecryptName(r[i0].name))
      BY <3>1, <1>6, <1>7, <1>8
    <3> QED BY <3>2 DEF Paired
  <2>2. PairedBut(r, M \ {m})
    BY <2>1, <1>5 DEF PairedBut
  <2> QED BY <2>2, <1>2, <1>5, <1>7, <1>8 DEF t
<1>9. CASE Enciphered(ps.kv) # {} /\ Inserted(r, t, i - 1, d)
  <2> DEFINE k == i - 1
  <2>0. k \in Nat /\ k + 1 = i /\ (j = k \/ j = k + 1)
    BY <1>2, <1>6
  <2> HIDE DEF k
  <2>1. Inserted(r, t, k, d)
    BY <1>9 DEF k
  <2>2. Distinct(t)
    BY <2>1, <1>2, <1>3, <1>7, InsertedDistinct
  <2>3. Unsplit(r, k, M)
    <3> SUFFICES ASSUME NEW a \in DOMAIN r, NEW b \in DOMAIN r, ~IsDec(r[a].name), r[a].name \notin M,
                        r[b] = DecryptSource(r[a])
                 PROVE  a # j /\ b # j
      BY <2>0 DEF Unsplit
    <3>1. IsDec(r[b].name)
      BY ElementIn, DecryptSourceFacts, NameFacts
    <3> QED BY <3>1, <1>6
  <2>4. PairedBut(t, M)
    BY <2>1, <2>3, <1>2, <1>3, <1>4, <1>5, InsertedPaired
  <2>5. Accompanied(t)
    BY <2>1, <1>2, <1>3, <1>5, <1>6, InsertedAccompanied
  <2>6. /\ Up(k, j) \in DOMAIN t /\ t[Up(k, j)] = ps /\ k + 1 \in DOMAIN t /\ t[k + 1] = d
        /\ (Up(k, j) = k \/ Up(k, j) = k + 2)
    <3>1. Up(k, j) \in DOMAIN t /\ t[Up(k, j)] = ps /\ k + 1 \in DOMAIN t /\ t[k + 1] = d
      BY <2>1, <1>2, <1>6, InsertedAt
    <3> QED BY <3>1, <2>0, <1>7 DEF Up
  <2>7. ASSUME NEW i0 \in DOMAIN t, ~IsDec(t[i0].name), t[i0].name = m PROVE Paired(t, i0)
    <3>1. i0 = Up(k, j)
      BY <2>2, <2>6, <2>7 DEF Distinct
    <3>2. t[i0] = ps /\ (k + 1 = i0 + 1 \/ i0 = (k + 1) + 1)
      BY <3>1, <2>0, <2>6
    <3>3. \E e \in DOMAIN t : (e = i0 + 1 \/ i0 = e + 1) /\ t[e] = DecryptSource(t[i0])
      BY <3>2, <2>6 DEF d
    <3> QED BY <3>2, <3>3, <1>9 DEF Paired
  <2>8. PairedBut(t, M \ {m})
    BY <2>4, <2>7 DEF PairedBut
  <2> QED BY <2>2, <2>5, <2>8, <1>2 DEF t
<1> QED BY <1>1, <1>8, <1>9 DEF DecryptedBy, d

\* WithDecrypt adds no source but the decrypt source, and loses none but its old one.
LEMMA DecryptElements ==
    ASSUME NEW l \in Seq(Src), Distinct(l), NEW i \in DOMAIN l, ~IsDec(l[i].name)
    PROVE  /\ \A j \in DOMAIN WithDecrypt(l, l[i]) :
                \/ WithDecrypt(l, l[i])[j] = DecryptSource(l[i])
                \/ \E j0 \in DOMAIN l : WithDecrypt(l, l[i])[j] = l[j0]
           /\ \A j \in DOMAIN l : l[j].name # DecryptName(l[i].name) =>
                \E j0 \in DOMAIN WithDecrypt(l, l[i]) : WithDecrypt(l, l[i])[j0] = l[j]
<1> DEFINE ps == l[i]
           t == WithDecrypt(l, ps)
           d == DecryptSource(ps)
           dn == DecryptName(ps.name)
<1>1. PICK r \in Seq(Src) : DecryptedBy(l, t, i, ps, r)
  BY DecryptMoves
<1>2. t \in Seq(Src)
  BY DecryptMoves
<1> HIDE DEF t, d, dn
<1>3. /\ \A j \in DOMAIN r : \E j0 \in DOMAIN l : r[j] = l[j0]
      /\ \A j \in DOMAIN l : l[j].name # dn => \E j0 \in DOMAIN r : r[j0] = l[j]
  <2>1. ASSUME NEW p \in DOMAIN l, l[p].name = dn, Inserted(r, l, p - 1, l[p])
        PROVE  /\ \A j \in DOMAIN r : \E j0 \in DOMAIN l : r[j] = l[j0]
               /\ \A j \in DOMAIN l : l[j].name # dn => \E j0 \in DOMAIN r : r[j0] = l[j]
    <3>1. (p - 1) + 1 = p
      OBVIOUS
    <3>2. \A j \in DOMAIN r : Up(p - 1, j) \in DOMAIN l /\ l[Up(p - 1, j)] = r[j]
      BY <2>1, InsertedAt
    <3>3. \A j \in DOMAIN l : j = (p - 1) + 1 \/ \E j0 \in DOMAIN r : j = Up(p - 1, j0)
      BY <2>1, InsertedAt
    <3>4. ASSUME NEW j \in DOMAIN l, l[j].name # dn PROVE \E j0 \in DOMAIN r : r[j0] = l[j]
      <4>1. j # p
        BY <2>1, <3>4
      <4>2. PICK j0 \in DOMAIN r : j = Up(p - 1, j0)
        BY <4>1, <3>1, <3>3
      <4> QED BY <4>2, <3>2
    <3> QED BY <3>2, <3>4
  <2> QED BY <2>1, <1>1 DEF DecryptedBy, dn
<1>4. /\ \A j \in DOMAIN t : t[j] = d \/ \E j0 \in DOMAIN r : t[j] = r[j0]
      /\ \A j \in DOMAIN r : \E j0 \in DOMAIN t : t[j0] = r[j]
  <2>1. ASSUME Inserted(r, t, i - 1, d)
        PROVE  /\ \A j \in DOMAIN t : t[j] = d \/ \E j0 \in DOMAIN r : t[j] = r[j0]
               /\ \A j \in DOMAIN r : \E j0 \in DOMAIN t : t[j0] = r[j]
    <3>1. t[(i - 1) + 1] = d
      BY <2>1, <1>2, InsertedAt
    <3>2. \A j \in DOMAIN r : Up(i - 1, j) \in DOMAIN t /\ t[Up(i - 1, j)] = r[j]
      BY <2>1, <1>2, InsertedAt
    <3>3. \A j \in DOMAIN t : j = (i - 1) + 1 \/ \E j0 \in DOMAIN r : j = Up(i - 1, j0)
      BY <2>1, <1>2, InsertedAt
    <3> QED BY <3>1, <3>2, <3>3
  <2> QED BY <2>1, <1>1 DEF DecryptedBy, d
<1> QED BY <1>3, <1>4 DEF t, d, dn

\* It changes the precedence of no other source.
LEMMA DecryptPrecedence ==
    ASSUME NEW l \in Seq(Src), Distinct(l), NEW i \in DOMAIN l, ~IsDec(l[i].name),
           NEW m, NEW n, ~IsDec(m), ~IsDec(n)
    PROVE  Precedes(WithDecrypt(l, l[i]), m, n) <=> Precedes(l, m, n)
<1> DEFINE ps == l[i]
           t == WithDecrypt(l, ps)
           d == DecryptSource(ps)
           dn == DecryptName(ps.name)
<1>1. PICK r \in Seq(Src) : DecryptedBy(l, t, i, ps, r)
  BY DecryptMoves
<1>2. t \in Seq(Src)
  BY DecryptMoves
<1>3. IsDec(dn) /\ d.name = dn
  BY ElementIn, NameFacts, DecryptSourceFacts
<1>4. m # dn /\ n # dn
  BY <1>3
<1> HIDE DEF t, d, dn
<1>5. Precedes(r, m, n) <=> Precedes(l, m, n)
  <2>1. ASSUME NEW p \in DOMAIN l, l[p].name = dn, Inserted(r, l, p - 1, l[p])
        PROVE  Precedes(r, m, n) <=> Precedes(l, m, n)
    <3>1. m # l[p].name /\ n # l[p].name
      BY <2>1, <1>4
    <3> QED BY <2>1, <3>1, InsertedPrecedence
  <2> QED BY <2>1, <1>1 DEF DecryptedBy, dn
<1>6. Precedes(r, m, n) <=> Precedes(t, m, n)
  <2>1. ASSUME Inserted(r, t, i - 1, d) PROVE Precedes(r, m, n) <=> Precedes(t, m, n)
    BY <2>1, <1>2, <1>3, <1>4, InsertedPrecedence
  <2> QED BY <2>1, <1>1 DEF DecryptedBy, d
<1> QED BY <1>5, <1>6 DEF t

\* Nor a lookup of a key that was and is not enciphered in the source.
LEMMA DecryptLookup ==
    ASSUME NEW l \in Seq(Src), Distinct(l), NEW i \in DOMAIN l, ~IsDec(l[i].name),
           NEW key, key \notin Enciphered(l[i].kv),
           \A p \in DOMAIN l : l[p].name = DecryptName(l[i].name) => key \notin DOMAIN l[p].kv
    PROVE  Lookup(WithDecrypt(l, l[i]), key, None) = Lookup(l, key, None)
<1> DEFINE ps == l[i]
           t == WithDecrypt(l, ps)
           d == DecryptSource(ps)
           dn == DecryptName(ps.name)
<1>1. PICK r \in Seq(Src) : DecryptedBy(l, t, i, ps, r)
  BY DecryptMoves
<1>2. t \in Seq(Src)
  BY DecryptMoves
<1>3. key \notin DOMAIN d.kv
  BY ElementIn, DecryptSourceFacts
<1> HIDE DEF t, d
<1>5. Lookup(r, key, None) = Lookup(l, key, None)
  <2>1. ASSUME NEW p \in DOMAIN l, l[p].name = dn, Inserted(r, l, p - 1, l[p])
        PROVE  Lookup(r, key, None) = Lookup(l, key, None)
    BY <2>1, InsertedLookup
  <2> QED BY <2>1, <1>1 DEF DecryptedBy
<1>6. Lookup(r, key, None) = Lookup(t, key, None)
  <2>1. ASSUME Inserted(r, t, i - 1, d) PROVE Lookup(r, key, None) = Lookup(t, key, None)
    BY <2>1, <1>2, <1>3, InsertedLookup
  <2> QED BY <2>1, <1>1 DEF DecryptedBy, d
<1> QED BY <1>5, <1>6 DEF t

-------------------------------------------------------------------------------
(* ReplaceSource *)

LEMMA ReplaceIs ==
    ASSUME NEW l \in Seq(Src), Distinct(l), NEW i \in DOMAIN l, NEW ps \in Src, l[i].name = ps.name
    PROVE  /\ Replace(l, ps) \in Seq(Src) /\ DOMAIN Replace(l, ps) = DOMAIN l
           /\ Replace(l, ps)[i] = ps
           /\ \A j \in DOMAIN l : j # i => Replace(l, ps)[j] = l[j]
           /\ \A j \in DOMAIN l : Replace(l, ps)[j].name = l[j].name
<1>1. i \in 1..Len(l)
  OBVIOUS
<1>2. IndexOfName(l, ps.name) = i
  BY <1>1, IndexIs
<1>3. Replace(l, ps) = [l EXCEPT ![i] = ps]
  BY <1>2 DEF Replace
<1> QED BY <1>3

\* The list after ReplaceSource, whose decrypt source may be out of date.
LEMMA ReplaceKeeps ==
    ASSUME NEW l \in Seq(Src), Distinct(l), NEW i \in DOMAIN l, NEW ps \in Src, l[i].name = ps.name,
           ~IsDec(ps.name)
    PROVE  /\ Distinct(Replace(l, ps))
           /\ \A n : Has(Replace(l, ps), n) <=> Has(l, n)
           /\ \A m, n : Precedes(Replace(l, ps), m, n) <=> Precedes(l, m, n)
           /\ Accompanied(l) => Accompanied(Replace(l, ps))
           /\ \A M : ps.name \in M /\ PairedBut(l, M) => PairedBut(Replace(l, ps), M)
<1> DEFINE t == Replace(l, ps)
<1>1. /\ t \in Seq(Src) /\ DOMAIN t = DOMAIN l /\ t[i] = ps
      /\ \A j \in DOMAIN l : j # i => t[j] = l[j]
  BY ReplaceIs
<1>2. \A j \in DOMAIN l : t[j].name = l[j].name
  BY ReplaceIs
<1> HIDE DEF t
<1>3. Distinct(t)
  BY <1>1, <1>2 DEF Distinct
<1>4. \A n : Has(t, n) <=> Has(l, n)
  BY <1>1, <1>2 DEF Has
<1>5. \A m, n : Precedes(t, m, n) <=> Precedes(l, m, n)
  BY <1>1, <1>2 DEF Precedes
<1>6. ASSUME Accompanied(l) PROVE Accompanied(t)
  BY <1>1, <1>2, <1>6 DEF Accompanied
<1>7. ASSUME NEW M, ps.name \in M, PairedBut(l, M) PROVE PairedBut(t, M)
  <2> SUFFICES ASSUME NEW j \in DOMAIN t, ~IsDec(t[j].name), t[j].name \notin M PROVE Paired(t, j)
    BY DEF PairedBut
  <2>1. j \in DOMAIN l /\ t[j] = l[j] /\ Paired(l, j)
    BY <1>1, <1>7 DEF PairedBut
  <2>2. ASSUME Enciphered(t[j].kv) = {} PROVE ~Has(t, DecryptName(t[j].name))
    BY <2>1, <2>2, <1>4 DEF Paired
  <2>3. ASSUME Enciphered(t[j].kv) # {}
        PROVE  \E d \in DOMAIN t : (d = j + 1 \/ j = d + 1) /\ t[d] = DecryptSource(t[j])
    <3>1. PICK d \in DOMAIN l : (d = j + 1 \/ j = d + 1) /\ l[d] = DecryptSource(l[j])
      BY <2>1, <2>3 DEF Paired
    <3>2. IsDec(l[d].name)
      BY <2>1, <3>1, ElementIn, DecryptSourceFacts, NameFacts
    <3>3. d # i
      BY <3>2
    <3> QED BY <3>1, <3>3, <2>1, <1>1
  <2> QED BY <2>2, <2>3 DEF Paired
<1> QED BY <1>3, <1>4, <1>5, <1>6, <1>7 DEF t

\* A key that has not changed is found as before.
LEMMA ReplaceLookup ==
    ASSUME NEW l \in Seq(Src), Distinct(l), NEW i \in DOMAIN l, NEW ps \in Src, l[i].name = ps.name,
           NEW key, key \notin Changes(l[i].kv, ps.kv)
    PROVE  Lookup(Replace(l, ps), key, None) = Lookup(l, key, None)
<1> DEFINE t == Replace(l, ps)
<1>1. /\ t \in Seq(Src) /\ DOMAIN t = DOMAIN l /\ t[i] = ps
      /\ \A j \in DOMAIN l : j # i => t[j] = l[j]
  BY ReplaceIs
<1> HIDE DEF t
<1>2. key \in DOMAIN l[i].kv <=> key \in DOMAIN ps.kv
  BY DEF Changes
<1>3. key \in DOMAIN ps.kv => l[i].kv[key] = ps.kv[key]
  BY DEF Changes
<1>4. \A j \in DOMAIN l : /\ key \in DOMAIN l[j].kv <=> key \in DOMAIN t[j].kv
                          /\ key \in DOMAIN t[j].kv => l[j].kv[key] = t[j].kv[key]
  BY <1>1, <1>2, <1>3
<1>5. \A j : Answers(l, key, j) <=> Answers(t, key, j)
  BY <1>1, <1>4 DEF Answers
<1>6. \A j : Answers(l, key, j) => t[j].kv[key] = l[j].kv[key]
  BY <1>4 DEF Answers
<1>7. Lookup(l, key, None) = Lookup(t, key, None)
  BY <1>1, <1>5, <1>6, LookupSame
<1> QED BY <1>7 DEF t

-------------------------------------------------------------------------------
(* The inductive invariant *)

PlainSrc == {ps \in Src : ~IsDec(ps.name)}

ListOK(l) ==
    /\ l \in Seq(Src) /\ Distinct(l) /\ Accompanied(l)
    /\ \A i \in DOMAIN l : Decryptable(l[i].kv)

\* Types; only contents that parse are pushed.
TypeInv ==
    /\ refreshChan \in Seq(PlainSrc) /\ Len(refreshChan) <= ChanCap
    /\ push \in [Ids -> PlainSrc \cup {None}]
    /\ server \in [Ids -> Contents \cup {None, Unparsable}]
    /\ seen \in [Ids -> Contents \cup {None, Unparsable}]
    /\ \A id \in Ids : server[id] \in Contents \cup {Unparsable} \/ seen[id] = server[id]
    /\ watcher \in [Ids -> {"none", "queued", "starting", "listening", "stopped"}]
    /\ runner \in [at : {"select", "replaced", "notify", "exited"}, ps : Src \cup {None},
                   changed : SUBSET Keys]
    /\ ctxDone \in BOOLEAN
    /\ changes \in 0..MaxChanges

\* Between ReplaceSource and the decrypt source that follows it, only the pair of
\* the refreshed source is wrong, and only about keys that have changed.
Pending(l, ps, changed) ==
    /\ \E i \in DOMAIN l : l[i] = ps
    /\ ~IsDec(ps.name) /\ PairedBut(l, {ps.name})
    /\ \A p \in DOMAIN l :
         l[p].name = DecryptName(ps.name) => DOMAIN l[p].kv \subseteq Enciphered(ps.kv) \cup changed

PairInv ==
    /\ runner.at # "replaced" => PairedAll(sources)
    /\ runner.at = "replaced" => Pending(sources, runner.ps, runner.changed)

FreshFor(l, k, b) ==
    \/ \E i \in DOMAIN l : k \in Enciphered(l[i].kv)
    \/ Lookup(l, k, None) # None /\ b = Lookup(l, k, None)
    \/ Lookup(l, k, None) = None /\ (k \in HasDef => b = Default)

\* Only the fields of changed keys may lag behind, and only until they are notified.
FreshInv ==
    /\ runner.at \in {"select", "exited"} => runner.changed = {}
    /\ \A k \in Keys \ runner.changed : FreshFor(sources, k, bound[k])

ConfigInv == TypeInv /\ ListOK(sources) /\ PairInv /\ FreshInv

\* ReplaceSource of a changed content.
LEMMA ReplaceStep ==
    ASSUME NEW l, ListOK(l), PairedAll(l), NEW i \in DOMAIN l, NEW ps \in PlainSrc,
           l[i].name = ps.name, Decryptable(ps.kv), NEW changed, changed = Changes(l[i].kv, ps.kv)
    PROVE  /\ ListOK(Replace(l, ps)) /\ Pending(Replace(l, ps), ps, changed)
           /\ changed \subseteq Keys
           /\ \A k \in Keys \ changed : \A b : FreshFor(l, k, b) => FreshFor(Replace(l, ps), k, b)
<1> DEFINE t == Replace(l, ps)
<1>1. l \in Seq(Src) /\ Distinct(l) /\ Accompanied(l) /\ ps \in Src /\ ~IsDec(ps.name)
  BY DEF ListOK, PlainSrc
<1>2. /\ t \in Seq(Src) /\ DOMAIN t = DOMAIN l /\ t[i] = ps
      /\ \A j \in DOMAIN l : j # i => t[j] = l[j]
  BY <1>1, ReplaceIs
<1>3. Distinct(t) /\ Accompanied(t) /\ (\A n : Has(t, n) <=> Has(l, n))
  BY <1>1, ReplaceKeeps
<1>4. PairedBut(t, {ps.name})
  <2>1. PairedBut(l, {ps.name})
    BY DEF PairedAll, PairedBut
  <2> QED BY <2>1, <1>1, ReplaceKeeps
<1>5. \A j \in DOMAIN l : t[j].name = l[j].name
  BY <1>1, ReplaceIs
<1> HIDE DEF t
<1>6. ListOK(t)
  BY <1>2, <1>3 DEF ListOK
<1>7. \A k \in Enciphered(l[i].kv) \ changed : k \in Enciphered(ps.kv)
  BY DEF Enciphered, Changes
<1>8. \A k \in Enciphered(ps.kv) \ changed : k \in Enciphered(l[i].kv)
  BY DEF Enciphered, Changes
<1>9. ASSUME NEW p \in DOMAIN t, t[p].name = DecryptName(ps.name)
      PROVE  DOMAIN t[p].kv \subseteq Enciphered(ps.kv) \cup changed
  <2>1. IsDec(t[p].name)
    BY <1>1, <1>9, NameFacts, ElementIn
  <2>2. p # i /\ t[p] = l[p] /\ p \in DOMAIN l
    BY <2>1, <1>1, <1>2
  <2>3. ~IsDec(l[i].name) /\ l[p].name = DecryptName(l[i].name)
    BY <2>2, <1>1, <1>9
  <2>4. Paired(l, i) /\ Has(l, DecryptName(l[i].name))
    BY <2>2, <2>3 DEF PairedAll, PairedBut, Has
  <2>5. PICK d \in DOMAIN l : l[d] = DecryptSource(l[i])
    BY <2>4 DEF Paired
  <2>6. l[d].name = DecryptName(l[i].name) /\ DOMAIN l[d].kv = Enciphered(l[i].kv)
    BY <2>5, <1>1, ElementIn, DecryptSourceFacts
  <2>7. d = p
    BY <2>3, <2>6, <1>1, <2>2 DEF Distinct
  <2> QED BY <2>2, <2>6, <2>7, <1>7
<1>10. Pending(t, ps, changed)
  BY <1>1, <1>2, <1>4, <1>9 DEF Pending
<1>11. changed \subseteq Keys
  <2>1. IsMap(l[i].kv) /\ IsMap(ps.kv)
    BY <1>1, ElementIn, SrcIs DEF IsSource
  <2> QED BY <2>1 DEF Changes, IsMap
<1>12. ASSUME NEW k \in Keys \ changed, NEW b, FreshFor(l, k, b) PROVE FreshFor(t, k, b)
  <2>1. Lookup(t, k, None) = Lookup(l, k, None)
    BY <1>1, ReplaceLookup DEF t
  <2>2. ASSUME NEW j \in DOMAIN l, k \in Enciphered(l[j].kv)
        PROVE  \E j0 \in DOMAIN t : k \in Enciphered(t[j0].kv)
    BY <2>2, <1>2, <1>7
  <2> QED BY <2>1, <2>2, <1>12 DEF FreshFor
<1> QED BY <1>6, <1>10, <1>11, <1>12 DEF t

\* The decrypt source that follows.
LEMMA DecryptStep ==
    ASSUME NEW l, ListOK(l), NEW ps, NEW changed, Pending(l, ps, changed)
    PROVE  /\ ListOK(WithDecrypt(l, ps)) /\ PairedAll(WithDecrypt(l, ps))
           /\ \A k \in Keys \ changed : \A b : FreshFor(l, k, b) => FreshFor(WithDecrypt(l, ps), k, b)
<1> DEFINE t == WithDecrypt(l, ps)
<1>1. l \in Seq(Src) /\ Distinct(l) /\ Accompanied(l)
  BY DEF ListOK
<1>2. PICK i \in DOMAIN l : l[i] = ps
  BY DEF Pending
<1>3. ~IsDec(l[i].name) /\ PairedBut(l, {l[i].name})
  BY <1>2 DEF Pending
<1>4. t \in Seq(Src) /\ Distinct(t) /\ PairedAll(t) /\ Accompanied(t)
  <2> DEFINE M == {l[i].name}
  <2>1. l[i].name \in M /\ M \ {l[i].name} = {}
    OBVIOUS
  <2>2. PairedBut(l, M)
    BY <1>3
  <2> HIDE DEF M
  <2> QED BY <2>1, <2>2, <1>1, <1>2, <1>3, DecryptKeeps DEF PairedAll
<1>5. \A j \in DOMAIN t : t[j] = DecryptSource(ps) \/ \E j0 \in DOMAIN l : t[j] = l[j0]
  BY <1>1, <1>2, <1>3, DecryptElements
<1>6. \A j \in DOMAIN l : l[j].name # DecryptName(ps.name) => \E j0 \in DOMAIN t : t[j0] = l[j]
  BY <1>1, <1>2, <1>3, DecryptElements
<1>7. ps \in Src
  BY <1>1, <1>2, ElementIn
<1> HIDE DEF t
<1>8. ListOK(t)
  BY <1>4, <1>5, <1>7, DecryptSourceFacts DEF ListOK
<1>9. ASSUME NEW k \in Keys \ changed, NEW b, FreshFor(l, k, b) PROVE FreshFor(t, k, b)
  <2>1. CASE k \in Enciphered(ps.kv)
    <3>1. ps.name # DecryptName(ps.name)
      BY <1>7, SrcIs, NameFacts, <1>2, <1>3 DEF IsSource
    <3>2. \E j \in DOMAIN t : t[j] = ps
      BY <3>1, <1>2, <1>6
    <3> QED BY <2>1, <3>2 DEF FreshFor
  <2>2. CASE k \notin Enciphered(ps.kv)
    <3>1. \A p \in DOMAIN l : l[p].name = DecryptName(ps.name) => k \notin DOMAIN l[p].kv
      BY <2>2 DEF Pending
    <3>2. Lookup(t, k, None) = Lookup(l, k, None)
      BY <2>2, <3>1, <1>1, <1>2, <1>3, DecryptLookup DEF t
    <3>3. ASSUME NEW j \in DOMAIN l, k \in Enciphered(l[j].kv)
          PROVE  \E j0 \in DOMAIN t : k \in Enciphered(t[j0].kv)
      <4>1. l[j].name # DecryptName(ps.name)
        BY <3>1, <3>3 DEF Enciphered
      <4> QED BY <4>1, <3>3, <1>6
    <3> QED BY <3>2, <3>3, <1>9 DEF FreshFor
  <2> QED BY <2>1, <2>2
<1> QED BY <1>4, <1>8, <1>9 DEF t

-------------------------------------------------------------------------------
(* The steps *)

\* Steps that leave the list, the runner and the fields alone.
LEMMA Elsewhere ==
    ASSUME ConfigInv, UNCHANGED <<sources, runner, bound>>, TypeInv'
    PROVE  ConfigInv'
<1>1. PairInv' /\ FreshInv'
  BY DEF ConfigInv, PairInv, FreshInv
<1>2. ListOK(sources')
  BY DEF ConfigInv
<1> QED BY <1>1, <1>2 DEF ConfigInv

LEMMA HeadTail ==
    ASSUME NEW S, NEW c \in Seq(S), c # <<>>
    PROVE  Head(c) \in S /\ Tail(c) \in Seq(S) /\ Len(Tail(c)) <= Len(c)
OBVIOUS

LEMMA SelectIs == Select.at = "select" /\ Select.changed = {} /\ Select.ps = None
BY DEF Select

LEMMA ConfigStep == ConfigInv /\ [Next]_vars => ConfigInv'
<1> SUFFICES ASSUME ConfigInv, [Next]_vars PROVE ConfigInv'
  OBVIOUS
<1> USE ConfigAssumption
<1>0. TypeInv /\ ListOK(sources) /\ PairInv /\ FreshInv
  BY DEF ConfigInv
<1>s. Select \in [at : {"select", "replaced", "notify", "exited"}, ps : Src \cup {None},
                  changed : SUBSET Keys]
  BY DEF Select
<1>1. ASSUME NEW id \in Ids, ServerChanges(id) PROVE ConfigInv'
  <2>1. PICK c \in Contents \cup {Unparsable} : server' = [server EXCEPT ![id] = c]
    BY <1>1 DEF ServerChanges
  <2>2. server' \in [Ids -> Contents \cup {None, Unparsable}]
    BY <2>1, <1>0 DEF TypeInv
  <2>3. \A x \in Ids : server'[x] \in Contents \cup {Unparsable} \/ seen[x] = server'[x]
    BY <2>1, <1>0 DEF TypeInv
  <2>4. changes' \in 0..MaxChanges
    BY <1>0, <1>1 DEF TypeInv, ServerChanges
  <2>5. TypeInv'
    BY <2>2, <2>3, <2>4, <1>0, <1>1 DEF TypeInv, ServerChanges
  <2> QED BY <2>5, <1>1, Elsewhere DEF ServerChanges
<1>2. ASSUME NEW id \in Ids, OnChange(id) PROVE ConfigInv'
  <2>1. server[id] \in Contents \cup {Unparsable}
    BY <1>0, <1>2 DEF TypeInv, OnChange
  <2>2. seen' \in [Ids -> Contents \cup {None, Unparsable}] /\ seen' = [seen EXCEPT ![id] = server[id]]
    BY <1>0, <1>2 DEF TypeInv, OnChange
  <2>3. \A x \in Ids : server[x] \in Contents \cup {Unparsable} \/ seen'[x] = server[x]
    BY <2>2, <1>0 DEF TypeInv
  <2>4. push' \in [Ids -> PlainSrc \cup {None}]
    <3>1. CASE server[id] = Unparsable
      BY <3>1, <1>0, <1>2 DEF TypeInv, OnChange
    <3>2. CASE server[id] # Unparsable
      <4>1. IsMap(server[id])
        BY <2>1, <3>2 DEF ConfigAssumption
      <4>2. id \in Origins
        BY DEF Origins
      <4>3. Source(Plain(id), server[id]) \in PlainSrc
        BY <4>1, <4>2, PlainFacts, SourceIn DEF PlainSrc
      <4>4. push' = [push EXCEPT ![id] = Source(Plain(id), server[id])]
        BY <3>2, <1>2 DEF OnChange
      <4> QED BY <4>3, <4>4, <1>0 DEF TypeInv
    <3> QED BY <3>1, <3>2
  <2>5. TypeInv'
    BY <2>2, <2>3, <2>4, <1>0, <1>2 DEF TypeInv, OnChange
  <2> QED BY <2>5, <1>2, Elsewhere DEF OnChange
<1>3. ASSUME NEW id \in Ids, ChangePropertySources(id) PROVE ConfigInv'
  <2>1. push[id] \in PlainSrc /\ refreshChan \in Seq(PlainSrc)
    BY <1>0, <1>3 DEF TypeInv, ChangePropertySources
  <2>2. refreshChan' \in Seq(PlainSrc) /\ Len(refreshChan') <= ChanCap
    <3>1. refreshChan' = Append(refreshChan, push[id]) /\ Len(refreshChan) < ChanCap
      BY <1>3 DEF ChangePropertySources
    <3>2. ChanCap \in Nat
      BY DEF ConfigAssumption
    <3> HIDE DEF ConfigAssumption
    <3> QED BY <2>1, <3>1, <3>2
  <2>3. push' \in [Ids -> PlainSrc \cup {None}]
    BY <1>0, <1>3 DEF TypeInv, ChangePropertySources
  <2>4. TypeInv'
    BY <2>2, <2>3, <1>0, <1>3 DEF TypeInv, ChangePropertySources
  <2> QED BY <2>4, <1>3, Elsewhere DEF ChangePropertySources
<1>4. ASSUME NEW id \in Ids, WatcherStart(id) \/ StartWatcher(id) PROVE ConfigInv'
  <2>1. watcher' \in [Ids -> {"none", "queued", "starting", "listening", "stopped"}]
    BY <1>0, <1>4 DEF TypeInv, WatcherStart, StartWatcher
  <2>2. TypeInv'
    BY <2>1, <1>0, <1>4 DEF TypeInv, WatcherStart, StartWatcher
  <2> QED BY <2>2, <1>4, Elsewhere DEF WatcherStart, StartWatcher
<1>5. ASSUME RefreshIgnores PROVE ConfigInv'
  <2>1. refreshChan' \in Seq(PlainSrc) /\ Len(refreshChan') <= ChanCap
    <3>1. refreshChan \in Seq(PlainSrc) /\ refreshChan # <<>> /\ refreshChan' = Tail(refreshChan)
      BY <1>0, <1>5 DEF TypeInv, RefreshIgnores
    <3>2. ChanCap \in Nat /\ Len(refreshChan) <= ChanCap
      BY <1>0 DEF ConfigAssumption, TypeInv
    <3> QED BY <3>1, <3>2, HeadTail
  <2>2. TypeInv'
    BY <2>1, <1>0, <1>5 DEF TypeInv, RefreshIgnores
  <2> QED BY <2>2, <1>5, Elsewhere DEF RefreshIgnores
<1>6. ASSUME RefreshReplaces PROVE ConfigInv'
  <2> DEFINE ps == Head(refreshChan)
  <2>1. refreshChan \in Seq(PlainSrc) /\ refreshChan # <<>> /\ refreshChan' = Tail(refreshChan)
    BY <1>0, <1>6 DEF TypeInv, RefreshReplaces
  <2>2. ps \in PlainSrc
    BY <2>1, HeadTail
  <2>3. /\ Accepts(ps) /\ sources' = Replace(sources, ps)
        /\ runner' = [at |-> "replaced", ps |-> ps, changed |-> Changes(Get(sources, ps.name).kv, ps.kv)]
    BY <1>6 DEF RefreshReplaces
  <2> HIDE DEF ps
  <2>4. Decryptable(ps.kv) /\ Has(sources, ps.name)
    <3>1. IndexOfName(sources, ps.name) # 0 /\ Decryptable(ps.kv)
      BY <2>3 DEF Accepts, Contains
    <3> QED BY <3>1, <1>0, IndexIs DEF ListOK
  <2>5. PICK i \in DOMAIN sources : sources[i].name = ps.name
    BY <2>4 DEF Has
  <2>6. i \in 1..Len(sources)
    BY <1>0 DEF ListOK
  <2>7. Get(sources, ps.name) = sources[i]
    BY <2>5, <2>6, <1>0, IndexIs DEF ListOK, Get
  <2> DEFINE ch == Changes(sources[i].kv, ps.kv)
  <2>8. runner' = [at |-> "replaced", ps |-> ps, changed |-> ch]
    BY <2>3, <2>7
  <2>9. runner.at = "select" /\ PairedAll(sources) /\ runner.changed = {}
    BY <1>0, <1>6 DEF RefreshReplaces, PairInv, FreshInv
  <2> HIDE DEF ch
  <2>10. /\ ListOK(sources') /\ Pending(sources', ps, ch) /\ ch \subseteq Keys
         /\ \A k \in Keys \ ch : \A b : FreshFor(sources, k, b) => FreshFor(sources', k, b)
    BY <2>2, <2>3, <2>4, <2>5, <2>9, <1>0, ReplaceStep DEF ch
  <2>11. runner'.at = "replaced" /\ runner'.ps = ps /\ runner'.changed = ch
    BY <2>8
  <2>12. PairInv'
    BY <2>10, <2>11 DEF PairInv
  <2>13. FreshInv'
    <3>1. bound' = bound
      BY <1>6 DEF RefreshReplaces
    <3> QED BY <3>1, <2>9, <2>10, <2>11, <1>0 DEF FreshInv
  <2>14. refreshChan' \in Seq(PlainSrc) /\ Len(refreshChan') <= ChanCap
    <3>1. ChanCap \in Nat /\ Len(refreshChan) <= ChanCap
      BY <1>0 DEF ConfigAssumption, TypeInv
    <3> QED BY <3>1, <2>1, HeadTail
  <2>15. runner' \in [at : {"select", "replaced", "notify", "exited"}, ps : Src \cup {None},
                      changed : SUBSET Keys]
    BY <2>2, <2>8, <2>10 DEF PlainSrc
  <2>16. TypeInv'
    BY <2>14, <2>15, <1>0, <1>6 DEF TypeInv, RefreshReplaces
  <2> QED BY <2>10, <2>12, <2>13, <2>16 DEF ConfigInv
<1>7. ASSUME RefreshDecrypts PROVE ConfigInv'
  <2>1. runner.at = "replaced" /\ sources' = WithDecrypt(sources, runner.ps) /\ bound' = bound
    BY <1>7 DEF RefreshDecrypts
  <2>2. Pending(sources, runner.ps, runner.changed)
    BY <2>1, <1>0 DEF PairInv
  <2>3. /\ ListOK(sources') /\ PairedAll(sources')
        /\ \A k \in Keys \ runner.changed : \A b : FreshFor(sources, k, b) => FreshFor(sources', k, b)
    BY <2>1, <2>2, <1>0, DecryptStep
  <2>4. \A k \in Keys \ runner.changed : FreshFor(sources', k, bound'[k])
    BY <2>1, <2>3, <1>0 DEF FreshInv
  <2>5. /\ runner'.at # "replaced" /\ runner'.changed = runner.changed
        /\ runner'.at \in {"select", "exited"} => runner'.changed = {}
        /\ runner' \in [at : {"select", "replaced", "notify", "exited"}, ps : Src \cup {None},
                        changed : SUBSET Keys]
    <3>1. CASE runner.changed = {}
      BY <3>1, <1>7, <1>s, SelectIs DEF RefreshDecrypts
    <3>2. CASE runner.changed # {}
      <4>1. runner' = [runner EXCEPT !.at = "notify"]
        BY <3>2, <1>7 DEF RefreshDecrypts
      <4> QED BY <4>1, <1>0 DEF TypeInv
    <3> QED BY <3>1, <3>2
  <2>6. TypeInv'
    BY <2>5, <1>0, <1>7 DEF TypeInv, RefreshDecrypts
  <2>7. PairInv' /\ FreshInv'
    BY <2>3, <2>4, <2>5 DEF PairInv, FreshInv
  <2> QED BY <2>3, <2>6, <2>7 DEF ConfigInv
<1>8. ASSUME RefreshNotifies PROVE ConfigInv'
  <2>1. runner.at = "notify" /\ runner' = Select /\ sources' = sources /\ bound' = Rebind
    BY <1>8 DEF RefreshNotifies
  <2>2. ASSUME NEW k \in Keys PROVE FreshFor(sources, k, bound'[k])
    <3>1. bound'[k] = IF k \in runner.changed THEN Bind(sources, k, bound[k]) ELSE bound[k]
      BY <2>1 DEF Rebind
    <3>2. CASE k \in runner.changed
      BY <3>1, <3>2 DEF Bind, FreshFor
    <3>3. CASE k \notin runner.changed
      BY <3>1, <3>3, <1>0 DEF FreshInv
    <3> QED BY <3>2, <3>3
  <2>3. runner'.at = "select" /\ runner'.changed = {}
    BY <2>1, SelectIs
  <2>4. PairInv' /\ FreshInv'
    BY <2>1, <2>2, <2>3, <1>0 DEF PairInv, FreshInv
  <2>5. TypeInv'
    BY <2>1, <1>0, <1>8, <1>s DEF TypeInv, RefreshNotifies
  <2> QED BY <2>1, <2>4, <2>5, <1>0 DEF ConfigInv
<1>9. ASSUME Close PROVE ConfigInv'
  <2>1. watcher' \in [Ids -> {"none", "queued", "starting", "listening", "stopped"}]
    BY <1>0, <1>9 DEF TypeInv, Close
  <2>2. TypeInv'
    BY <2>1, <1>0, <1>9 DEF TypeInv, Close
  <2> QED BY <2>2, <1>9, Elsewhere DEF Close
<1>10. ASSUME RunExits PROVE ConfigInv'
  <2>1. runner.at = "select" /\ runner.changed = {} /\ sources' = sources /\ bound' = bound
    BY <1>0, <1>10 DEF RunExits, FreshInv
  <2>2. /\ runner'.at = "exited" /\ runner'.changed = {}
        /\ runner' \in [at : {"select", "replaced", "notify", "exited"}, ps : Src \cup {None},
                        changed : SUBSET Keys]
    BY <1>10 DEF RunExits, Select
  <2>3. PairInv' /\ FreshInv'
    BY <2>1, <2>2, <1>0 DEF PairInv, FreshInv
  <2>4. TypeInv'
    BY <2>2, <1>0, <1>10 DEF TypeInv, RunExits
  <2> QED BY <2>1, <2>3, <2>4, <1>0 DEF ConfigInv
<1>11. CASE UNCHANGED vars
  <2>1. TypeInv'
    BY <1>0, <1>11 DEF TypeInv, vars
  <2> QED BY <2>1, <1>11, Elsewhere DEF vars
<1> QED BY <1>1, <1>2, <1>3, <1>4, <1>5, <1>6, <1>7, <1>8, <1>9, <1>10, <1>11
        DEF Next, RunStep, WatcherStep

-------------------------------------------------------------------------------
(* Boot *)

Env == Plain("environment")

\* The environment variables are in the list, with nothing of theirs behind them,
\* so that a source may be added right behind them.
EnvFirst(l) ==
    \E e \in DOMAIN l :
        l[e].name = Env /\ \A j \in DOMAIN l : l[j].name = DecryptName(Env) => j < e

LEMMA InsertedEnvFirst ==
    ASSUME NEW s \in Seq(Src), NEW t \in Seq(Src), NEW k, NEW x, Inserted(s, t, k, x),
           x.name # Env, x.name # DecryptName(Env)
    PROVE  EnvFirst(s) <=> EnvFirst(t)
<1>1. k \in Nat /\ DOMAIN s \subseteq Nat /\ t[k + 1] = x
  BY InsertedAt
<1>2. \A j \in DOMAIN s : Up(k, j) \in DOMAIN t /\ t[Up(k, j)] = s[j]
  BY InsertedAt
<1>3. \A i \in DOMAIN t : i = k + 1 \/ \E j \in DOMAIN s : i = Up(k, j)
  BY InsertedAt
<1>4. \A i, j \in DOMAIN s : Up(k, i) < Up(k, j) <=> i < j
  <2> SUFFICES ASSUME NEW i \in DOMAIN s, NEW j \in DOMAIN s PROVE Up(k, i) < Up(k, j) <=> i < j
    OBVIOUS
  <2> QED BY <1>1 DEF Up
<1>5. ASSUME EnvFirst(s) PROVE EnvFirst(t)
  <2>1. PICK e \in DOMAIN s :
           s[e].name = Env /\ \A j \in DOMAIN s : s[j].name = DecryptName(Env) => j < e
    BY <1>5 DEF EnvFirst
  <2>2. ASSUME NEW j \in DOMAIN t, t[j].name = DecryptName(Env) PROVE j < Up(k, e)
    <3>1. PICK j0 \in DOMAIN s : j = Up(k, j0)
      BY <2>2, <1>1, <1>3
    <3>2. j0 < e
      BY <2>1, <2>2, <3>1, <1>2
    <3> QED BY <3>1, <3>2, <1>4
  <2> QED BY <2>1, <2>2, <1>2 DEF EnvFirst
<1>6. ASSUME EnvFirst(t) PROVE EnvFirst(s)
  <2>1. PICK i \in DOMAIN t :
           t[i].name = Env /\ \A j \in DOMAIN t : t[j].name = DecryptName(Env) => j < i
    BY <1>6 DEF EnvFirst
  <2>2. PICK e \in DOMAIN s : i = Up(k, e)
    BY <2>1, <1>1, <1>3
  <2>3. \A j \in DOMAIN s : s[j].name = DecryptName(Env) => j < e
    BY <2>1, <2>2, <1>2, <1>4
  <2> QED BY <2>1, <2>2, <2>3, <1>2 DEF EnvFirst
<1> QED BY <1>5, <1>6

\* What a list is at the boot: everything is in place but the pairs of M.
BootOK(l, M) == ListOK(l) /\ PairedBut(l, M) /\ EnvFirst(l)

\* The decryption of a source other than the environment variables.
LEMMA BootDecrypt ==
    ASSUME NEW l, NEW M, BootOK(l, M), NEW i \in DOMAIN l,
           ~IsDec(l[i].name), l[i].name \in M, l[i].name # Env
    PROVE  BootOK(WithDecrypt(l, l[i]), M \ {l[i].name})
<1> DEFINE ps == l[i]
           t == WithDecrypt(l, ps)
           d == DecryptSource(ps)
           dn == DecryptName(ps.name)
<1>1. l \in Seq(Src) /\ Distinct(l) /\ Accompanied(l) /\ PairedBut(l, M) /\ EnvFirst(l)
  BY DEF BootOK, ListOK
<1>2. t \in Seq(Src) /\ Distinct(t) /\ PairedBut(t, M \ {l[i].name}) /\ Accompanied(t)
  BY <1>1, DecryptKeeps
<1>3. PICK r \in Seq(Src) : DecryptedBy(l, t, i, ps, r)
  BY <1>1, DecryptMoves
<1>4. /\ ps \in Src /\ ps.name \in Names /\ d.name = dn /\ IsDec(dn) /\ Decryptable(d.kv)
      /\ Env \in Names /\ ~IsDec(Env)
  BY <1>1, ElementIn, NameFacts, DecryptSourceFacts, PlainFacts DEF Env, Origins
<1>5. dn # Env /\ dn # DecryptName(Env)
  BY <1>4, NameFacts
<1>6. \A j \in DOMAIN t : t[j] = d \/ \E j0 \in DOMAIN l : t[j] = l[j0]
  BY <1>1, DecryptElements
<1> HIDE DEF t, d, dn
<1>7. EnvFirst(r)
  <2>1. ASSUME NEW p \in DOMAIN l, l[p].name = dn, Inserted(r, l, p - 1, l[p]) PROVE EnvFirst(r)
    BY <2>1, <1>1, <1>5, InsertedEnvFirst
  <2> QED BY <2>1, <1>1, <1>3 DEF DecryptedBy, dn
<1>8. EnvFirst(t)
  <2>1. ASSUME Inserted(r, t, i - 1, d) PROVE EnvFirst(t)
    BY <2>1, <1>2, <1>4, <1>5, <1>7, InsertedEnvFirst
  <2> QED BY <2>1, <1>3, <1>7 DEF DecryptedBy, d
<1>9. \A j \in DOMAIN t : Decryptable(t[j].kv)
  BY <1>4, <1>6 DEF BootOK, ListOK
<1> QED BY <1>2, <1>8, <1>9 DEF BootOK, ListOK, t

\* A new source, where it separates no pair.
LEMMA BootInsert ==
    ASSUME NEW l, BootOK(l, {}), NEW t \in Seq(Src), NEW k, NEW ps \in PlainSrc, Inserted(l, t, k, ps),
           ~Has(l, ps.name), Unsplit(l, k, {ps.name}), Decryptable(ps.kv)
    PROVE  BootOK(t, {ps.name})
<1> DEFINE M == {ps.name}
<1>1. l \in Seq(Src) /\ Distinct(l) /\ Accompanied(l) /\ PairedBut(l, {}) /\ EnvFirst(l)
  BY DEF BootOK, ListOK
<1>2. ps \in Src /\ ~IsDec(ps.name) /\ ps.name \in Names /\ Env \in Names
  BY SrcIs, PlainFacts DEF PlainSrc, IsSource, Env, Origins
<1>3. PairedBut(l, M)
  BY <1>1 DEF PairedBut
<1>4. ps.name \in M /\ ForeignBut(ps, M)
  BY <1>2, ForeignFacts
<1> HIDE DEF M
<1>5. PairedBut(t, M)
  BY <1>1, <1>2, <1>3, <1>4, InsertedPaired DEF M
<1>6. Distinct(t) /\ Accompanied(t)
  BY <1>1, <1>2, InsertedDistinct, InsertedAccompanied
<1>7. EnvFirst(t)
  <2>1. ps.name # DecryptName(Env)
    BY <1>2, NameFacts
  <2>2. ps.name # Env
    BY <1>1 DEF EnvFirst, Has
  <2> QED BY <2>1, <2>2, <1>1, <1>2, InsertedEnvFirst
<1>8. \A j \in DOMAIN t : t[j] = ps \/ \E j0 \in DOMAIN l : t[j] = l[j0]
  <2>1. t[k + 1] = ps
    BY <1>1, InsertedAt
  <2>2. \A j \in DOMAIN l : Up(k, j) \in DOMAIN t /\ t[Up(k, j)] = l[j]
    BY <1>1, InsertedAt
  <2>3. \A j \in DOMAIN t : j = k + 1 \/ \E j0 \in DOMAIN l : j = Up(k, j0)
    BY <1>1, InsertedAt
  <2> QED BY <2>1, <2>2, <2>3
<1>9. \A j \in DOMAIN t : Decryptable(t[j].kv)
  BY <1>8 DEF BootOK, ListOK
<1> QED BY <1>5, <1>6, <1>7, <1>9 DEF BootOK, ListOK, M

\* One data id of EnableNacosRemoteConfig.
LEMMA BootNacos ==
    ASSUME NEW l, BootOK(l, {}), NEW ps \in PlainSrc, ps.name # Env, Decryptable(ps.kv),
           NEW t, t = IF Contains(l, ps.name) THEN Replace(l, ps) ELSE AddAfter(l, Env, ps)
    PROVE  BootOK(WithDecrypt(t, ps), {})
<1>1. l \in Seq(Src) /\ Distinct(l) /\ Accompanied(l) /\ PairedBut(l, {}) /\ EnvFirst(l)
  BY DEF BootOK, ListOK
<1>2. ps \in Src /\ ~IsDec(ps.name) /\ ps.name \in Names
  BY SrcIs DEF PlainSrc, IsSource
<1>3. BootOK(t, {ps.name}) /\ \E i \in DOMAIN t : t[i] = ps
  <2>1. CASE Has(l, ps.name)
    <3>1. PICK i \in DOMAIN l : l[i].name = ps.name
      BY <2>1 DEF Has
    <3>2. i \in 1..Len(l) /\ i # 0
      BY <1>1
    <3>3. t = Replace(l, ps)
      BY <3>1, <3>2, <1>1, IndexIs DEF Contains
    <3>4. /\ t \in Seq(Src) /\ DOMAIN t = DOMAIN l /\ t[i] = ps
          /\ \A j \in DOMAIN l : j # i => t[j] = l[j]
      BY <3>1, <3>3, <1>1, <1>2, ReplaceIs
    <3>5. Distinct(t) /\ Accompanied(t)
      BY <3>1, <3>3, <1>1, <1>2, ReplaceKeeps
    <3>6. PairedBut(t, {ps.name})
      <4>1. PairedBut(l, {ps.name})
        BY <1>1 DEF PairedBut
      <4> QED BY <4>1, <3>1, <3>3, <1>1, <1>2, ReplaceKeeps
    <3>7. \A j \in DOMAIN l : t[j].name = l[j].name
      BY <3>1, <3>3, <1>1, <1>2, ReplaceIs
    <3>8. EnvFirst(t)
      BY <3>4, <3>7, <1>1 DEF EnvFirst
    <3>9. \A j \in DOMAIN t : Decryptable(t[j].kv)
      BY <3>4 DEF BootOK, ListOK
    <3> QED BY <3>4, <3>5, <3>6, <3>8, <3>9 DEF BootOK, ListOK
  <2>2. CASE ~Has(l, ps.name)
    <3>1. PICK e \in DOMAIN l :
             l[e].name = Env /\ \A j \in DOMAIN l : l[j].name = DecryptName(Env) => j < e
      BY <1>1 DEF EnvFirst
    <3>2. e \in 1..Len(l) /\ e \in 0..Len(l) /\ e \in Nat
      BY <1>1
    <3>3. t = AddIndex(l, e, ps)
      <4>1. IndexOfName(l, Env) = e /\ IndexOfName(l, ps.name) = 0
        BY <2>2, <3>1, <3>2, <1>1, IndexIs
      <4>2. RemoveIfPresent(l, ps.name) = l
        BY <2>2, <1>1, RemoveIs
      <4> QED BY <4>1, <4>2 DEF AddAfter, Contains
    <3>4. t \in Seq(Src) /\ Inserted(l, t, e, ps)
      BY <3>2, <3>3, <1>1, <1>2, AddIndexIs
    <3>5. Unsplit(l, e, {ps.name})
      <4> SUFFICES ASSUME NEW a \in DOMAIN l, NEW b \in DOMAIN l, ~IsDec(l[a].name),
                          l[b] = DecryptSource(l[a])
                   PROVE  ~(a = e /\ b = e + 1) /\ ~(b = e /\ a = e + 1)
        BY DEF Unsplit
      <4>1. l[b].name = DecryptName(l[a].name) /\ IsDec(l[b].name)
        BY <1>1, ElementIn, DecryptSourceFacts, NameFacts
      <4>2. ~IsDec(Env)
        BY PlainFacts DEF Env, Origins
      <4>3. b # e
        BY <4>1, <4>2, <3>1
      <4>4. a = e => b < e
        BY <4>1, <3>1
      <4> QED BY <4>3, <4>4, <3>2
    <3>6. BootOK(t, {ps.name})
      BY <2>2, <3>4, <3>5, BootInsert
    <3>7. e + 1 \in DOMAIN t /\ t[e + 1] = ps
      BY <3>4, <1>1, InsertedAt
    <3> QED BY <3>6, <3>7
  <2> QED BY <2>1, <2>2
<1>4. PICK i \in DOMAIN t : t[i] = ps
  BY <1>3
<1> DEFINE M == {ps.name}
<1>5. ps.name \in M /\ M \ {ps.name} = {} /\ BootOK(t, M)
  BY <1>3
<1> HIDE DEF M
<1>6. BootOK(WithDecrypt(t, t[i]), M \ {ps.name})
  BY <1>2, <1>4, <1>5, BootDecrypt
<1> QED BY <1>4, <1>5, <1>6

\* NewStandardEnvironment.
LEMMA BootSystem ==
    ASSUME NEW env, NEW props, IsMap(env), IsMap(props), Decryptable(env), Decryptable(props)
    PROVE  BootOK(SystemSources(env, props), {}) /\ ~Has(SystemSources(env, props), Plain("local"))
<1> DEFINE Props == Plain("properties")
           eps == Source(Env, env)
           pps == Source(Props, props)
           l0 == AddFirst(<<>>, eps)
           l1 == AddBefore(l0, eps.name, pps)
           l2 == WithDecrypt(l1, eps)
           l3 == WithDecrypt(l2, pps)
           M == {Env, Props}
<1>1. /\ Env \in Names /\ ~IsDec(Env) /\ Env.of = "environment"
      /\ Props \in Names /\ ~IsDec(Props) /\ Props.of = "properties"
      /\ ~IsDec(Plain("local")) /\ Plain("local").of = "local"
  BY PlainFacts DEF Origins, Env
<1>2. Env # Props /\ Plain("local") # Env /\ Plain("local") # Props
  BY <1>1
<1>3. /\ eps \in Src /\ eps.name = Env /\ eps.kv = env
      /\ pps \in Src /\ pps.name = Props /\ pps.kv = props
  BY <1>1, SourceIn
<1>4. SystemSources(env, props) = l3
  BY DEF SystemSources, Env
<1>5. l0 \in Seq(Src) /\ Len(l0) = 1 /\ l0[1] = eps
  <2> DEFINE e == <<>>
  <2>1. e \in Seq(Src) /\ Len(e) = 0 /\ Distinct(e) /\ ~Has(e, eps.name) /\ 0 \in 0..Len(e)
    BY DEF Distinct, Has
  <2> HIDE DEF e, eps
  <2>2. RemoveIfPresent(e, eps.name) = e
    BY <2>1, RemoveIs
  <2>3. l0 = AddIndex(e, 0, eps)
    BY <2>2 DEF AddFirst, e
  <2> HIDE DEF l0
  <2>4. l0 \in Seq(Src) /\ Inserted(e, l0, 0, eps)
    BY <2>1, <2>3, <1>3, AddIndexIs
  <2>5. Len(l0) = 1 /\ l0[0 + 1] = eps
    BY <2>1, <2>4 DEF Inserted
  <2> QED BY <2>4, <2>5
<1> HIDE DEF eps, pps, Props, l0
<1>6. l1 \in Seq(Src) /\ Len(l1) = 2 /\ l1[1] = pps /\ l1[2] = eps
  <2>1. Distinct(l0) /\ ~Has(l0, pps.name)
    BY <1>2, <1>3, <1>5 DEF Distinct, Has
  <2>2. RemoveIfPresent(l0, pps.name) = l0
    BY <2>1, <1>5, RemoveIs
  <2>3. IndexOfName(l0, eps.name) = 1
    <3>1. 1 \in 1..Len(l0)
      BY <1>5
    <3> QED BY <3>1, <2>1, <1>5, IndexIs
  <2>4. l1 = AddIndex(l0, 0, pps)
    BY <2>2, <2>3 DEF AddBefore
  <2> HIDE DEF l1
  <2>5. l1 \in Seq(Src) /\ Inserted(l0, l1, 0, pps)
    <3>1. 0 \in 0..Len(l0)
      BY <1>5
    <3> QED BY <3>1, <2>4, <1>3, <1>5, AddIndexIs
  <2>6. Len(l1) = 2 /\ l1[0 + 1] = pps /\ l1[1 + 1] = l0[1]
    BY <2>5, <1>5 DEF Inserted
  <2> QED BY <2>5, <2>6, <1>5
<1> HIDE DEF l1
<1>7. DOMAIN l1 = {1, 2}
  BY <1>6
<1>8. Distinct(l1) /\ Accompanied(l1) /\ PairedBut(l1, M) /\ ~Has(l1, DecryptName(Env))
  <2>1. \A j \in DOMAIN l1 : ~IsDec(l1[j].name) /\ l1[j].name \in M
    BY <1>1, <1>3, <1>6, <1>7
  <2>2. IsDec(DecryptName(Env))
    BY <1>1, NameFacts
  <2> HIDE DEF M
  <2>3. Accompanied(l1) /\ PairedBut(l1, M) /\ ~Has(l1, DecryptName(Env))
    BY <2>1, <2>2 DEF Accompanied, PairedBut, Has
  <2>4. Distinct(l1)
    BY <1>2, <1>3, <1>6, <1>7 DEF Distinct
  <2> QED BY <2>3, <2>4
<1>9. 2 \in DOMAIN l1 /\ l1[2] = eps /\ ~IsDec(l1[2].name) /\ l1[2].name \in M
  BY <1>1, <1>3, <1>6, <1>7
<1>10. l2 \in Seq(Src) /\ Distinct(l2) /\ Accompanied(l2) /\ PairedBut(l2, {Props})
  <2>1. M \ {eps.name} = {Props}
    BY <1>2, <1>3
  <2> HIDE DEF M
  <2>2. PairedBut(l2, M \ {eps.name}) /\ l2 \in Seq(Src) /\ Distinct(l2) /\ Accompanied(l2)
    BY <1>6, <1>8, <1>9, DecryptKeeps
  <2> QED BY <2>1, <2>2
<1>11. EnvFirst(l2)
  <2>1. PICK r \in Seq(Src) : DecryptedBy(l1, l2, 2, eps, r)
    BY <1>6, <1>8, <1>9, DecryptMoves
  <2>2. r = l1
    BY <2>1, <1>3, <1>8 DEF DecryptedBy, Has
  <2> HIDE DEF l2
  <2>3. CASE l2 = l1
    BY <2>3, <1>3, <1>8, <1>9 DEF EnvFirst, Has
  <2>4. CASE Inserted(l1, l2, 2 - 1, DecryptSource(eps))
    <3>1. Inserted(l1, l2, 1, DecryptSource(eps))
      BY <2>4
    <3>2. Len(l2) = 3 /\ l2[1] = l1[1] /\ l2[1 + 1] = DecryptSource(eps) /\ l2[2 + 1] = l1[2]
      BY <3>1, <1>6 DEF Inserted
    <3>3. DOMAIN l2 = {1, 2, 3}
      BY <3>2, <1>10
    <3>4. l2[1].name = Props /\ l2[3].name = Env
      BY <3>2, <1>3, <1>6
    <3>5. Props # DecryptName(Env) /\ Env # DecryptName(Env)
      BY <1>1, NameFacts
    <3>6. \A j \in DOMAIN l2 : l2[j].name = DecryptName(Env) => j < 3
      BY <3>3, <3>4, <3>5
    <3> QED BY <3>3, <3>4, <3>6 DEF EnvFirst
  <2> QED BY <2>1, <2>2, <2>3, <2>4 DEF DecryptedBy
<1>12. \A j \in DOMAIN l2 : l2[j] = DecryptSource(eps) \/ \E j0 \in DOMAIN l1 : l2[j] = l1[j0]
  BY <1>6, <1>8, <1>9, DecryptElements
<1>13. PICK i \in DOMAIN l2 : l2[i] = pps
  <2>1. l1[1] = pps /\ 1 \in DOMAIN l1 /\ pps.name # DecryptName(eps.name)
    BY <1>1, <1>3, <1>6, <1>7, NameFacts
  <2> QED BY <2>1, <1>6, <1>8, <1>9, DecryptElements
<1> HIDE DEF l2
<1>14. \A j \in DOMAIN l2 : Decryptable(l2[j].kv)
  <2>1. \A j \in DOMAIN l1 : Decryptable(l1[j].kv)
    BY <1>3, <1>6, <1>7
  <2> QED BY <2>1, <1>3, <1>12, DecryptSourceFacts
<1>15. BootOK(l2, {Props})
  BY <1>10, <1>11, <1>14 DEF BootOK, ListOK
<1>16. ~IsDec(l2[i].name) /\ l2[i].name # Env /\ l2[i].name = Props
  BY <1>1, <1>2, <1>3, <1>13
<1>17. BootOK(l3, {})
  <2> DEFINE N == {Props}
  <2>1. l2[i].name \in N /\ N \ {l2[i].name} = {} /\ BootOK(l2, N)
    BY <1>15, <1>16
  <2> HIDE DEF N
  <2> QED BY <2>1, <1>13, <1>16, BootDecrypt
<1>18. ~Has(l3, Plain("local"))
  <2>1. \A j \in DOMAIN l3 : l3[j] = DecryptSource(pps) \/ \E j0 \in DOMAIN l2 : l3[j] = l2[j0]
    BY <1>10, <1>13, <1>16, DecryptElements
  <2>2. IsDec(DecryptSource(pps).name) /\ IsDec(DecryptSource(eps).name)
    BY <1>1, <1>3, NameFacts, DecryptSourceFacts
  <2>3. \A j \in DOMAIN l1 : l1[j].name # Plain("local")
    BY <1>2, <1>3, <1>6, <1>7
  <2> HIDE DEF l3
  <2>4. \A j \in DOMAIN l2 : l2[j].name # Plain("local")
    BY <2>2, <2>3, <1>1, <1>12
  <2> QED BY <2>1, <2>2, <2>4, <1>1 DEF Has
<1> QED BY <1>4, <1>17, <1>18

\* LoadLocalConfig.
LEMMA BootLocal ==
    ASSUME NEW l, BootOK(l, {}), ~Has(l, Plain("local")), NEW kv, IsMap(kv), Decryptable(kv)
    PROVE  BootOK(WithLocal(l, kv), {})
<1> DEFINE ps == Source(Plain("local"), kv)
           t == AddLast(l, ps)
<1>1. l \in Seq(Src) /\ Distinct(l)
  BY DEF BootOK, ListOK
<1>2. /\ Plain("local") \in Names /\ ~IsDec(Plain("local")) /\ Plain("local").of = "local"
      /\ Env.of = "environment"
  BY PlainFacts DEF Origins, Env
<1>3. ps \in Src /\ ps.name = Plain("local") /\ ps.kv = kv
  BY <1>2, SourceIn
<1>4. ps \in PlainSrc /\ ps.name # Env
  BY <1>2, <1>3 DEF PlainSrc
<1>5. WithLocal(l, kv) = WithDecrypt(t, ps)
  BY DEF WithLocal
<1> HIDE DEF ps
<1>6. t = Append(l, ps)
  <2>1. RemoveIfPresent(l, ps.name) = l
    BY <1>1, <1>3, RemoveIs
  <2> QED BY <2>1 DEF AddLast
<1> HIDE DEF t
<1>7. t \in Seq(Src) /\ Len(t) = Len(l) + 1 /\ Len(l) \in Nat
  BY <1>1, <1>3, <1>6
<1>8. (\A j \in 1..Len(l) : t[j] = l[j]) /\ t[Len(l) + 1] = ps
  BY <1>1, <1>6
<1>9. Inserted(l, t, Len(l), ps)
  BY <1>7, <1>8 DEF Inserted
<1>10. Unsplit(l, Len(l), {ps.name})
  <2>1. Len(l) + 1 \notin DOMAIN l
    BY <1>1
  <2> QED BY <2>1 DEF Unsplit
<1>11. BootOK(t, {ps.name})
  BY <1>3, <1>4, <1>7, <1>9, <1>10, BootInsert
<1>12. Len(l) + 1 \in DOMAIN t
  BY <1>7
<1> DEFINE N == {ps.name}
           i == Len(l) + 1
<1>13. t[i].name \in N /\ N \ {t[i].name} = {} /\ BootOK(t, N) /\ t[i] = ps /\ i \in DOMAIN t
  BY <1>8, <1>11, <1>12
<1> HIDE DEF N, i
<1>14. BootOK(WithDecrypt(t, t[i]), N \ {t[i].name})
  BY <1>13, <1>2, <1>3, <1>4, BootDecrypt
<1> QED BY <1>5, <1>13, <1>14

BootLists == {l \in Seq(Src) : BootOK(l, {})}
BootContents == [Ids -> {kv \in Contents : Decryptable(kv)} \cup {None}]

\* What EnableNacosRemoteConfig makes of the list at the i-th data id from the end.
NacosStep(contents, had, i) ==
    LET id == DataIDs[Len(DataIDs) + 1 - i]
        ps == Source(Plain(id), contents[id])
    IN  IF contents[id] = None THEN had
        ELSE WithDecrypt(IF Contains(had, ps.name) THEN Replace(had, ps)
                         ELSE AddAfter(had, Env, ps), ps)

LEMMA NacosStepOK ==
    ASSUME NEW contents \in BootContents, NEW had \in BootLists, NEW i \in 1..Len(DataIDs)
    PROVE  NacosStep(contents, had, i) \in BootLists
<1> DEFINE id == DataIDs[Len(DataIDs) + 1 - i]
           ps == Source(Plain(id), contents[id])
           t == IF Contains(had, ps.name) THEN Replace(had, ps) ELSE AddAfter(had, Env, ps)
<1>1. DataIDs \in Seq(Ids) /\ Len(DataIDs) + 1 - i \in 1..Len(DataIDs)
  BY ConfigAssumption DEF ConfigAssumption
<1>2. id \in Ids
  BY <1>1
<1>3. NacosStep(contents, had, i) = IF contents[id] = None THEN had ELSE WithDecrypt(t, ps)
  BY DEF NacosStep
<1> HIDE DEF id
<1>4. CASE contents[id] = None
  BY <1>3, <1>4
<1>5. CASE contents[id] # None
  <2>1. contents[id] \in Contents /\ Decryptable(contents[id])
    BY <1>2, <1>5 DEF BootContents
  <2>2. IsMap(contents[id]) /\ id \in Origins /\ id # "environment"
    BY <2>1, <1>2, ConfigAssumption DEF ConfigAssumption, Origins
  <2>3. Plain(id) \in Names /\ ~IsDec(Plain(id)) /\ Plain(id).of = id /\ Env.of = "environment"
    BY <2>2, PlainFacts DEF Env, Origins
  <2>4. ps \in Src /\ ps.name = Plain(id) /\ ps.kv = contents[id]
    BY <2>2, <2>3, SourceIn
  <2> HIDE DEF ps
  <2>5. ps \in PlainSrc /\ ps.name # Env /\ Decryptable(ps.kv)
    BY <2>1, <2>2, <2>3, <2>4 DEF PlainSrc
  <2>6. BootOK(had, {})
    BY DEF BootLists
  <2>7. BootOK(WithDecrypt(t, ps), {})
    BY <2>5, <2>6, BootNacos
  <2>8. WithDecrypt(t, ps) \in BootLists
    BY <2>7 DEF BootLists, BootOK, ListOK
  <2> QED BY <2>8, <1>3, <1>5
<1> QED BY <1>4, <1>5

\* EnableNacosRemoteConfig, by induction over the data ids.
LEMMA BootRemote ==
    ASSUME NEW l \in BootLists, NEW contents \in BootContents
    PROVE  WithNacos(l, contents) \in BootLists
<1> DEFINE N == Len(DataIDs)
           D == 0..N
           Step(f, i) == IF i = 0 THEN l ELSE NacosStep(contents, f[i - 1], i)
           Is(f) == f = [i \in D |-> Step(f, i)]
           with == CHOOSE f : Is(f)
<1>0. N \in Nat
  BY ConfigAssumption DEF ConfigAssumption
<1>3. WithNacos(l, contents) = with[N]
  BY Zenon DEF WithNacos, NacosStep, Env
<1> HIDE DEF N
<1>1. \E f : Is(f)
  <2> DEFINE Upto(n) == {f \in [0..n -> BootLists] : \A i \in 0..n : f[i] = Step(f, i)}
             T == {n \in D : Upto(n) = {}}
  <2>1. T \in SUBSET Nat /\ \A n \in D : n \in T <=> Upto(n) = {}
    <3> HIDE DEF Upto
    <3> QED BY <1>0
  <2>2. \A n \in D : \A f : f \in Upto(n) <=>
            f \in [0..n -> BootLists] /\ \A i \in 0..n : f[i] = Step(f, i)
    OBVIOUS
  <2> HIDE DEF Upto, T
  <2>3. CASE T = {}
    <3>0. N \in D
      BY <1>0
    <3>1. PICK f \in Upto(N) : TRUE
      BY <2>1, <2>3, <3>0
    <3>2. f \in [D -> BootLists] /\ \A i \in D : f[i] = Step(f, i)
      BY <2>2, <3>0, <3>1
    <3>3. f = [i \in D |-> Step(f, i)]
      BY <3>2
    <3> QED BY <3>3
  <2>4. CASE T # {}
    <3>1. PICK n \in T : \A m \in T : n <= m
      BY <2>1, <2>4, Smallest
    <3>2. n \in D
      BY <3>1 DEF T
    <3>3. n # 0
      <4> DEFINE f == [i \in 0..0 |-> l]
      <4>1. f \in [0..0 -> BootLists] /\ \A i \in 0..0 : f[i] = Step(f, i)
        OBVIOUS
      <4>2. 0 \in D
        BY <1>0
      <4> HIDE DEF f
      <4>3. f \in Upto(0)
        BY <2>2, <4>1, <4>2
      <4> QED BY <2>1, <3>1, <3>2, <4>3
    <3>4. n - 1 \in D /\ n - 1 \notin T /\ n \in 1..N
      BY <1>0, <2>1, <3>1, <3>2, <3>3
    <3>5. PICK f \in Upto(n - 1) : TRUE
      BY <2>1, <3>4
    <3>6. f \in [0..(n - 1) -> BootLists] /\ \A i \in 0..(n - 1) : f[i] = Step(f, i)
      BY <2>2, <3>4, <3>5
    <3> DEFINE g == [i \in 0..n |-> IF i = n THEN Step(f, n) ELSE f[i]]
    <3>7. f[n - 1] \in BootLists
      BY <1>0, <3>4, <3>6
    <3>8. Step(f, n) \in BootLists
      BY <3>3, <3>4, <3>7, NacosStepOK DEF N
    <3>9. g \in [0..n -> BootLists]
      BY <1>0, <3>2, <3>6, <3>8
    <3>10. ASSUME NEW i \in 0..n PROVE g[i] = Step(g, i)
      <4>1. i # 0 => g[i - 1] = f[i - 1]
        BY <1>0, <3>2
      <4>2. g[i] = Step(f, i)
        <5>1. CASE i = n
          BY <1>0, <3>2, <5>1
        <5>2. CASE i # n
          <6>1. i \in 0..(n - 1) /\ g[i] = f[i]
            BY <1>0, <3>2, <5>2
          <6> QED BY <3>6, <6>1
        <5> QED BY <5>1, <5>2
      <4> HIDE DEF g
      <4> QED BY <4>1, <4>2
    <3>11. g \in Upto(n)
      BY <2>2, <3>2, <3>9, <3>10, ZenonT(30)
    <3> QED BY <2>1, <3>1, <3>2, <3>11
  <2> QED BY <2>3, <2>4
<1>2. Is(with)
  BY <1>1, ZenonT(30)
<1> HIDE DEF with
<1> DEFINE T == {i \in D : with[i] \notin BootLists}
<1>4. T \in SUBSET Nat
  BY <1>0
<1>5. T = {}
  <2> SUFFICES ASSUME T # {} PROVE FALSE
    OBVIOUS
  <2>1. PICK n \in T : \A m \in T : n <= m
    BY <1>4, Smallest
  <2>2. with[n] = Step(with, n) /\ n \in D
    BY <1>2, <2>1
  <2>3. n # 0
    BY <2>1, <2>2
  <2>4. n - 1 \in D /\ n \in 1..N /\ n - 1 \notin T
    BY <1>0, <2>1, <2>2, <2>3
  <2>5. with[n - 1] \in BootLists
    BY <2>4
  <2>6. NacosStep(contents, with[n - 1], n) \in BootLists
    BY <2>4, <2>5, NacosStepOK DEF N
  <2> QED BY <2>1, <2>2, <2>3, <2>6
<1>6. N \in D
  BY <1>0
<1> QED BY <1>3, <1>5, <1>6

LEMMA ConfigBoot == Init => ConfigInv
<1> SUFFICES ASSUME Init PROVE ConfigInv
  OBVIOUS
<1>1. server \in BootContents
  BY DEF Init, BootContents
<1>2. sources \in BootLists
  <2>1. PICK env \in Fixed, props \in Fixed, local \in Fixed :
           sources = WithNacos(WithLocal(SystemSources(env, props), local), server)
    BY DEF Init
  <2>2. \A kv \in Fixed : IsMap(kv) /\ Decryptable(kv)
    BY ConfigAssumption DEF ConfigAssumption
  <2> DEFINE s == SystemSources(env, props)
             w == WithLocal(s, local)
  <2>3. BootOK(s, {}) /\ ~Has(s, Plain("local"))
    BY <2>2, BootSystem
  <2> HIDE DEF s
  <2>4. BootOK(w, {})
    BY <2>2, <2>3, BootLocal
  <2> HIDE DEF w
  <2>5. w \in BootLists
    BY <2>4 DEF BootLists, BootOK, ListOK
  <2> QED BY <2>1, <2>5, <1>1, BootRemote DEF s, w
<1>3. ListOK(sources) /\ PairedAll(sources)
  BY <1>2 DEF BootLists, BootOK, PairedAll
<1>4. runner = Select /\ runner.at = "select" /\ runner.changed = {}
  BY SelectIs DEF Init
<1>5. PairInv
  BY <1>3, <1>4 DEF PairInv
<1>6. FreshInv
  <2>1. ASSUME NEW k \in Keys PROVE FreshFor(sources, k, bound[k])
    <3>1. bound[k] = Bind(sources, k, None)
      BY DEF Init
    <3> QED BY <3>1 DEF Bind, FreshFor
  <2> QED BY <2>1, <1>4 DEF FreshInv
<1>7. TypeInv
  <2>1. refreshChan \in Seq(PlainSrc) /\ Len(refreshChan) <= ChanCap
    BY ConfigAssumption DEF Init, ConfigAssumption
  <2>2. push \in [Ids -> PlainSrc \cup {None}]
    BY DEF Init
  <2>3. server \in [Ids -> Contents \cup {None, Unparsable}] /\ seen = server
    BY DEF Init
  <2>4. watcher \in [Ids -> {"none", "queued", "starting", "listening", "stopped"}]
    BY DEF Init
  <2>5. runner \in [at : {"select", "replaced", "notify", "exited"}, ps : Src \cup {None},
                    changed : SUBSET Keys]
    BY <1>4 DEF Select
  <2>6. ctxDone \in BOOLEAN /\ changes \in 0..MaxChanges
    <3>1. MaxChanges \in Nat
      BY ConfigAssumption DEF ConfigAssumption
    <3>2. ctxDone = FALSE
      BY DEF Init
    <3>3. changes = 0
      BY DEF Init
    <3>4. ctxDone \in BOOLEAN
      BY <3>2, Zenon
    <3> QED BY <3>1, <3>3, <3>4
  <2> QED BY <2>1, <2>2, <2>3, <2>4, <2>5, <2>6 DEF TypeInv
<1> QED BY <1>3, <1>5, <1>6, <1>7 DEF ConfigInv

-------------------------------------------------------------------------------
(* The theorems *)

LEMMA InvConsistent == ConfigInv => Consistent
<1> SUFFICES ASSUME ConfigInv PROVE Consistent
  OBVIOUS
<1>0. TypeInv /\ ListOK(sources) /\ PairInv /\ FreshInv
  BY DEF ConfigInv
<1>1. TypeOK
  <2>1. \A i \in DOMAIN sources : IsSource(sources[i]) /\ Decryptable(sources[i].kv)
    BY <1>0, ElementIn, SrcIs DEF ListOK
  <2>2. ASSUME NEW i \in DOMAIN refreshChan PROVE IsSource(refreshChan[i])
    <3>1. refreshChan[i] \in PlainSrc
      BY <1>0 DEF TypeInv
    <3> QED BY <3>1, SrcIs DEF PlainSrc
  <2>3. runner.at \in {"select", "replaced", "notify", "exited"}
    BY <1>0 DEF TypeInv
  <2> QED BY <2>1, <2>2, <2>3, <1>0 DEF TypeInv, TypeOK
<1>2. NamesUnique
  BY <1>0 DEF ListOK, Distinct, NamesUnique
<1>3. DecryptsCurrent
  <2> SUFFICES ASSUME runner.at \in {"select", "notify"}, NEW i \in DOMAIN sources, ~sources[i].name.dec
               PROVE  LET d == IndexOfName(sources, DecryptName(sources[i].name))
                      IN  IF Enciphered(sources[i].kv) = {} THEN d = 0
                          ELSE d \in {i - 1, i + 1} /\ sources[d] = DecryptSource(sources[i])
    BY DEF DecryptsCurrent
  <2> DEFINE dn == DecryptName(sources[i].name)
  <2>1. Paired(sources, i)
    BY <1>0 DEF PairInv, PairedAll, PairedBut, IsDec
  <2>2. sources \in Seq(Src) /\ Distinct(sources) /\ i \in Nat
    BY <1>0 DEF ListOK
  <2>3. CASE Enciphered(sources[i].kv) = {}
    <3>1. IndexOfName(sources, dn) = 0
      BY <2>1, <2>2, <2>3, IndexIs DEF Paired
    <3> QED BY <2>3, <3>1
  <2>4. CASE Enciphered(sources[i].kv) # {}
    <3>1. PICK d \in DOMAIN sources :
             (d = i + 1 \/ i = d + 1) /\ sources[d] = DecryptSource(sources[i])
      BY <2>1, <2>4 DEF Paired
    <3>2. sources[d].name = dn
      BY <3>1, <2>2, ElementIn, DecryptSourceFacts
    <3>3. d \in 1..Len(sources) /\ d \in Nat
      BY <2>2
    <3>4. IndexOfName(sources, dn) = d
      BY <3>2, <3>3, <2>2, IndexIs
    <3>5. d \in {i - 1, i + 1}
      BY <3>1, <3>3, <2>2
    <3> QED BY <2>4, <3>1, <3>4, <3>5
  <2> QED BY <2>3, <2>4
<1>4. BoundFresh
  <2> SUFFICES ASSUME runner.at = "select", NEW k \in Keys PROVE FreshFor(sources, k, bound[k])
    BY DEF BoundFresh, FreshFor
  <2> QED BY <1>0 DEF FreshInv
<1> QED BY <1>1, <1>2, <1>3, <1>4 DEF Consistent

\* Between refreshes no name is in the list twice, every source with enciphered
\* values has the decryption of its current content next to it and no other has
\* one, and the bound field of a key nobody enciphers is what a lookup gives
\* (doRefreshPropertySource, CreateOrUpdateDecryptForPropertySource, changes).
THEOREM ConfigConsistent == Spec => []Consistent
<1>1. Spec => []ConfigInv
  BY ConfigBoot, ConfigStep, PTL DEF Spec
<1> QED BY <1>1, InvConsistent, PTL

LEMMA PrecedenceStep ==
    ConfigInv /\ [Next]_vars =>
        [sources' # sources =>
           \A a, b \in Origins :
              Precedes(sources', Plain(a), Plain(b)) <=> Precedes(sources, Plain(a), Plain(b))]_vars
<1> SUFFICES ASSUME ConfigInv, [Next]_vars, NEW a \in Origins, NEW b \in Origins
             PROVE  Precedes(sources', Plain(a), Plain(b)) <=> Precedes(sources, Plain(a), Plain(b))
  OBVIOUS
<1>0. TypeInv /\ ListOK(sources) /\ PairInv
  BY DEF ConfigInv
<1>1. sources \in Seq(Src) /\ Distinct(sources)
  BY <1>0 DEF ListOK
<1>2. ~IsDec(Plain(a)) /\ ~IsDec(Plain(b))
  BY PlainFacts
<1>3. CASE UNCHANGED sources
  BY <1>3
<1>4. CASE RefreshReplaces
  <2> DEFINE ps == Head(refreshChan)
  <2>1. refreshChan \in Seq(PlainSrc) /\ refreshChan # <<>>
    BY <1>0, <1>4 DEF TypeInv, RefreshReplaces
  <2>2. ps \in Src /\ ~IsDec(ps.name)
    BY <2>1, HeadTail DEF PlainSrc
  <2>3. Accepts(ps) /\ sources' = Replace(sources, ps)
    BY <1>4 DEF RefreshReplaces
  <2> HIDE DEF ps
  <2>4. PICK i \in DOMAIN sources : sources[i].name = ps.name
    BY <2>3, <1>1, IndexIs DEF Accepts, Contains, Has
  <2> QED BY <2>2, <2>3, <2>4, <1>1, ReplaceKeeps
<1>5. CASE RefreshDecrypts
  <2>1. Pending(sources, runner.ps, runner.changed) /\ sources' = WithDecrypt(sources, runner.ps)
    BY <1>0, <1>5 DEF RefreshDecrypts, PairInv
  <2>2. PICK i \in DOMAIN sources : sources[i] = runner.ps
    BY <2>1 DEF Pending
  <2>3. ~IsDec(sources[i].name)
    BY <2>1, <2>2 DEF Pending
  <2> QED BY <2>1, <2>2, <2>3, <1>1, <1>2, DecryptPrecedence
<1>6. RefreshReplaces \/ RefreshDecrypts \/ UNCHANGED sources
  BY DEF Next, RunStep, WatcherStep, vars, ServerChanges, OnChange, ChangePropertySources, WatcherStart,
     StartWatcher, RefreshIgnores, RefreshNotifies, Close, RunExits
<1> QED BY <1>3, <1>4, <1>5, <1>6

\* No refresh changes which source has precedence over which (ReplaceSource,
\* AddBefore of a decrypt source).
THEOREM ConfigPrecedence == Spec => PrecedenceKept
<1>1. Spec => []ConfigInv
  BY ConfigBoot, ConfigStep, PTL DEF Spec
<1> QED BY <1>1, PrecedenceStep, PTL DEF Spec, PrecedenceKept
=============================================================================
