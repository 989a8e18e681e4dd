----------------------------- MODULE ConfigProofs -----------------------------
(***************************************************************************)
(* Theorems about ConfigStore, for every default, every value a user may   *)
(* type, every machine, every number of edits, seconds and faults and      *)
(* every set of worlds: the invariants that ConfigStore checks on a small  *)
(* instance, and that the store keeps the promise of RestoreLog.           *)
(***************************************************************************)
EXTENDS ConfigStore, FiniteSetTheorems, SequenceTheorems, TLAPS

\* The values a field may have.
Values(k) ==
  CASE k = "isolated_cores" -> Seq(Nat)
    [] k = "ns_server" -> Seq(Words \cup {Quote})
    [] k = "netem_loss_pct" -> Nat \cup {Infinite}
    [] k = "rt_priority" -> Nat
    [] k = "apply_nohz_full" -> BOOLEAN

LEMMA TheFields ==
  /\ Fields = {"isolated_cores", "ns_server", "netem_loss_pct", "rt_priority",
               "apply_nohz_full"}
  /\ Len(Keys) = 5
<1>1. Len(Keys) = 5
  BY DEF Keys
<1>2. 1..Len(Keys) = {1, 2, 3, 4, 5}
  BY <1>1
<1> QED
  BY <1>1, <1>2 DEF Keys, Fields

LEMMA ConfigIsFunction ==
  ASSUME NEW c
  PROVE  c \in Configs <=> /\ c = [k \in Fields |-> c[k]]
                           /\ \A k \in Fields : c[k] \in Values(k)
<1>1. ASSUME c \in Configs PROVE c = [k \in Fields |-> c[k]]
  BY <1>1, TheFields DEF Configs
<1>2. ASSUME c \in Configs PROVE \A k \in Fields : c[k] \in Values(k)
  BY <1>2, TheFields DEF Configs, Values
<1>3. ASSUME c = [k \in Fields |-> c[k]], \A k \in Fields : c[k] \in Values(k)
      PROVE  c \in Configs
  <2>1. /\ c["isolated_cores"] \in Seq(Nat)
        /\ c["ns_server"] \in Seq(Words \cup {Quote})
        /\ c["netem_loss_pct"] \in Nat \cup {Infinite}
        /\ c["rt_priority"] \in Nat
        /\ c["apply_nohz_full"] \in BOOLEAN
    BY <1>3, TheFields DEF Values
  <2>2. c = [isolated_cores |-> c["isolated_cores"], ns_server |-> c["ns_server"],
             netem_loss_pct |-> c["netem_loss_pct"], rt_priority |-> c["rt_priority"],
             apply_nohz_full |-> c["apply_nohz_full"]]
    BY <1>3, TheFields
  <2> QED
    BY <2>1, <2>2 DEF Configs
<1> QED
  BY <1>1, <1>2, <1>3

-------------------------------------------------------------------------------
\* Items by their positions.

\* The positions before one, counted: the counts are different, and 0 to n - 1.
LEMMA RanksAreAll ==
  ASSUME NEW I, IsFiniteSet(I), I \subseteq Nat
  PROVE  \A n \in 1..Cardinality(I) :
           \E i \in I : Cardinality({j \in I : j < i}) = n - 1
<1> DEFINE Before(i) == {j \in I : j < i}
           Rank == [i \in I |-> Cardinality(Before(i)) + 1]
<1>1. \A i \in I : IsFiniteSet(Before(i)) /\ Cardinality(Before(i)) \in Nat
  BY FS_Subset, FS_CardinalityType
<1>2. \A i \in I : Cardinality(Before(i)) + 1 <= Cardinality(I)
  <2> TAKE i \in I
  <2>1. Before(i) \in SUBSET I /\ i \notin Before(i)
    OBVIOUS
  <2>2. Cardinality(Before(i)) # Cardinality(I) /\ Cardinality(Before(i)) <= Cardinality(I)
    BY <2>1, FS_Subset
  <2> QED
    BY <1>1, <2>2, FS_CardinalityType
<1>3. \A i, j \in I : i < j => Cardinality(Before(i)) < Cardinality(Before(j))
  <2> SUFFICES ASSUME NEW i \in I, NEW j \in I, i < j
               PROVE  Cardinality(Before(i)) < Cardinality(Before(j))
    OBVIOUS
  <2>0. i \in Nat /\ j \in Nat /\ \A k \in I : k \in Nat
    OBVIOUS
  <2>1. Before(i) \in SUBSET Before(j) /\ i \in Before(j) /\ i \notin Before(i)
    <3>1. ASSUME NEW k \in I, k < i PROVE k < j
      BY <2>0, <3>1
    <3>2. ~(i < i)
      BY <2>0
    <3> QED
      BY <3>1, <3>2, Zenon
  <2>2. Cardinality(Before(i)) <= Cardinality(Before(j))
        /\ Cardinality(Before(i)) # Cardinality(Before(j))
    BY <1>1, <2>1, FS_Subset
  <2> QED
    BY <1>1, <2>2
<1>4. Rank \in Injection(I, 1..Cardinality(I))
  <2>1. Rank \in [I -> 1..Cardinality(I)]
    BY <1>1, <1>2, FS_CardinalityType
  <2>2. ASSUME NEW i \in I, NEW j \in I, Rank[i] = Rank[j] PROVE i = j
    <3>1. Cardinality(Before(i)) = Cardinality(Before(j))
      BY <1>1, <2>2
    <3>2. i \in Nat /\ j \in Nat
      OBVIOUS
    <3> HIDE DEF Before
    <3> QED
      BY <1>1, <1>3, <3>1, <3>2
  <2> QED
    BY <2>1, <2>2 DEF Injection, IsInjective
<1>5. IsFiniteSet(1..Cardinality(I)) /\ Cardinality(1..Cardinality(I)) = Cardinality(I)
  BY FS_CardinalityType, FS_Interval
<1>6. Rank \in Surjection(I, 1..Cardinality(I))
  <2> HIDE DEF Rank
  <2> QED
    BY <1>4, <1>5, FS_Injection
<1> SUFFICES ASSUME NEW n \in 1..Cardinality(I)
             PROVE  \E i \in I : Cardinality(Before(i)) = n - 1
  OBVIOUS
<1>7. PICK i \in I : Rank[i] = n
  <2> HIDE DEF Rank
  <2> QED
    BY <1>6 DEF Surjection
<1>8. Cardinality(Before(i)) + 1 = n
  BY <1>7
<1>9. Cardinality(Before(i)) \in Nat
  BY <1>1
<1> HIDE DEF Before
<1> QED
  BY <1>8, <1>9

\* Every item is one of s at a position of I.
LEMMA ItemsAtPositions ==
  ASSUME NEW s, NEW I, IsFiniteSet(I), I \subseteq Nat
  PROVE  /\ DOMAIN ItemsAt(s, I) = 1..Cardinality(I)
         /\ \A n \in 1..Cardinality(I) : \E i \in I : ItemsAt(s, I)[n] = s[i]
<1>1. DOMAIN ItemsAt(s, I) = 1..Cardinality(I)
  BY DEF ItemsAt
<1> SUFFICES ASSUME NEW n \in 1..Cardinality(I)
             PROVE  \E i \in I : ItemsAt(s, I)[n] = s[i]
  BY <1>1
<1>2. \E i \in I : Cardinality({j \in I : j < i}) = n - 1
  BY RanksAreAll
<1>3. (CHOOSE i \in I : Cardinality({j \in I : j < i}) = n - 1) \in I
  BY <1>2
<1> QED
  BY <1>3 DEF ItemsAt

LEMMA PositionsAreFinite ==
  ASSUME NEW S, NEW s \in Seq(S), NEW I \in SUBSET (DOMAIN s)
  PROVE  IsFiniteSet(I) /\ I \subseteq Nat /\ Cardinality(I) \in Nat
<1>1. DOMAIN s = 1..Len(s) /\ Len(s) \in Nat
  OBVIOUS
<1>2. IsFiniteSet(DOMAIN s)
  BY <1>1, FS_Interval
<1> QED
  BY <1>1, <1>2, FS_Subset, FS_CardinalityType

LEMMA ItemsAtIsSeq ==
  ASSUME NEW S, NEW s \in Seq(S), NEW I \in SUBSET (DOMAIN s), NEW T,
         \A i \in I : s[i] \in T
  PROVE  ItemsAt(s, I) \in Seq(T)
<1>1. IsFiniteSet(I) /\ I \subseteq Nat /\ Cardinality(I) \in Nat
  BY PositionsAreFinite
<1>2. \A n \in 1..Cardinality(I) : ItemsAt(s, I)[n] \in T
  BY <1>1, ItemsAtPositions
<1>3. ItemsAt(s, I) \in [1..Cardinality(I) -> T]
  <2>1. ItemsAt(s, I) = [n \in 1..Cardinality(I) |-> ItemsAt(s, I)[n]]
    BY DEF ItemsAt
  <2> QED
    BY <1>2, <2>1
<1> QED
  BY <1>1, <1>3, SeqDef

\* The first item is the one at the first position.
LEMMA FirstItem ==
  ASSUME NEW s, NEW I, IsFiniteSet(I), I \subseteq Nat, NEW first \in I,
         \A i \in I : first <= i
  PROVE  1 \in 1..Cardinality(I) /\ ItemsAt(s, I)[1] = s[first]
<1>0. first \in Nat /\ \A i \in I : i \in Nat
  OBVIOUS
<1>1. {j \in I : j < first} = {}
  <2>1. \A j \in I : ~(j < first)
    BY <1>0
  <2> QED
    BY <2>1, Zenon
<1>2. Cardinality({j \in I : j < first}) = 0
  BY <1>1, FS_EmptySet
<1>3. ASSUME NEW i \in I, Cardinality({j \in I : j < i}) = 0
      PROVE  i = first
  <2>1. IsFiniteSet({j \in I : j < i})
    BY FS_Subset
  <2>2. {j \in I : j < i} = {}
    BY <1>3, <2>1, FS_EmptySet
  <2> QED
    BY <2>2
<1>4. (CHOOSE i \in I : Cardinality({j \in I : j < i}) = 0) = first
  BY <1>2, <1>3
<1>5. Cardinality(I) \in Nat /\ Cardinality(I) # 0
  BY FS_CardinalityType, FS_EmptySet
<1>6. 1 \in 1..Cardinality(I)
  BY <1>5
<1>7. ItemsAt(s, I)[1] = s[CHOOSE i \in I : Cardinality({j \in I : j < i}) = 1 - 1]
  BY <1>6 DEF ItemsAt
<1>8. 1 - 1 = 0
  OBVIOUS
<1>9. ItemsAt(s, I)[1] = s[CHOOSE i \in I : Cardinality({j \in I : j < i}) = 0]
  BY <1>7, <1>8, Zenon
<1> QED
  BY <1>4, <1>6, <1>9, Zenon

\* With all positions, the items are the sequence.
LEMMA ItemsAtAll ==
  ASSUME NEW S, NEW s \in Seq(S)
  PROVE  ItemsAt(s, DOMAIN s) = s
<1>1. DOMAIN s = 1..Len(s) /\ Len(s) \in Nat
  OBVIOUS
<1>2. Cardinality(1..Len(s)) = Len(s)
  BY <1>1, FS_Interval
<1>3. \A i \in 1..Len(s) : Cardinality({j \in 1..Len(s) : j < i}) = i - 1
  <2> TAKE i \in 1..Len(s)
  <2>1. {j \in 1..Len(s) : j < i} = 1..(i - 1)
    BY <1>1
  <2>2. Cardinality(1..(i - 1)) = i - 1
    BY <1>1, FS_Interval
  <2> QED
    BY <2>1, <2>2
<1>4. \A n \in 1..Len(s) :
        (CHOOSE i \in 1..Len(s) : Cardinality({j \in 1..Len(s) : j < i}) = n - 1) = n
  <2> TAKE n \in 1..Len(s)
  <2> DEFINE P(i) == Cardinality({j \in 1..Len(s) : j < i}) = n - 1
  <2>1. P(n)
    BY <1>3
  <2>2. \A i \in 1..Len(s) : P(i) => i = n
    BY <1>3
  <2> HIDE DEF P
  <2>3. (CHOOSE i \in 1..Len(s) : P(i)) = n
    BY <2>1, <2>2
  <2> QED
    BY <2>3 DEF P
<1>5. ItemsAt(s, 1..Len(s)) =
        [n \in 1..Len(s) |->
           s[CHOOSE i \in 1..Len(s) : Cardinality({j \in 1..Len(s) : j < i}) = n - 1]]
  BY <1>2, Zenon DEF ItemsAt
<1>6. ItemsAt(s, 1..Len(s)) = [n \in 1..Len(s) |-> s[n]]
  BY <1>4, <1>5, Zenon
<1> QED
  BY <1>1, <1>6

-------------------------------------------------------------------------------
\* The text of a configuration, and what is read back.

LEMMA DefaultIsConfig ==
  Default \in Configs /\ \A k \in Fields : Default[k] \in Values(k)
BY StoreAssumption, ConfigIsFunction

LEMMA FromJsonFields ==
  ASSUME NEW t, NEW k \in Fields
  PROVE  FromJson(t)[k] = ReadOr(t, k, Default[k])
BY DEF FromJson

\* A quote is nowhere before the first one.
LEMMA BeforeQuoteIsName ==
  ASSUME NEW S, NEW s \in Seq(S)
  PROVE  /\ BeforeQuote(s) \in Seq(S)
         /\ Quote \notin ToSet(s) => BeforeQuote(s) = s
<1> DEFINE Good == {n \in DOMAIN s : \A m \in 1..n : s[m] # Quote}
<1>1. DOMAIN s = 1..Len(s) /\ Len(s) \in Nat
  OBVIOUS
<1>2. IsFiniteSet(1..Len(s)) /\ Cardinality(1..Len(s)) = Len(s)
  BY <1>1, FS_Interval
<1>3. Cardinality(Good) \in 0..Len(s)
  <2>1. Good \in SUBSET (1..Len(s))
    BY <1>1
  <2> HIDE DEF Good
  <2>2. Cardinality(Good) \in Nat /\ Cardinality(Good) <= Len(s)
    BY <1>2, <2>1, FS_Subset, FS_CardinalityType
  <2> QED
    BY <1>1, <2>2
<1>4. BeforeQuote(s) = SubSeq(s, 1, Cardinality(Good))
  BY DEF BeforeQuote
<1>5. BeforeQuote(s) \in Seq(S)
  <2> HIDE DEF Good
  <2> QED
    BY <1>1, <1>3, <1>4, SubSeqProperties
<1>6. ASSUME Quote \notin ToSet(s) PROVE BeforeQuote(s) = s
  <2>1. Good = 1..Len(s)
    <3>1. \A m \in DOMAIN s : s[m] # Quote
      BY <1>6 DEF ToSet
    <3> QED
      BY <1>1, <3>1
  <2>2. SubSeq(s, 1, Len(s)) = s
    BY <1>1
  <2> QED
    BY <1>2, <1>4, <2>1, <2>2
<1> QED
  BY <1>5, <1>6

\* A value that is read from a line of its kind is of its kind.
LEMMA ReadIsValue ==
  ASSUME NEW t, NEW k \in Fields, NEW other \in Values(k),
         k \in DOMAIN t /\ Readable(k, t[k]) => t[k].raw \in Values(k)
  PROVE  ReadOr(t, k, other) \in Values(k)
<1>1. CASE k \notin DOMAIN t \/ ~Readable(k, t[k])
  BY <1>1 DEF ReadOr
<1>2. CASE k \in DOMAIN t /\ Readable(k, t[k]) /\ k = "ns_server"
  <2>1. t[k].raw \in Seq(Words \cup {Quote})
    BY <1>2 DEF Values
  <2>2. BeforeQuote(t[k].raw) \in Seq(Words \cup {Quote})
    BY <2>1, BeforeQuoteIsName
  <2> QED
    BY <1>2, <2>2 DEF ReadOr, Values
<1>3. CASE k \in DOMAIN t /\ Readable(k, t[k]) /\ k # "ns_server"
  BY <1>3 DEF ReadOr
<1> QED
  BY <1>1, <1>2, <1>3

LEMMA FromJsonIsConfig ==
  ASSUME NEW t,
         \A k \in Fields : k \in DOMAIN t /\ Readable(k, t[k]) => t[k].raw \in Values(k)
  PROVE  FromJson(t) \in Configs
<1>1. \A k \in Fields : FromJson(t)[k] \in Values(k)
  BY ReadIsValue, DefaultIsConfig, FromJsonFields
<1>2. FromJson(t) = [k \in Fields |-> FromJson(t)[k]]
  BY DEF FromJson
<1> QED
  BY <1>1, <1>2, ConfigIsFunction

LEMMA EmptyText == FromJson(<<>>) = Default
<1>1. \A k \in Fields : FromJson(<<>>)[k] = Default[k]
  BY FromJsonFields DEF ReadOr
<1>2. Default = [k \in Fields |-> Default[k]]
  BY DefaultIsConfig, ConfigIsFunction
<1> QED
  BY <1>1, <1>2 DEF FromJson

LEMMA ToJsonFields ==
  ASSUME NEW c
  PROVE  /\ DOMAIN ToJson(c) = Fields
         /\ \A k \in Fields : /\ ToJson(c)[k] = [raw |-> c[k], ended |-> TRUE]
                             /\ ToJson(c)[k].raw = c[k]
BY DEF ToJson

LEMMA ToJsonEnded ==
  ASSUME NEW c, NEW k \in Fields
  PROVE  ToJson(c)[k].ended = TRUE
BY DEF ToJson

LEMMA ToJsonReads ==
  ASSUME NEW c \in Configs
  PROVE  FromJson(ToJson(c)) \in Configs
<1>1. \A k \in Fields : ToJson(c)[k].raw \in Values(k)
  BY ToJsonFields, ConfigIsFunction
<1> QED
  BY <1>1, FromJsonIsConfig

LEMMA ToJsonIsText ==
  ASSUME NEW c \in Configs
  PROVE  ToJson(c) # None
<1>1. \A k \in Fields : c[k] \in Values(k)
  BY ConfigIsFunction
<1>2. \A k \in Fields : Values(k) \subseteq
        Nat \cup {Infinite} \cup Seq(Nat) \cup Seq(Words \cup {Quote}) \cup BOOLEAN
  BY TheFields DEF Values
<1>3. \A k \in Fields : ToJson(c)[k] \in Lines
  <2> SUFFICES ASSUME NEW k \in Fields PROVE ToJson(c)[k] \in Lines
    OBVIOUS
  <2>1. ToJson(c)[k] = [raw |-> c[k], ended |-> TRUE]
    BY ToJsonFields
  <2> QED
    BY <1>1, <1>2, <2>1 DEF Lines
<1>4. ToJson(c) \in [Fields -> Lines]
  BY <1>3 DEF ToJson
<1> QED
  BY <1>4, MarksAssumption

\* The configurations whose every value has a text of its own.
Plain(c) ==
  /\ c \in Configs
  /\ c.netem_loss_pct \in Nat
  /\ Quote \notin ToSet(c.ns_server)

LEMMA RoundTrip ==
  ASSUME NEW c, Plain(c)
  PROVE  FromJson(ToJson(c)) = c
<1>1. \A k \in Fields : c[k] \in Values(k)
  BY ConfigIsFunction DEF Plain
<1>2. \A k \in Fields : Readable(k, ToJson(c)[k])
  <2> SUFFICES ASSUME NEW k \in Fields PROVE Readable(k, ToJson(c)[k])
    OBVIOUS
  <2>1. ToJson(c)[k] = [raw |-> c[k], ended |-> TRUE]
    BY ToJsonFields
  <2>2. k \in Numbers => c[k] \in Nat
    BY <1>1 DEF Numbers, Values, Plain
  <2> QED
    BY <2>1, <2>2, MarksAssumption DEF Readable
<1>3. \A k \in Fields : FromJson(ToJson(c))[k] = c[k]
  <2> SUFFICES ASSUME NEW k \in Fields PROVE ReadOr(ToJson(c), k, Default[k]) = c[k]
    BY FromJsonFields
  <2>1. k \in DOMAIN ToJson(c) /\ ToJson(c)[k].raw = c[k]
    BY ToJsonFields
  <2>2. CASE k = "ns_server"
    <3>1. c[k] \in Seq(Words \cup {Quote}) /\ Quote \notin ToSet(c[k])
      BY <1>1, <2>2 DEF Values, Plain
    <3>2. BeforeQuote(c[k]) = c[k]
      BY <3>1, BeforeQuoteIsName
    <3> QED
      BY <1>2, <2>1, <2>2, <3>2 DEF ReadOr
  <2>3. CASE k # "ns_server"
    BY <1>2, <2>1, <2>3 DEF ReadOr
  <2> QED
    BY <2>2, <2>3
<1>4. c = [k \in Fields |-> c[k]]
  BY ConfigIsFunction DEF Plain
<1> QED
  BY <1>3, <1>4 DEF FromJson

-------------------------------------------------------------------------------
\* Texts cut short.

LEMMA KeysDiffer ==
  /\ \A i \in 1..Len(Keys) : Keys[i] \in Fields
  /\ \A i, j \in 1..Len(Keys) : Keys[i] = Keys[j] => i = j
<1>1. Len(Keys) = 5
  BY TheFields
<1>2. 1..5 = {1, 2, 3, 4, 5}
  OBVIOUS
<1> QED
  BY <1>1, <1>2 DEF Fields, Keys

\* A torn text has the first lines of the whole one, and then perhaps one that was cut.
LEMMA TornLines ==
  ASSUME NEW c \in Configs, NEW t \in Torn(ToJson(c))
  PROVE  \E i \in 1..Len(Keys) :
           /\ DOMAIN t \subseteq Fields
           /\ {k \in DOMAIN t : t[k].ended} = {Keys[j] : j \in 1..i - 1}
           /\ \A k \in DOMAIN t : k # Keys[i] => t[k] = ToJson(c)[k]
           /\ Keys[i] \in DOMAIN t =>
                \E r \in Cuts(Keys[i], c[Keys[i]]) : t[Keys[i]] = [raw |-> r, ended |-> FALSE]
<1> DEFINE upto(n) == {Keys[j] : j \in 1..n - 1}
           cut(i) == {[raw |-> r, ended |-> FALSE] : r \in Cuts(Keys[i], ToJson(c)[Keys[i]].raw)}
           whole(i) == [k \in upto(i) |-> ToJson(c)[k]]
           more(i, l) == [k \in upto(i + 1) |-> IF k = Keys[i] THEN l ELSE ToJson(c)[k]]
<1>1. PICK i \in 1..Len(Keys) :
        t \in {whole(i)} \cup {more(i, l) : l \in {x \in cut(i) : Readable(Keys[i], x)}}
  BY Zenon DEF Torn
<1>2. /\ i \in 1..5 /\ Len(Keys) = 5
      /\ \A j \in 1..i : j \in 1..Len(Keys)
  BY TheFields
<1>3. upto(i) \subseteq Fields /\ upto(i + 1) \subseteq Fields /\ Keys[i] \notin upto(i)
  <2>1. \A j \in 1..i - 1 : j \in 1..Len(Keys) /\ j # i
    BY <1>2
  <2>2. \A j \in 1..(i + 1) - 1 : j \in 1..Len(Keys)
    BY <1>2
  <2> QED
    BY <2>1, <2>2, KeysDiffer
<1>4. CASE t = whole(i)
  <2>1. DOMAIN t = upto(i) /\ \A k \in DOMAIN t : t[k] = ToJson(c)[k]
    BY <1>4
  <2> HIDE DEF upto
  <2>2. {k \in DOMAIN t : t[k].ended} = upto(i)
    <3>1. \A k \in DOMAIN t : t[k].ended = TRUE
      BY <1>3, <2>1, ToJsonEnded
    <3> QED
      BY <2>1, <3>1, Zenon
  <2> QED
    BY <1>3, <2>1, <2>2 DEF upto
<1>5. ASSUME NEW l \in cut(i), t = more(i, l)
      PROVE  /\ DOMAIN t \subseteq Fields
             /\ {k \in DOMAIN t : t[k].ended} = {Keys[j] : j \in 1..i - 1}
             /\ \A k \in DOMAIN t : k # Keys[i] => t[k] = ToJson(c)[k]
             /\ Keys[i] \in DOMAIN t =>
                  \E r \in Cuts(Keys[i], c[Keys[i]]) : t[Keys[i]] = [raw |-> r, ended |-> FALSE]
  <2>1. /\ DOMAIN t = upto(i + 1)
        /\ \A k \in upto(i + 1) : t[k] = IF k = Keys[i] THEN l ELSE ToJson(c)[k]
    BY <1>5, Zenon
  <2>2. ToJson(c)[Keys[i]].raw = c[Keys[i]]
    BY ToJsonFields, KeysDiffer
  <2>3. \E r \in Cuts(Keys[i], c[Keys[i]]) : l = [raw |-> r, ended |-> FALSE]
    BY <1>5, <2>2, Zenon
  <2>4. upto(i + 1) = upto(i) \cup {Keys[i]}
    <3>1. 1..(i + 1) - 1 = (1..i - 1) \cup {i}
      BY <1>2
    <3> QED
      BY <3>1, Zenon
  <2> HIDE DEF upto
  <2>5. l.ended = FALSE
    BY <2>3
  <2>6. \A k \in DOMAIN t : t[k].ended = (k # Keys[i])
    <3>1. \A k \in DOMAIN t : k # Keys[i] => t[k].ended = TRUE
      BY <1>3, <2>1, ToJsonEnded
    <3>2. \A k \in DOMAIN t : k = Keys[i] => t[k].ended = FALSE
      BY <2>1, <2>5
    <3> QED
      BY <3>1, <3>2
  <2>7. {k \in DOMAIN t : t[k].ended} = upto(i)
    <3>1. \A k \in DOMAIN t : t[k].ended <=> k # Keys[i]
      BY <2>6, Zenon
    <3> QED
      BY <1>3, <2>1, <2>4, <3>1, Zenon
  <2>8. {k \in DOMAIN t : t[k].ended} = {Keys[j] : j \in 1..i - 1}
    BY <2>7 DEF upto
  <2> QED
    BY <1>3, <2>1, <2>3, <2>8
<1> QED
  BY <1>1, <1>4, <1>5

LEMMA CutsAreValues ==
  ASSUME NEW k \in Fields, NEW raw \in Values(k), NEW r \in Cuts(k, raw)
  PROVE  r \in Values(k)
<1>1. CASE k = "rt_priority"
  BY <1>1 DEF Cuts, Values
<1>2. CASE k = "netem_loss_pct" /\ raw # Infinite
  <2>1. raw \in Nat
    BY <1>2 DEF Values
  <2>2. r = raw - (raw % 10) \/ r = raw - (raw % 100) \/ r = raw - (raw % 1000)
    BY <1>2 DEF Cuts
  <2> QED
    BY <1>2, <2>1, <2>2 DEF Values
<1>3. CASE k # "rt_priority" /\ ~(k = "netem_loss_pct" /\ raw # Infinite)
  BY <1>3 DEF Cuts
<1> QED
  BY <1>1, <1>2, <1>3

\* Whatever is left of a text, it reads as a configuration.
LEMMA TornReads ==
  ASSUME NEW c \in Configs, NEW t \in Torn(ToJson(c))
  PROVE  FromJson(t) \in Configs
<1>1. PICK i \in 1..Len(Keys) :
        /\ DOMAIN t \subseteq Fields
        /\ \A k \in DOMAIN t : k # Keys[i] => t[k] = ToJson(c)[k]
        /\ Keys[i] \in DOMAIN t =>
             \E r \in Cuts(Keys[i], c[Keys[i]]) : t[Keys[i]] = [raw |-> r, ended |-> FALSE]
  BY TornLines
<1>2. \A k \in Fields : c[k] \in Values(k)
  BY ConfigIsFunction
<1>3. ASSUME NEW k \in Fields, k \in DOMAIN t PROVE t[k].raw \in Values(k)
  <2>1. CASE k = Keys[i]
    <3>1. PICK r \in Cuts(k, c[k]) : t[k] = [raw |-> r, ended |-> FALSE]
      BY <1>1, <1>3, <2>1
    <3> QED
      BY <1>2, <3>1, CutsAreValues
  <2>2. CASE k # Keys[i]
    <3>1. t[k].raw = c[k]
      BY <1>1, <1>3, <2>2, ToJsonFields
    <3> QED
      BY <1>2, <3>1
  <2> QED
    BY <2>1, <2>2
<1> QED
  BY <1>3, FromJsonIsConfig

\* What is left of a number is not larger.
LEMMA CutsAreSmaller ==
  ASSUME NEW k \in Numbers, NEW raw \in Nat, NEW r \in Cuts(k, raw)
  PROVE  r \in Nat /\ r <= raw
<1>1. CASE k = "rt_priority"
  <2>1. r = raw \div 10
    BY <1>1 DEF Cuts
  <2> QED
    BY <2>1
<1>2. CASE k = "netem_loss_pct"
  <2>1. raw # Infinite
    BY MarksAssumption
  <2>2. r = raw - (raw % 10) \/ r = raw - (raw % 100) \/ r = raw - (raw % 1000)
    BY <1>2, <2>1 DEF Cuts
  <2> QED
    BY <2>2
<1> QED
  BY <1>1, <1>2 DEF Numbers

\* A cut line reads as the whole one, as the default, or as a smaller number.
LEMMA CutReads ==
  ASSUME NEW c \in Configs, NEW k \in Fields, NEW t,
         k \in DOMAIN t => \E r \in Cuts(k, c[k]) : t[k] = [raw |-> r, ended |-> FALSE]
  PROVE  LET v == FromJson(t)[k]
             saved == FromJson(ToJson(c))[k]
         IN v \in {saved, Default[k]} \/ (k \in Numbers /\ v < saved)
<1> DEFINE v == FromJson(t)[k]
           saved == FromJson(ToJson(c))[k]
<1>0. /\ v = ReadOr(t, k, Default[k])
      /\ saved = ReadOr(ToJson(c), k, Default[k])
      /\ k \in DOMAIN ToJson(c) /\ ToJson(c)[k] = [raw |-> c[k], ended |-> TRUE]
      /\ c[k] \in Values(k)
  BY FromJsonFields, ToJsonFields, ConfigIsFunction
<1> HIDE DEF v, saved
<1>1. CASE k \notin DOMAIN t \/ ~Readable(k, t[k])
  <2>1. v = Default[k]
    BY <1>0, <1>1 DEF ReadOr
  <2> QED
    BY <2>1 DEF v, saved
<1>2. CASE k \in DOMAIN t /\ Readable(k, t[k]) /\ k \in Numbers
  <2>1. PICK r \in Cuts(k, c[k]) : t[k] = [raw |-> r, ended |-> FALSE]
    BY <1>2
  <2>2. r \notin {Junk, Infinite} /\ k # "ns_server"
    BY <1>2, <2>1 DEF Readable, Numbers
  <2>3. v = r
    BY <1>0, <1>2, <2>1, <2>2 DEF ReadOr
  <2>4. c[k] \in Nat
    <3>1. c[k] \in Nat \cup {Infinite}
      BY <1>0, <1>2 DEF Numbers, Values
    <3>2. c[k] # Infinite
      <4> SUFFICES ASSUME c[k] = Infinite PROVE FALSE
        OBVIOUS
      <4>1. k = "netem_loss_pct"
        BY <1>0, <1>2, MarksAssumption DEF Numbers, Values
      <4>2. Cuts(k, c[k]) = {Infinite}
        BY <4>1 DEF Cuts
      <4> QED
        BY <2>2, <4>2
    <3> QED
      BY <3>1, <3>2
  <2>5. saved = c[k]
    <3>1. Readable(k, ToJson(c)[k])
      BY <1>0, <1>2, <2>4, MarksAssumption DEF Readable
    <3> QED
      BY <1>0, <2>2, <3>1 DEF ReadOr
  <2>6. v \in Nat /\ v <= c[k]
    BY <1>2, <2>3, <2>4, CutsAreSmaller
  <2>7. v = saved \/ v < saved
    BY <2>4, <2>5, <2>6
  <2> QED
    BY <1>2, <2>7 DEF v, saved
<1>3. CASE k \in DOMAIN t /\ Readable(k, t[k]) /\ k \notin Numbers
  <2>1. PICK r \in Cuts(k, c[k]) : t[k] = [raw |-> r, ended |-> FALSE]
    BY <1>3
  <2>2. k # "rt_priority" /\ k # "netem_loss_pct"
    BY <1>3 DEF Numbers
  <2>3. r = c[k]
    BY <2>2 DEF Cuts
  <2>4. k = "ns_server"
    BY <1>3, <2>1 DEF Readable
  <2>5. Readable(k, ToJson(c)[k])
    BY <1>0, <1>3, <2>4 DEF Readable
  <2>6. v = BeforeQuote(c[k]) /\ saved = BeforeQuote(c[k])
    BY <1>0, <1>3, <2>1, <2>3, <2>4, <2>5 DEF ReadOr
  <2> QED
    BY <2>6 DEF v, saved
<1> QED
  BY <1>1, <1>2, <1>3

\* The fields before the cut read as saved, those after it as the default.
LEMMA TornIsPrefixOf ==
  ASSUME NEW c \in Configs, NEW t \in Torn(ToJson(c))
  PROVE  \E i \in 1..Len(Keys) :
           LET v == FromJson(t)[Keys[i]]
               saved == FromJson(ToJson(c))
           IN /\ {k \in DOMAIN t : t[k].ended} = {Keys[j] : j \in 1..i - 1}
              /\ \A j \in 1..Len(Keys) :
                   /\ j < i => FromJson(t)[Keys[j]] = saved[Keys[j]]
                   /\ j > i => FromJson(t)[Keys[j]] = Default[Keys[j]]
              /\ \/ v \in {saved[Keys[i]], Default[Keys[i]]}
                 \/ Keys[i] \in Numbers /\ v < saved[Keys[i]]
<1>1. PICK i \in 1..Len(Keys) :
        /\ DOMAIN t \subseteq Fields
        /\ {k \in DOMAIN t : t[k].ended} = {Keys[j] : j \in 1..i - 1}
        /\ \A k \in DOMAIN t : k # Keys[i] => t[k] = ToJson(c)[k]
        /\ Keys[i] \in DOMAIN t =>
             \E r \in Cuts(Keys[i], c[Keys[i]]) : t[Keys[i]] = [raw |-> r, ended |-> FALSE]
  BY TornLines
<1>2. i \in Nat /\ Len(Keys) = 5 /\ \A j \in 1..Len(Keys) : j \in Nat
  BY TheFields
<1>3. ASSUME NEW j \in 1..Len(Keys), j < i
      PROVE  FromJson(t)[Keys[j]] = FromJson(ToJson(c))[Keys[j]]
  <2> DEFINE k == Keys[j]
  <2>1. j \in 1..i - 1
    BY <1>2, <1>3
  <2>2. k \in DOMAIN t /\ k \in Fields /\ k # Keys[i]
    BY <1>1, <1>2, <1>3, <2>1, KeysDiffer
  <2>3. t[k] = ToJson(c)[k] /\ k \in DOMAIN ToJson(c)
    BY <1>1, <2>2, ToJsonFields
  <2>4. ReadOr(t, k, Default[k]) = ReadOr(ToJson(c), k, Default[k])
    BY <2>2, <2>3 DEF ReadOr
  <2> QED
    BY <2>2, <2>4, FromJsonFields
<1>4. ASSUME NEW j \in 1..Len(Keys), j > i
      PROVE  FromJson(t)[Keys[j]] = Default[Keys[j]]
  <2> DEFINE k == Keys[j]
  <2>1. k \in Fields /\ k # Keys[i]
    BY <1>2, <1>4, KeysDiffer
  <2>2. k \notin DOMAIN t
    <3> SUFFICES ASSUME k \in DOMAIN t PROVE FALSE
      OBVIOUS
    <3>1. t[k] = ToJson(c)[k]
      BY <1>1, <2>1
    <3>2. t[k].ended = TRUE
      BY <2>1, <3>1, ToJsonEnded
    <3>3. k \in {Keys[m] : m \in 1..i - 1}
      BY <1>1, <3>2, Zenon
    <3>4. PICK m \in 1..i - 1 : k = Keys[m]
      BY <3>3
    <3>5. m \in 1..Len(Keys) /\ m # j
      BY <1>2, <1>4
    <3> QED
      BY <3>4, <3>5, KeysDiffer
  <2> QED
    BY <2>1, <2>2, FromJsonFields DEF ReadOr
<1>5. LET v == FromJson(t)[Keys[i]]
          saved == FromJson(ToJson(c))[Keys[i]]
      IN v \in {saved, Default[Keys[i]]} \/ (Keys[i] \in Numbers /\ v < saved)
  BY <1>1, CutReads, KeysDiffer
<1> QED
  BY <1>1, <1>3, <1>4, <1>5

-------------------------------------------------------------------------------
\* What a write leaves, what is captured, edited and handed over.

LEMMA WriteTypes ==
  ASSUME NEW c \in Configs, NEW old, IsText(old), faults \in 0..MaxFaults,
         NEW w \in Write(c, old)
  PROVE  IsText(w[1]) /\ w[2] \in 0..MaxFaults
<1>1. CASE w = <<ToJson(c), faults>>
  BY <1>1, ToJsonReads DEF IsText
<1>2. ASSUME NEW left \in {old} \cup Torn(ToJson(c)) \cup {<<>>},
             w = <<left, faults + 1>>, faults < MaxFaults
      PROVE  IsText(w[1]) /\ w[2] \in 0..MaxFaults
  <2>1. IsText(left)
    BY <1>2, TornReads, EmptyText, DefaultIsConfig DEF IsText
  <2> QED
    BY <1>2, <2>1, StoreAssumption
<1>3. \/ w = <<ToJson(c), faults>>
      \/ \E left \in {old} \cup Torn(ToJson(c)) \cup {<<>>} :
           w = <<left, faults + 1>> /\ faults < MaxFaults
  <2>1. CASE w \in {<<ToJson(c), faults>>}
    BY <2>1
  <2>2. CASE w \notin {<<ToJson(c), faults>>}
    <3> DEFINE left == (IF Fault("full") THEN {old} \cup Torn(ToJson(c)) ELSE {})
                         \cup IF Fault("crash") THEN {<<>>} ELSE {}
    <3>1. w \in left \X {faults + 1}
      BY <2>2 DEF Write
    <3>2. \A l \in left : l \in {old} \cup Torn(ToJson(c)) \cup {<<>>} /\ faults < MaxFaults
      BY DEF Fault
    <3> HIDE DEF left
    <3> QED
      BY <3>1, <3>2
  <2> QED
    BY <2>1, <2>2
<1> QED
  BY <1>1, <1>2, <1>3

\* With neither a full disk nor a death, the text is whole.
LEMMA WriteWhole ==
  ASSUME NEW c, NEW old, world \cap {"full", "crash"} = {}, NEW w \in Write(c, old)
  PROVE  w[1] = ToJson(c)
<1>1. ~Fault("full") /\ ~Fault("crash")
  BY DEF Fault
<1>2. Write(c, old) = {<<ToJson(c), faults>>} \cup ({} \X {faults + 1})
  BY <1>1 DEF Write
<1> QED
  BY <1>2

LEMMA CoresAreCores ==
  ASSUME NEW s \in Seq(Nat \cup {Junk})
  PROVE  Cores(s) \in Seq(Nat)
BY ItemsAtIsSeq DEF Cores

LEMMA LoadIsConfig ==
  ASSUME NEW t, IsText(t)
  PROVE  Load(t) \in Configs
BY DefaultIsConfig DEF Load, IsText

LEMMA CaptureIsPlain ==
  ASSUME live \in Lives, IsText(active)
  PROVE  Plain(CaptureCurrentState)
<1> DEFINE cores == IF live.isolcpus = None THEN <<>> ELSE Cores(live.isolcpus)
           name == IF live.netns THEN <<"ns_server">> ELSE <<>>
           rt == IF active = None THEN 0 ELSE FromJson(active).rt_priority
<1>1. /\ live.isolcpus \in Seq(Nat \cup {Junk}) \cup {None}
      /\ live.nohz_full \in BOOLEAN
  BY LivesAssumption
<1>2. cores \in Seq(Nat)
  BY <1>1, CoresAreCores
<1>3. name \in Seq(Words \cup {Quote}) /\ Quote \notin ToSet(name)
  <2>1. <<"ns_server">> \in Seq(Words \cup {Quote}) /\ <<>> \in Seq(Words \cup {Quote})
    <3>1. "ns_server" \in Words
      BY MarksAssumption
    <3>2. \A S : "ns_server" \in S => <<"ns_server">> \in Seq(S)
      OBVIOUS
    <3> QED
      BY <3>1, <3>2
  <2>2. ToSet(<<>>) = {} /\ ToSet(<<"ns_server">>) = {"ns_server"}
    BY DEF ToSet
  <2>3. Quote \notin ToSet(<<"ns_server">>) /\ Quote \notin ToSet(<<>>)
    BY <2>2, MarksAssumption
  <2> QED
    BY <2>1, <2>3
<1>4. rt \in Nat
  BY DEF IsText, Configs
<1>5. Default.netem_loss_pct \in Nat
  BY DefaultAssumption
<1>6. CaptureCurrentState =
        [isolated_cores |-> cores, ns_server |-> name,
         netem_loss_pct |-> Default.netem_loss_pct, rt_priority |-> rt,
         apply_nohz_full |-> live.nohz_full]
  BY DEF CaptureCurrentState
<1> HIDE DEF cores, name, rt
<1> QED
  BY <1>1, <1>2, <1>3, <1>4, <1>5, <1>6 DEF Plain, Configs

\* A value of the field's kind, or for the numbers a text that does not parse.
LEMMA CommitTypes ==
  ASSUME NEW c \in Configs, NEW k \in Fields \ Toggles,
         NEW buf \in Typed[k]
  PROVE  /\ Commit(c, k, buf) \in Configs
         /\ Plain(c) /\ ~Odd(k, buf) => Plain(Commit(c, k, buf))
<1>1. CASE k = "isolated_cores"
  <2>1. buf \in Seq(Nat \cup {Junk})
    BY <1>1, TypedAssumption
  <2>2. Cores(buf) \in Seq(Nat)
    BY <2>1, CoresAreCores
  <2>3. Commit(c, k, buf) = c \/ Commit(c, k, buf) = [c EXCEPT !["isolated_cores"] = Cores(buf)]
    BY <1>1 DEF Commit
  <2> QED
    BY <2>2, <2>3 DEF Configs, Plain
<1>2. CASE k = "ns_server"
  <2>1. buf \in Seq(Words \cup {Quote})
    BY <1>2, TypedAssumption
  <2>2. Commit(c, k, buf) = [c EXCEPT !["ns_server"] = buf]
    BY <1>2 DEF Commit, Numbers
  <2>3. ~Odd(k, buf) => Quote \notin ToSet(buf)
    BY <1>2 DEF Odd
  <2> QED
    BY <2>1, <2>2, <2>3 DEF Configs, Plain
<1>3. CASE k = "netem_loss_pct"
  <2>1. buf \in Nat \cup {Infinite, Junk}
    BY <1>3, TypedAssumption
  <2>2. Commit(c, k, buf) = IF buf = Junk THEN c ELSE [c EXCEPT !["netem_loss_pct"] = buf]
    BY <1>3 DEF Commit, Numbers
  <2>3. ~Odd(k, buf) => buf # Infinite
    BY DEF Odd
  <2> QED
    BY <2>1, <2>2, <2>3 DEF Configs, Plain
<1>4. CASE k = "rt_priority"
  <2>1. buf \in Nat \cup {Junk}
    BY <1>4, TypedAssumption
  <2>2. Commit(c, k, buf) = IF buf = Junk THEN c ELSE [c EXCEPT !["rt_priority"] = buf]
    BY <1>4 DEF Commit, Numbers
  <2> QED
    BY <2>1, <2>2 DEF Configs, Plain
<1> QED
  BY <1>1, <1>2, <1>3, <1>4, TheFields DEF Toggles

LEMMA ToggleTypes ==
  ASSUME NEW c \in Configs, NEW k \in Toggles
  PROVE  /\ [c EXCEPT ![k] = ~@] \in Configs
         /\ Plain(c) => Plain([c EXCEPT ![k] = ~@])
BY DEF Toggles, Configs, Plain

\* The C structure says what the configuration says.
LEMMA ThroughC ==
  ASSUME NEW c \in Configs
  PROVE  FromC(ToC(c)) = c /\ ToC(c) # None
<1>1. /\ c.isolated_cores # None /\ c.ns_server # None
      /\ None \notin CStructures
  BY MarksAssumption DEF Configs
<1> DEFINE null(x) == IF x = <<>> THEN None ELSE x
<1>2. ToC(c) = [c EXCEPT !.isolated_cores = null(c.isolated_cores),
                         !.ns_server = null(c.ns_server)]
  BY DEF ToC, Configs
<1>3. ToC(c) \in CStructures
  BY <1>2 DEF Configs, CStructures
<1>4. FromC(ToC(c)) = c
  <2> DEFINE full(x) == IF x = None THEN <<>> ELSE x
  <2>1. FromC(ToC(c)) = [ToC(c) EXCEPT !.isolated_cores = full(ToC(c).isolated_cores),
                                       !.ns_server = full(ToC(c).ns_server)]
    BY <1>3 DEF FromC, CStructures
  <2>2. /\ full(ToC(c).isolated_cores) = c.isolated_cores
        /\ full(ToC(c).ns_server) = c.ns_server
    BY <1>1, <1>2 DEF Configs
  <2> HIDE DEF full
  <2>3. FromC(ToC(c)) = [ToC(c) EXCEPT !.isolated_cores = c.isolated_cores,
                                       !.ns_server = c.ns_server]
    BY <2>1, <2>2
  <2> HIDE DEF null
  <2> QED
    BY <1>2, <2>3 DEF Configs
<1> QED
  BY <1>1, <1>3, <1>4

\* Two decimals are within half a hundredth of a percent.
LEMMA TwoDecimals ==
  ASSUME NEW x \in Nat
  PROVE  ((x + 5) \div 10) * 10 \in Nat /\ ((x + 5) \div 10) * 10 - x \in -5..5
OBVIOUS

\* The invariant ReenterKeeps holds of every configuration.
LEMMA Reentered ==
  ASSUME NEW c \in Configs, NEW k \in Fields \ Toggles
  PROVE  LET d == Commit(c, k, Shown(c, k))
         IN /\ \A f \in Fields \ {"netem_loss_pct"} : d[f] = c[f]
            /\ c.netem_loss_pct # Infinite => d.netem_loss_pct - c.netem_loss_pct \in -5..5
<1>1. /\ c.isolated_cores \in Seq(Nat) /\ c.rt_priority \in Nat
      /\ c.netem_loss_pct \in Nat \cup {Infinite}
      /\ c = [f \in Fields |-> c[f]]
  BY ConfigIsFunction DEF Configs
<1>2. CASE k = "isolated_cores"
  <2>1. {i \in DOMAIN c.isolated_cores : c.isolated_cores[i] # Junk} = DOMAIN c.isolated_cores
    BY <1>1, MarksAssumption
  <2>2. Cores(c.isolated_cores) = c.isolated_cores
    BY <1>1, <2>1, ItemsAtAll DEF Cores
  <2>3. Commit(c, k, Shown(c, k)) = c
    BY <1>1, <1>2, <2>2 DEF Commit, Shown
  <2> QED
    BY <1>1, <2>3
<1>3. CASE k = "ns_server"
  <2>1. Commit(c, k, Shown(c, k)) = c
    BY <1>1, <1>3 DEF Commit, Shown, Numbers
  <2> QED
    BY <1>1, <2>1
<1>4. CASE k = "rt_priority"
  <2>1. Commit(c, k, Shown(c, k)) = c
    BY <1>1, <1>4 DEF Commit, Shown, Numbers
  <2> QED
    BY <1>1, <2>1
<1>5. CASE k = "netem_loss_pct"
  <2>1. c.netem_loss_pct # Infinite => Shown(c, k) = ((c.netem_loss_pct + 5) \div 10) * 10
    BY <1>5 DEF Shown
  <2>2. c.netem_loss_pct # Infinite => /\ Shown(c, k) \in Nat
                                       /\ Shown(c, k) - c.netem_loss_pct \in -5..5
    BY <1>1, <2>1, TwoDecimals
  <2>3. c.netem_loss_pct = Infinite => Shown(c, k) = Infinite
    BY <1>5 DEF Shown
  <2>4. Commit(c, k, Shown(c, k)) = [c EXCEPT !["netem_loss_pct"] = Shown(c, k)]
    BY <1>5, <2>2, <2>3, MarksAssumption DEF Commit, Numbers
  <2> QED
    BY <1>1, <2>2, <2>4, TheFields
<1> QED
  BY <1>2, <1>3, <1>4, <1>5, TheFields DEF Toggles

-------------------------------------------------------------------------------
\* The inductive invariant: the types; where the picker is open and a restore is
\* due, and what the picker shows; that without odd values the form can be written
\* as it is; and, for NewestIsPre, that of all files the last capture is in the
\* newest directory, and in the directory of this second when SaveConfig is next.  That
\* no write has the place of an earlier one is FreshInv.

FlowInv ==
  /\ files = [p \in Places |-> files[p]]
  /\ picker # <<>> => at = "idle"
  /\ chosen # None <=> at = "restoring"
  /\ \A i \in DOMAIN picker : /\ picker[i].place \in Places
                              /\ files[picker[i].place] # None
                              /\ picker[i].config = FromJson(files[picker[i].place])

PlainInv == "odd" \notin world => Plain(form)

Newest(s) ==
  /\ s \in 0..clock
  /\ files[<<s, "preconfig">>] # None
  /\ FromJson(files[<<s, "preconfig">>]) = before
  /\ \A p \in Places : files[p] # None => p[1] <= s

NewestInv ==
  world \cap {"slow", "back", "full", "crash"} = {} =>
    /\ before = None => \A p \in Places : files[p] = None
    /\ before # None => \E s \in 0..clock : Newest(s)
    /\ at = "captured" => Newest(clock)

\* No file is where SaveConfig is about to write, and none is of a later second.
FreshInv ==
  "quick" \notin world /\ ~({"slow", "back"} \subseteq world) =>
    /\ at = "captured" => files[<<clock, "config">>] = None
    /\ "back" \notin world => \A p \in Places : files[p] # None => p[1] <= clock

Types == TypeOK /\ FlowInv

\* The places of the files, by age.
LEMMA ByAgePlaces ==
  /\ ByAge \in Seq(Places)
  /\ DOMAIN ByAge = 1..2 * (MaxSecond + 1)
  /\ \A i \in DOMAIN ByAge : /\ ByAge[i] \in Places
                             /\ ByAge[i][1] = MaxSecond - (i - 1) \div 2
<1>1. MaxSecond \in Nat /\ 2 * (MaxSecond + 1) \in Nat
  BY StoreAssumption
<1>2. /\ DOMAIN ByAge = 1..2 * (MaxSecond + 1)
      /\ \A i \in DOMAIN ByAge :
           ByAge[i] = <<MaxSecond - (i - 1) \div 2, Labels[((i - 1) % 2) + 1]>>
  BY DEF ByAge
<1>3. ASSUME NEW i \in 1..2 * (MaxSecond + 1)
      PROVE  MaxSecond - (i - 1) \div 2 \in 0..MaxSecond /\ ((i - 1) % 2) + 1 \in 1..2
  BY <1>1
<1>4. \A i \in DOMAIN ByAge : ByAge[i] \in Places
  <2> SUFFICES ASSUME NEW i \in 1..2 * (MaxSecond + 1) PROVE ByAge[i] \in Places
    BY <1>2
  <2> DEFINE second == MaxSecond - (i - 1) \div 2
             label == Labels[((i - 1) % 2) + 1]
  <2>1. label \in {Labels[j] : j \in 1..2}
    BY <1>3, Zenon
  <2>2. second \in 0..MaxSecond
    BY <1>3
  <2>3. ByAge[i] = <<second, label>>
    BY <1>2
  <2> HIDE DEF second, label
  <2> QED
    BY <2>1, <2>2, <2>3 DEF Places
<1>5. ByAge = [i \in 1..2 * (MaxSecond + 1) |-> ByAge[i]]
  BY DEF ByAge
<1>6. ByAge \in [1..2 * (MaxSecond + 1) -> Places]
  BY <1>2, <1>4, <1>5, Zenon
<1>7. ByAge \in Seq(Places)
  BY <1>1, <1>6, SeqDef
<1> QED
  BY <1>2, <1>4, <1>7

\* The picker shows files there are, and reads them.
LEMMA ListEntries ==
  ASSUME Types
  PROVE  \A i \in DOMAIN List : /\ List[i].place \in Places
                                /\ files[List[i].place] # None
                                /\ List[i].config = FromJson(files[List[i].place])
                                /\ List[i].config \in Configs
<1> DEFINE Present == {i \in DOMAIN ByAge : files[ByAge[i]] # None}
           there == ItemsAt(ByAge, Present)
<1>1. IsFiniteSet(Present) /\ Present \subseteq Nat
  BY ByAgePlaces, PositionsAreFinite
<1>2. DOMAIN List = DOMAIN there /\ DOMAIN there = 1..Cardinality(Present)
  <2>1. DOMAIN List = DOMAIN there
    BY DEF List
  <2> HIDE DEF Present
  <2> QED
    BY <1>1, <2>1, ItemsAtPositions
<1>3. \A n \in DOMAIN List : List[n] = [place |-> there[n], config |-> FromJson(files[there[n]])]
  BY Zenon DEF List
<1>4. ASSUME NEW n \in DOMAIN List
      PROVE  there[n] \in Places /\ files[there[n]] # None
  <2> DEFINE Files == {p \in Places : files[p] # None}
  <2>1. ByAge \in Seq(Places) /\ Present \in SUBSET (DOMAIN ByAge)
    BY ByAgePlaces
  <2>2. \A i \in Present : ByAge[i] \in Files
    BY ByAgePlaces
  <2>3. n \in DOMAIN there
    BY <1>2, <1>4
  <2> HIDE DEF Present, Files
  <2>4. there \in Seq(Files)
    BY <2>1, <2>2, ItemsAtIsSeq
  <2> HIDE DEF there
  <2>5. there[n] \in Files
    BY <2>3, <2>4
  <2> QED
    BY <2>5 DEF Files
<1>5. ASSUME NEW p \in Places, files[p] # None PROVE FromJson(files[p]) \in Configs
  BY <1>5 DEF Types, TypeOK, IsText
<1> HIDE DEF there
<1> QED
  BY <1>3, <1>4, <1>5

\* The first entry is the first label of the newest directory, if that is there.
LEMMA NewestIsFirst ==
  ASSUME Types, NEW s, Newest(s)
  PROVE  List # <<>> => List[1].config = before
<1> DEFINE Present == {i \in DOMAIN ByAge : files[ByAge[i]] # None}
           there == ItemsAt(ByAge, Present)
           first == 2 * (MaxSecond - s) + 1
<1>1. IsFiniteSet(Present) /\ Present \subseteq Nat
  BY ByAgePlaces, PositionsAreFinite
<1>2. s \in 0..MaxSecond /\ MaxSecond \in Nat
  BY StoreAssumption DEF Newest, Types, TypeOK
<1>3. first \in 1..2 * (MaxSecond + 1) /\ (first - 1) \div 2 = MaxSecond - s
      /\ ((first - 1) % 2) + 1 = 1 /\ MaxSecond - (MaxSecond - s) = s
  BY <1>2
<1>4. ByAge[first] = <<s, "preconfig">>
  <2>1. ByAge[first] = <<MaxSecond - (first - 1) \div 2, Labels[((first - 1) % 2) + 1]>>
    BY <1>3 DEF ByAge
  <2>2. Labels[1] = "preconfig"
    BY DEF Labels
  <2> HIDE DEF first
  <2> QED
    BY <1>3, <2>1, <2>2
<1>5. first \in Present
  BY <1>3, <1>4, ByAgePlaces DEF Newest
<1>6. ASSUME NEW i \in Present PROVE first <= i
  <2>1. i \in 1..2 * (MaxSecond + 1) /\ ByAge[i] \in Places
    BY ByAgePlaces
  <2>2. ByAge[i][1] <= s
    BY <2>1 DEF Newest
  <2>3. MaxSecond - (i - 1) \div 2 <= s
    BY <2>1, <2>2, ByAgePlaces
  <2> QED
    BY <1>2, <2>1, <2>3
<1>7. 1 \in 1..Cardinality(Present) /\ there[1] = ByAge[first]
  <2> HIDE DEF Present, first
  <2> QED
    BY <1>1, <1>5, <1>6, FirstItem
<1>8. 1 \in DOMAIN List
  <2>1. DOMAIN List = DOMAIN there
    BY DEF List
  <2>2. DOMAIN there = 1..Cardinality(Present)
    BY DEF ItemsAt
  <2> QED
    BY <1>7, <2>1, <2>2, Zenon
<1>9. List[1].config = FromJson(files[there[1]])
  <2>1. List[1] = [place |-> there[1], config |-> FromJson(files[there[1]])]
    BY <1>8, Zenon DEF List
  <2> HIDE DEF there
  <2> QED
    BY <2>1
<1> QED
  <2> HIDE DEF Present, there, first
  <2> QED
    BY <1>4, <1>7, <1>9 DEF Newest

-------------------------------------------------------------------------------
\* Steps.

LEMMA InitTypes == Init => Types
<1> SUFFICES ASSUME Init PROVE Types
  OBVIOUS
<1>1. TypeOK
  BY DefaultIsConfig, StoreAssumption DEF Init, TypeOK, IsText
<1>2. FlowInv
  BY DEF Init, FlowInv
<1> QED
  BY <1>1, <1>2 DEF Types

\* A step that gives the library nothing, or what ToC makes of a configuration.
LEMMA HandedTypes ==
  ASSUME handed' = None \/ \E c \in Configs : handed' = ToC(c)
  PROVE  (handed = None \/ FromC(handed) \in Configs)'
<1>1. CASE handed' = None
  BY <1>1
<1>2. ASSUME NEW c \in Configs, handed' = ToC(c)
      PROVE  FromC(handed') \in Configs
  BY <1>2, ThroughC
<1> QED
  BY <1>1, <1>2

\* A file is written, at a place where there may be one.
LEMMA SaveTypes ==
  ASSUME Types, NEW c \in Configs, NEW label \in {"preconfig", "config"}, Save(c, label)
  PROVE  /\ faults' \in 0..MaxFaults
         /\ files' = [p \in Places |-> files'[p]]
         /\ \A p \in Places : IsText(files'[p])
         /\ <<clock, label>> \in Places
<1>1. clock \in 0..MaxSecond /\ faults \in 0..MaxFaults
  BY DEF Types, TypeOK
<1>2. <<clock, label>> \in Places
  <2>1. {Labels[i] : i \in 1..2} = {"preconfig", "config"}
    BY DEF Labels
  <2> QED
    BY <1>1, <2>1 DEF Places
<1>3. PICK w \in Write(c, files[<<clock, label>>]) :
        files' = [files EXCEPT ![<<clock, label>>] = w[1]] /\ faults' = w[2]
  BY DEF Save
<1>4. IsText(w[1]) /\ w[2] \in 0..MaxFaults
  <2>1. IsText(files[<<clock, label>>])
    BY <1>2 DEF Types, TypeOK
  <2> QED
    BY <1>1, <2>1, WriteTypes
<1>5. files' = [p \in Places |-> IF p = <<clock, label>> THEN w[1] ELSE files[p]]
  BY <1>3 DEF Types, FlowInv
<1>6. \A p \in Places : IsText(files'[p])
  BY <1>4, <1>5 DEF Types, TypeOK
<1> QED
  BY <1>2, <1>3, <1>4, <1>5, <1>6

LEMMA QuietTypes ==
  ASSUME Types, Quiet, handed' = None
  PROVE  Types'
<1> USE DEF Types, TypeOK, FlowInv, store, user, tui
<1>0. (handed = None \/ FromC(handed) \in Configs)'
  BY HandedTypes
<1>1. ASSUME NEW k \in Fields \ Toggles, Edit(k) PROVE Types'
  <2>1. form' \in Configs
    BY <1>1, CommitTypes DEF Edit
  <2>2. edits' \in 0..MaxEdits
    BY <1>1, StoreAssumption DEF Edit
  <2> QED
    BY <1>0, <1>1, <2>1, <2>2 DEF Edit
<1>2. ASSUME NEW k \in Toggles, Toggle(k) PROVE Types'
  <2>1. form' \in Configs
    BY <1>2, ToggleTypes DEF Toggle
  <2>2. edits' \in 0..MaxEdits
    BY <1>2, StoreAssumption DEF Toggle
  <2> QED
    BY <1>0, <1>2, <2>1, <2>2 DEF Toggle
<1>3. CASE SavePre
  <2>1. CaptureCurrentState \in Configs
    BY CaptureIsPlain DEF Plain
  <2>2. /\ faults' \in 0..MaxFaults
        /\ files' = [p \in Places |-> files'[p]]
        /\ \A p \in Places : IsText(files'[p])
    BY <1>3, <2>1, SaveTypes DEF SavePre
  <2> QED
    BY <1>0, <1>3, <2>1, <2>2 DEF SavePre
<1>4. CASE SaveConfig
  <2>2. /\ faults' \in 0..MaxFaults
        /\ files' = [p \in Places |-> files'[p]]
        /\ \A p \in Places : IsText(files'[p])
    BY <1>4, SaveTypes DEF SaveConfig
  <2>3. picker = <<>>
    BY <1>4 DEF SaveConfig
  <2> QED
    BY <1>0, <1>4, <2>2, <2>3 DEF SaveConfig
<1>5. CASE EmptyActive
  <2>1. IsText(active')
    BY <1>5, EmptyText, DefaultIsConfig DEF EmptyActive, IsText
  <2> QED
    BY <1>0, <1>5, <2>1 DEF EmptyActive
<1>6. CASE FillActive
  <2>1. IsText(active') /\ faults' \in 0..MaxFaults
    BY <1>6, WriteTypes DEF FillActive
  <2> QED
    BY <1>0, <1>6, <2>1 DEF FillActive
<1>7. CASE OpenPicker
  <2>1. \A i \in DOMAIN picker' : /\ picker'[i].place \in Places
                                  /\ files[picker'[i].place] # None
                                  /\ picker'[i].config = FromJson(files[picker'[i].place])
                                  /\ picker'[i].config \in Configs
    BY <1>7, ListEntries DEF OpenPicker
  <2> QED
    BY <1>0, <1>7, <2>1 DEF OpenPicker
<1>8. CASE Cancel
  BY <1>0, <1>8 DEF Cancel
<1>9. ASSUME NEW i \in 1..Cardinality(Places), Teardown(i) PROVE Types'
  <2>1. chosen' \in Configs /\ chosen' # None
    BY <1>9, MarksAssumption DEF Teardown
  <2>2. files' = [p \in Places |-> files'[p]] /\ \A p \in Places : IsText(files'[p])
    BY <1>9 DEF Teardown, IsText
  <2>3. IsText(active')
    BY <1>9 DEF Teardown, IsText
  <2> QED
    BY <1>0, <1>9, <2>1, <2>2, <2>3 DEF Teardown
<1>10. CASE Machine
  BY <1>0, <1>10 DEF Machine
<1>11. CASE Tick
  <2>1. clock' \in 0..MaxSecond
    BY <1>11, StoreAssumption DEF Tick
  <2> QED
    BY <1>0, <1>11, <2>1 DEF Tick
<1>12. CASE Crash
  <2>1. faults' \in 0..MaxFaults
    BY <1>12, StoreAssumption DEF Crash
  <2> QED
    BY <1>0, <1>12, <2>1, DefaultIsConfig DEF Crash
<1> QED
  BY <1>1, <1>2, <1>3, <1>4, <1>5, <1>6, <1>7, <1>8, <1>9, <1>10, <1>11, <1>12 DEF Quiet

LEMMA TypesStep == Types /\ [Next]_vars => Types'
<1> SUFFICES ASSUME Types, [Next]_vars PROVE Types'
  OBVIOUS
<1> USE DEF Types, TypeOK, FlowInv, store, user, tui
<1>1. CASE Quiet /\ handed' = None
  BY <1>1, QuietTypes
<1>2. CASE RunSetup
  <2>1. (handed = None \/ FromC(handed) \in Configs)'
    BY <1>2, HandedTypes DEF RunSetup
  <2> QED
    BY <1>2, <2>1 DEF RunSetup
<1>3. CASE Restore
  <2>1. (handed = None \/ FromC(handed) \in Configs)'
    BY <1>3, HandedTypes DEF Restore
  <2> QED
    BY <1>3, <2>1 DEF Restore
<1>4. CASE Daemon
  <2>1. (handed = None \/ FromC(handed) \in Configs)'
    BY <1>4, HandedTypes, LoadIsConfig DEF Daemon
  <2> QED
    BY <1>4, <2>1 DEF Daemon
<1>5. CASE UNCHANGED vars
  BY <1>5 DEF vars
<1> QED
  BY <1>1, <1>2, <1>3, <1>4, <1>5 DEF Next

LEMMA DefaultIsPlain == Plain(Default)
BY DefaultIsConfig, DefaultAssumption DEF Plain

LEMMA PlainStep == Types /\ PlainInv /\ [Next]_vars => PlainInv'
<1> SUFFICES ASSUME Types, PlainInv, [Next]_vars PROVE PlainInv'
  OBVIOUS
<1> USE DEF PlainInv, store, user, tui
<1>1. ASSUME NEW k \in Fields \ Toggles, Edit(k) PROVE PlainInv'
  <2>1. PICK buf \in Typed[k] : (Odd(k, buf) => "odd" \in world) /\ form' = Commit(form, k, buf)
    BY <1>1 DEF Edit
  <2>2. world' = world
    BY <1>1 DEF Edit
  <2> QED
    BY <2>1, <2>2, CommitTypes DEF Types, TypeOK
<1>2. ASSUME NEW k \in Toggles, Toggle(k) PROVE PlainInv'
  <2>1. world' = world /\ form' = [form EXCEPT ![k] = ~@]
    BY <1>2 DEF Toggle
  <2> QED
    BY <2>1, ToggleTypes DEF Types, TypeOK
<1>3. CASE Crash
  BY <1>3, DefaultIsPlain DEF Crash
<1>4. ASSUME UNCHANGED <<world, form>> PROVE PlainInv'
  BY <1>4
<1>5. ASSUME \/ SavePre \/ SaveConfig \/ EmptyActive \/ FillActive
             \/ OpenPicker \/ Cancel \/ \E i \in 1..Cardinality(Places) : Teardown(i)
             \/ Machine \/ Tick \/ RunSetup \/ Restore \/ Daemon \/ UNCHANGED vars
      PROVE  UNCHANGED <<world, form>>
  BY <1>5 DEF SavePre, SaveConfig, EmptyActive, FillActive, OpenPicker, Cancel, Teardown,
              Machine, Tick, RunSetup, Restore, Daemon, vars
<1> QED
  BY <1>1, <1>2, <1>3, <1>4, <1>5 DEF Next, Quiet

LEMMA FreshStep == Types /\ FreshInv /\ [Next]_vars => FreshInv'
<1> SUFFICES ASSUME Types, FreshInv, [Next]_vars PROVE FreshInv'
  OBVIOUS
<1>0. world' = world
  BY DEF Next, Quiet, Edit, Toggle, SavePre, SaveConfig, EmptyActive, FillActive, OpenPicker,
         Cancel, Teardown, Machine, Tick, Crash, RunSetup, Restore, Daemon, vars, store, user, tui
<1> SUFFICES ASSUME "quick" \notin world, ~({"slow", "back"} \subseteq world)
             PROVE  /\ at' = "captured" => files'[<<clock', "config">>] = None
                    /\ "back" \notin world =>
                         \A p \in Places : files'[p] # None => p[1] <= clock'
  BY <1>0 DEF FreshInv
<1>1. /\ at = "captured" => files[<<clock, "config">>] = None
      /\ "back" \notin world => \A p \in Places : files[p] # None => p[1] <= clock
  BY DEF FreshInv
<1>2. clock \in 0..MaxSecond /\ \A p \in Places : p[1] \in Nat
  BY StoreAssumption DEF Types, TypeOK, Places
<1>3. ASSUME NEW label \in {"preconfig", "config"}, NEW c, Save(c, label)
      PROVE  \A p \in Places : p # <<clock, label>> => files'[p] = files[p]
  BY <1>3 DEF Save, Types, FlowInv
<1>4. \A p \in Places : p = <<clock, "preconfig">> \/ p = <<clock, "config">> => p[1] <= clock
  BY <1>2
<1>5. <<clock, "config">> \in Places
  <2>1. "config" \in {Labels[i] : i \in 1..2}
    BY DEF Labels
  <2> QED
    BY <1>2, <2>1 DEF Types, TypeOK, Places
<1>6. CASE SavePre
  <2>1. files[<<clock, "config">>] = None
    BY <1>6 DEF SavePre, Labels
  <2>2. UNCHANGED clock /\ Save(CaptureCurrentState, "preconfig")
    BY <1>6 DEF SavePre
  <2>3. \A p \in Places : p # <<clock, "preconfig">> => files'[p] = files[p]
    BY <1>3, <2>2
  <2> QED
    BY <1>1, <1>4, <1>5, <2>1, <2>2, <2>3
<1>7. CASE SaveConfig
  <2>1. UNCHANGED clock /\ Save(form, "config") /\ at' # "captured"
    BY <1>7 DEF SaveConfig
  <2>2. \A p \in Places : p # <<clock, "config">> => files'[p] = files[p]
    BY <1>3, <2>1
  <2> QED
    BY <1>1, <1>4, <2>1, <2>2
<1>8. ASSUME NEW i \in 1..Cardinality(Places), Teardown(i)
      PROVE  at' # "captured" /\ \A p \in Places : files'[p] = None
  BY <1>8 DEF Teardown
<1>9. CASE Tick
  <2>1. UNCHANGED <<files, at>> /\ clock' \in Nat
    BY <1>2, <1>9 DEF Tick, store, tui
  <2>2. "back" \notin world => clock' = clock + 1
    BY <1>9 DEF Tick
  <2>3. "back" \notin world => \A p \in Places : files[p] # None => p[1] < clock'
    BY <1>1, <1>2, <2>1, <2>2
  <2>4. at = "captured" => "back" \notin world
    BY <1>9 DEF Tick
  <2>5. <<clock', "config">> \in Places
    <3>1. "config" \in {Labels[i] : i \in 1..2}
      BY DEF Labels
    <3>2. clock' \in 0..MaxSecond
      BY <1>2, <1>9, StoreAssumption DEF Tick
    <3> QED
      BY <3>1, <3>2 DEF Places
  <2>6. at = "captured" => files[<<clock', "config">>] = None
    <3> SUFFICES ASSUME at = "captured", files[<<clock', "config">>] # None PROVE FALSE
      OBVIOUS
    <3>1. <<clock', "config">>[1] < clock'
      BY <2>3, <2>4, <2>5
    <3> QED
      BY <2>1, <3>1
  <2>7. "back" \notin world => \A p \in Places : files[p] # None => p[1] <= clock'
    BY <1>2, <2>1, <2>3
  <2> QED
    BY <2>1, <2>6, <2>7
<1>10. ASSUME \/ \E k \in Fields \ Toggles : Edit(k)
              \/ \E k \in Toggles : Toggle(k)
              \/ EmptyActive \/ FillActive \/ OpenPicker \/ Cancel \/ Machine \/ Crash
              \/ RunSetup \/ Restore \/ Daemon \/ UNCHANGED vars
      PROVE  UNCHANGED <<files, clock>> /\ (at' # "captured" \/ UNCHANGED at)
  BY <1>10 DEF Edit, Toggle, EmptyActive, FillActive, OpenPicker, Cancel, Machine, Crash,
               RunSetup, Restore, Daemon, vars, store, user, tui
<1>11. ASSUME UNCHANGED <<files, clock>>, at' # "captured" \/ UNCHANGED at
       PROVE  /\ at' = "captured" => files'[<<clock', "config">>] = None
              /\ "back" \notin world => \A p \in Places : files'[p] # None => p[1] <= clock'
  BY <1>1, <1>11
<1> QED
  BY <1>6, <1>7, <1>8, <1>9, <1>10, <1>11 DEF Next, Quiet

LEMMA NewestStep == Types /\ NewestInv /\ [Next]_vars => NewestInv'
<1> SUFFICES ASSUME Types, NewestInv, [Next]_vars PROVE NewestInv'
  OBVIOUS
<1>0. world' = world
  BY DEF Next, Quiet, Edit, Toggle, SavePre, SaveConfig, EmptyActive, FillActive, OpenPicker,
         Cancel, Teardown, Machine, Tick, Crash, RunSetup, Restore, Daemon, vars, store, user, tui
<1> SUFFICES ASSUME world \cap {"slow", "back", "full", "crash"} = {}
             PROVE  /\ before' = None => \A p \in Places : files'[p] = None
                    /\ before' # None => \E s \in 0..clock' : Newest(s)'
                    /\ at' = "captured" => (Newest(clock))'
  BY <1>0 DEF NewestInv
<1>1. /\ before = None => \A p \in Places : files[p] = None
      /\ before # None => \E s \in 0..clock : Newest(s)
      /\ at = "captured" => Newest(clock)
  BY DEF NewestInv
<1>2. clock \in 0..MaxSecond /\ \A p \in Places : p[1] \in Nat
  BY StoreAssumption DEF Types, TypeOK, Places
<1>3. ASSUME NEW c \in Configs, NEW label \in {"preconfig", "config"}, Save(c, label)
      PROVE  files' = [p \in Places |-> IF p = <<clock, label>> THEN ToJson(c) ELSE files[p]]
  <2>1. PICK w \in Write(c, files[<<clock, label>>]) :
          files' = [files EXCEPT ![<<clock, label>>] = w[1]]
    BY <1>3 DEF Save
  <2>2. w[1] = ToJson(c)
    BY WriteWhole
  <2> QED
    BY <2>1, <2>2 DEF Types, FlowInv
<1>4. CASE SavePre
  <2> DEFINE c == CaptureCurrentState
  <2>1. Plain(c)
    BY CaptureIsPlain DEF Types, TypeOK
  <2>2. c \in Configs /\ c # None /\ FromJson(ToJson(c)) = c /\ ToJson(c) # None
    BY <2>1, RoundTrip, ToJsonIsText, MarksAssumption DEF Plain
  <2>3. files' = [p \in Places |-> IF p = <<clock, "preconfig">> THEN ToJson(c) ELSE files[p]]
    BY <1>3, <1>4, <2>2 DEF SavePre
  <2>4. before' = c /\ clock' = clock
    BY <1>4 DEF SavePre, user
  <2>5. <<clock, "preconfig">> \in Places
    BY <1>4, <2>2, SaveTypes DEF SavePre
  <2>6. \A p \in Places : files[p] # None => p[1] <= clock
    <3>1. CASE before = None
      BY <1>1, <3>1
    <3>2. CASE before # None
      <4>1. PICK s \in 0..clock : \A p \in Places : files[p] # None => p[1] <= s
        BY <1>1, <3>2 DEF Newest
      <4>2. s \in Nat /\ s <= clock /\ clock \in Nat
        BY <1>2
      <4> QED
        BY <1>2, <4>1, <4>2
    <3> QED
      BY <3>1, <3>2
  <2> HIDE DEF c
  <2>7. (Newest(clock))'
    BY <1>2, <2>2, <2>3, <2>4, <2>5, <2>6 DEF Newest
  <2> QED
    BY <1>2, <2>2, <2>4, <2>7
<1>5. CASE SaveConfig
  <2>1. /\ form \in Configs /\ ToJson(form) # None
    BY ToJsonIsText DEF Types, TypeOK
  <2>2. files' = [p \in Places |-> IF p = <<clock, "config">> THEN ToJson(form) ELSE files[p]]
    BY <1>3, <1>5, <2>1 DEF SaveConfig
  <2>3. before' = before /\ clock' = clock /\ at' = "saved"
    BY <1>5 DEF SaveConfig, user
  <2>4. <<clock, "preconfig">> \in Places
    BY <1>2 DEF Places, Labels
  <2>5. Newest(clock) /\ before # None
    <3>1. Newest(clock)
      BY <1>1, <1>5 DEF SaveConfig
    <3>2. FromJson(files[<<clock, "preconfig">>]) \in Configs
      BY <2>4, <3>1 DEF Newest, Types, TypeOK, IsText
    <3> QED
      BY <3>1, <3>2, MarksAssumption DEF Newest
  <2>6. (Newest(clock))'
    BY <1>2, <2>1, <2>2, <2>3, <2>4, <2>5 DEF Newest
  <2>7. clock' \in 0..clock' /\ before' # None
    BY <1>2, <2>3, <2>5
  <2>8. clock' = clock
    BY <2>3
  <2> QED
    BY <2>3, <2>6, <2>7, <2>8
<1>6. ASSUME NEW i \in 1..Cardinality(Places), Teardown(i)
      PROVE  before' = None /\ at' # "captured" /\ \A p \in Places : files'[p] = None
  BY <1>6 DEF Teardown
<1>7. ASSUME UNCHANGED <<files, before>>, at' # "captured" \/ UNCHANGED <<at, clock>>,
             clock' \in Nat /\ clock' >= clock
      PROVE  /\ before' = None => \A p \in Places : files'[p] = None
             /\ before' # None => \E s \in 0..clock' : Newest(s)'
             /\ at' = "captured" => (Newest(clock))'
  <2>1. ASSUME NEW s \in 0..clock, Newest(s) PROVE s \in 0..clock' /\ Newest(s)'
    BY <1>2, <1>7, <2>1 DEF Newest
  <2>2. at' = "captured" => (Newest(clock))'
    BY <1>1, <1>2, <1>7 DEF Newest
  <2> QED
    BY <1>1, <1>7, <2>1, <2>2
<1>8. ASSUME \/ \E k \in Fields \ Toggles : Edit(k)
             \/ \E k \in Toggles : Toggle(k)
             \/ EmptyActive \/ FillActive \/ OpenPicker \/ Cancel \/ Machine
             \/ RunSetup \/ Restore \/ Daemon \/ UNCHANGED vars
      PROVE  UNCHANGED <<files, before, clock>> /\ (at' # "captured" \/ UNCHANGED at)
  BY <1>8 DEF Edit, Toggle, EmptyActive, FillActive, OpenPicker, Cancel, Machine,
              RunSetup, Restore, Daemon, vars, store, user, tui
<1>9. CASE Tick
  <2>1. UNCHANGED <<files, before, at>> /\ at # "captured" /\ clock' = clock + 1
    BY <1>9 DEF Tick, store, tui
  <2> QED
    BY <1>2, <1>7, <2>1
<1>10. ~Crash
  BY DEF Crash
<1>11. clock \in Nat
  BY <1>2
<1> QED
  BY <1>4, <1>5, <1>6, <1>7, <1>8, <1>9, <1>10, <1>11 DEF Next, Quiet

LEMMA NoFilesNoList == (\A p \in Places : files[p] = None) => List = <<>>
<1> SUFFICES ASSUME \A p \in Places : files[p] = None PROVE List = <<>>
  OBVIOUS
<1>1. {i \in DOMAIN ByAge : files[ByAge[i]] # None} = {}
  BY ByAgePlaces
<1>2. DOMAIN List = 1..Cardinality({})
  BY <1>1 DEF List, ItemsAt
<1>3. DOMAIN List = {}
  BY <1>2, FS_EmptySet
<1>4. List = [n \in DOMAIN List |-> List[n]]
  BY DEF List
<1> QED
  BY <1>3, <1>4

LEMMA PickerStep == Types /\ NewestInv /\ NewestIsPre /\ [Next]_vars => NewestIsPre'
<1> SUFFICES ASSUME Types, NewestInv, NewestIsPre, [Next]_vars,
                    picker' # <<>>, world' \cap {"slow", "back", "full", "crash"} = {}
             PROVE  picker'[1].config = before'
  BY DEF NewestIsPre
<1>1. CASE OpenPicker
  <2>1. picker' = List /\ before' = before /\ world' = world
    BY <1>1 DEF OpenPicker
  <2>2. before # None
    BY <2>1, NoFilesNoList DEF NewestInv
  <2>3. PICK s \in 0..clock : Newest(s)
    BY <2>1, <2>2 DEF NewestInv
  <2> QED
    BY <2>1, <2>3, NewestIsFirst
<1>2. ASSUME \/ \E k \in Fields \ Toggles : Edit(k)
             \/ \E k \in Toggles : Toggle(k)
             \/ SaveConfig \/ EmptyActive \/ FillActive \/ Machine \/ Tick
             \/ RunSetup \/ Restore \/ Daemon \/ UNCHANGED vars
      PROVE  UNCHANGED <<picker, before, world>>
  BY <1>2 DEF Edit, Toggle, SaveConfig, EmptyActive, FillActive, Machine, Tick,
              RunSetup, Restore, Daemon, vars, tui
<1>3. ASSUME SavePre \/ Cancel \/ (\E i \in 1..Cardinality(Places) : Teardown(i)) \/ Crash
      PROVE  picker' = <<>>
  BY <1>3 DEF SavePre, Cancel, Teardown, Crash
<1>4. ASSUME UNCHANGED <<picker, before, world>> PROVE picker'[1].config = before'
  BY <1>4 DEF NewestIsPre
<1> QED
  BY <1>1, <1>2, <1>3, <1>4 DEF Next, Quiet

-------------------------------------------------------------------------------
\* The theorems.

LEMMA TypesAlways == Spec => []Types
BY InitTypes, TypesStep, PTL DEF Spec

\* Whatever was typed, captured, cut short by a full disk (fs::write in
\* snapshot_store.rs) or left by a TUI that died, every file reads as a
\* configuration, and what the library is given through the C structure is one.
THEOREM StoreTypes == Spec => []TypeOK
<1>1. Types => TypeOK
  BY DEF Types
<1> QED
  BY <1>1, TypesAlways, PTL

\* The picker (open_teardown_picker) starts on the state the last Apply found, for
\* however many Applies, while an Apply takes no new second, the clock does not go
\* back, and neither a full disk nor a death cuts a file short.
THEOREM NewestIsPreAlways == Spec => []NewestIsPre
<1>1. Init => NewestInv /\ NewestIsPre
  BY DEF Init, NewestInv, NewestIsPre
<1> QED
  BY <1>1, TypesAlways, NewestStep, PickerStep, PTL DEF Spec

\* However the write of a configuration is cut short (fs::write in snapshot_store.rs),
\* from_json reads the saved values of all fields before the cut and the defaults of
\* all after it; a field that was cut reads as either, or as a smaller number.
THEOREM TornIsPrefixAlways == Spec => []TornIsPrefix
<1>1. Types => TornIsPrefix
  <2> SUFFICES ASSUME Types PROVE TornIsPrefix
    OBVIOUS
  <2>1. form \in Configs
    BY DEF Types, TypeOK
  <2> QED
    BY <2>1, TornIsPrefixOf, Zenon DEF TornIsPrefix
<1> QED
  BY <1>1, TypesAlways, PTL

\* To open any field of any form and commit what it shows (get_config_value, then
\* commit_edit) changes no other field, and a loss by half of its last digit at most.
THEOREM ReenterKeepsAlways == Spec => []ReenterKeeps
<1>1. Types => ReenterKeeps
  <2> SUFFICES ASSUME Types PROVE ReenterKeeps
    OBVIOUS
  <2>1. form \in Configs
    BY DEF Types, TypeOK
  <2> QED
    BY <2>1, Reentered, Zenon DEF ReenterKeeps
<1> QED
  BY <1>1, TypesAlways, PTL

-------------------------------------------------------------------------------
\* The refinement.  The state of RestoreLog, as StoreSpec maps it.

Points == [p \in Places |-> IF files[p] = None THEN None ELSE FromJson(files[p])]
Given == IF handed = None THEN None ELSE FromC(handed)

\* A step of RestoreLog, in the state of the store.
LogStep ==
  /\ Orderly' = Orderly
  /\ Orderly =>
       \/ /\ form' \in Configs /\ (Stage # "idle" => form' = form)
          /\ CaptureCurrentState' \in Configs
          /\ Given' = None /\ UNCHANGED <<Stage, Points, Load(active), chosen>>
       \/ \E p \in Places, c \in {CaptureCurrentState, form} :
            /\ \/ /\ Stage = "idle" /\ chosen = None /\ Stage' = "state"
                  /\ c = CaptureCurrentState
               \/ /\ Stage = "state" /\ Stage' = "kept" /\ c = form
            /\ Points[p] = None /\ Points' = [Points EXCEPT ![p] = c]
            /\ Given' = None
            /\ UNCHANGED <<form, CaptureCurrentState, Load(active), chosen>>
       \/ /\ Given' = form /\ CaptureCurrentState' \in Configs
          /\ Stage = "kept" /\ Stage' \in {"idle", "owed"}
          /\ UNCHANGED <<form, Points, Load(active)>> /\ chosen' = chosen
       \/ /\ Stage = "owed"
          /\ \/ Load(active)' = Default /\ Stage' = Stage
             \/ Load(active)' = form /\ Stage' = "idle"
          /\ CaptureCurrentState' \in Configs
          /\ Given' = None /\ UNCHANGED <<form, Points, chosen>>
       \/ /\ Given' = Load(active) /\ CaptureCurrentState' \in Configs
          /\ UNCHANGED <<form, Points, Load(active), Stage, chosen>>
       \/ \E p \in Places :
            /\ Stage = "idle" /\ chosen = None
            /\ Points[p] # None /\ chosen' = Points[p]
            /\ Points' = [q \in Places |-> None]
            /\ Load(active)' = Default /\ CaptureCurrentState' \in Configs
            /\ Given' = None /\ UNCHANGED <<Stage, form>>
       \/ /\ chosen # None /\ chosen' = None
          /\ Given' = chosen /\ CaptureCurrentState' \in Configs
          /\ UNCHANGED <<form, Points, Load(active)>> /\ Stage' = Stage

LEMMA LogStepIsNext == LogStep => Log!Next
BY DEF LogStep, Points, Given, Log!Next, Log!Change, Log!Keep, Log!KeepState, Log!KeepWish,
       Log!SetUp, Log!Apply, Log!Blank, Log!Settle, Log!Daemon, Log!Wipe, Log!Restore

LEMMA CapturedAlways == Types => CaptureCurrentState \in Configs
BY CaptureIsPlain DEF Types, TypeOK, Plain

LEMMA InitIsLogInit == Init => Log!Init
<1> SUFFICES ASSUME Init PROVE Log!Init
  OBVIOUS
<1>1. CaptureCurrentState \in Configs
  BY InitTypes, CapturedAlways
<1>2. [p \in Places |-> IF files[p] = None THEN None ELSE FromJson(files[p])]
        = [p \in Places |-> None]
  BY DEF Init
<1>3. Load(active) = Default
  BY DEF Init, Load
<1>4. /\ Orderly \in BOOLEAN /\ Stage = "idle"
      /\ form = Default /\ chosen = None /\ handed = None
  BY DEF Init, Orderly, Stage
<1> QED
  BY <1>1, <1>2, <1>3, <1>4 DEF Log!Init

\* What the library is given is what RestoreLog hands over.
LEMMA GivenIs ==
  ASSUME NEW c \in Configs, handed' = ToC(c)
  PROVE  Given' = c
BY ThroughC DEF Given

LEMMA StepIsLogStep ==
  ASSUME Types, PlainInv, FreshInv, CaptureCurrentState' \in Configs, form' \in Configs, Next
  PROVE  LogStep
<1> USE DEF store, user, tui
<1>0. world' = world
  BY DEF Next, Quiet, Edit, Toggle, SavePre, SaveConfig, EmptyActive, FillActive, OpenPicker,
         Cancel, Teardown, Machine, Tick, Crash, RunSetup, Restore, Daemon
<1>1. Orderly' = Orderly
  BY <1>0 DEF Orderly
<1> SUFFICES ASSUME Orderly PROVE LogStep
  BY <1>1 DEF LogStep
<1>2. /\ form \in Configs /\ CaptureCurrentState \in Configs /\ Load(active) \in Configs
      /\ Plain(form) /\ Plain(CaptureCurrentState)
  BY CapturedAlways, CaptureIsPlain, LoadIsConfig
     DEF Types, TypeOK, PlainInv, Orderly
<1>3. handed' = None => Given' = None
  BY DEF Given
<1>4. ASSUME handed' = None, UNCHANGED <<at, chosen, active, files>>,
             Stage # "idle" => form' = form
      PROVE  LogStep
  <2>1. UNCHANGED <<Stage, Points, Load(active), chosen>>
    BY <1>4 DEF Stage, Points
  <2> QED
    BY <1>1, <1>3, <1>4, <2>1 DEF LogStep
<1>5. ASSUME \/ \E k \in Fields \ Toggles : Edit(k)
             \/ \E k \in Toggles : Toggle(k)
             \/ OpenPicker \/ Cancel \/ Machine \/ Tick
      PROVE  UNCHANGED <<at, chosen, active, files>> /\ (Stage # "idle" => form' = form)
  BY <1>5 DEF Edit, Toggle, OpenPicker, Cancel, Machine, Tick, Stage
<1>6. ASSUME NEW c \in {CaptureCurrentState, form}, NEW label \in {"preconfig", "config"},
             Save(c, label), files[<<clock, label>>] = None,
             handed' = None, UNCHANGED <<live, form, active, chosen>>,
             \/ /\ at = "idle" /\ at' = "captured" /\ c = CaptureCurrentState
             \/ /\ at = "captured" /\ at' = "saved" /\ c = form
      PROVE  LogStep
  <2>1. c \in Configs /\ FromJson(ToJson(c)) = c /\ ToJson(c) # None
    BY <1>2, RoundTrip, ToJsonIsText
  <2>2. <<clock, label>> \in Places
    BY <1>6, <2>1, SaveTypes
  <2>3. PICK w \in Write(c, files[<<clock, label>>]) :
          files' = [files EXCEPT ![<<clock, label>>] = w[1]]
    BY <1>6 DEF Save
  <2>4. w[1] = ToJson(c)
    BY WriteWhole DEF Orderly
  <2>5. files' = [p \in Places |-> IF p = <<clock, label>> THEN ToJson(c) ELSE files[p]]
    BY <2>3, <2>4 DEF Types, FlowInv
  <2>6. /\ Points[<<clock, label>>] = None
        /\ Points' = [Points EXCEPT ![<<clock, label>>] = c]
    BY <1>6, <2>1, <2>2, <2>5 DEF Points
  <2>7. UNCHANGED <<form, CaptureCurrentState, Load(active), chosen>>
    BY <1>6 DEF CaptureCurrentState
  <2>8. \/ /\ Stage = "idle" /\ chosen = None /\ Stage' = "state"
           /\ c = CaptureCurrentState
        \/ /\ Stage = "state" /\ Stage' = "kept" /\ c = form
    BY <1>6 DEF Stage, Types, FlowInv
  <2> QED
    BY <1>1, <1>3, <1>6, <2>2, <2>6, <2>7, <2>8, Zenon DEF LogStep
<1>7. CASE SavePre /\ handed' = None
  <2>1. files[<<clock, "preconfig">>] = None
    BY <1>7 DEF SavePre, Orderly, Labels
  <2> QED
    BY <1>6, <1>7, <2>1 DEF SavePre
<1>8. CASE SaveConfig /\ handed' = None
  <2>1. files[<<clock, "config">>] = None
    BY <1>8 DEF SaveConfig, Orderly, FreshInv
  <2> QED
    BY <1>6, <1>8, <2>1 DEF SaveConfig
<1>9. CASE EmptyActive /\ handed' = None
  <2>1. Load(active)' = Default
    BY <1>9, EmptyText DEF EmptyActive, Load
  <2>2. Stage = "owed" /\ Stage' = Stage
    BY <1>9 DEF EmptyActive, Stage
  <2>3. UNCHANGED <<form, Points, chosen>>
    BY <1>9 DEF EmptyActive, Points
  <2> QED
    BY <1>1, <1>3, <1>9, <2>1, <2>2, <2>3, Zenon DEF LogStep
<1>10. CASE FillActive /\ handed' = None
  <2>1. active' = ToJson(form)
    BY <1>10, WriteWhole DEF FillActive, Orderly
  <2>2. Load(active)' = form
    BY <1>2, <2>1, RoundTrip, ToJsonIsText DEF Load
  <2>3. Stage = "owed" /\ Stage' = "idle"
    BY <1>10 DEF FillActive, Stage
  <2>4. UNCHANGED <<form, Points, chosen>>
    BY <1>10 DEF FillActive, Points
  <2> QED
    BY <1>1, <1>3, <1>10, <2>2, <2>3, <2>4, Zenon DEF LogStep
<1>11. ASSUME NEW i \in 1..Cardinality(Places), Teardown(i), handed' = None
       PROVE  LogStep
  <2> DEFINE p == picker[i].place
  <2>1. p \in Places /\ files[p] # None /\ picker[i].config = FromJson(files[p])
        /\ at = "idle" /\ chosen = None
    BY <1>11 DEF Teardown, Types, FlowInv
  <2>2. Points[p] = picker[i].config /\ Points[p] # None
    BY <1>11, <2>1, MarksAssumption DEF Points, Teardown, Types, TypeOK
  <2>3. chosen' = Points[p] /\ UNCHANGED form
    BY <1>11, <2>2 DEF Teardown
  <2>4. Points' = [q \in Places |-> None] /\ Load(active)' = Default
    BY <1>11 DEF Teardown, Points, Load
  <2>5. Stage = "idle" /\ Stage' = Stage
    BY <1>11, <2>1 DEF Teardown, Stage
  <2> HIDE DEF p
  <2> QED
    BY <1>1, <1>3, <1>11, <2>1, <2>2, <2>3, <2>4, <2>5, Zenon DEF LogStep
<1>12. ~Crash
  BY DEF Crash, Orderly
<1>13. CASE RunSetup
  <2>1. Given' = form
    BY <1>2, <1>13, GivenIs DEF RunSetup
  <2>2. UNCHANGED <<form, Points, Load(active)>> /\ chosen' = chosen
    BY <1>13 DEF RunSetup, Points
  <2>3. Stage = "kept" /\ Stage' \in {"idle", "owed"}
    BY <1>13 DEF RunSetup, Stage
  <2> QED
    BY <1>1, <2>1, <2>2, <2>3, Zenon DEF LogStep
<1>14. CASE Daemon
  <2>1. Given' = Load(active)
    BY <1>2, <1>14, GivenIs DEF Daemon
  <2>2. UNCHANGED <<form, Points, Load(active), Stage, chosen>>
    BY <1>14 DEF Daemon, Points, Stage
  <2> QED
    BY <1>1, <2>1, <2>2, Zenon DEF LogStep
<1>15. CASE Restore
  <2>1. chosen # None /\ chosen \in Configs
    BY <1>15 DEF Restore, Types, TypeOK, FlowInv
  <2>2. Given' = chosen
    BY <1>15, <2>1, GivenIs DEF Restore
  <2>3. chosen' = None /\ UNCHANGED <<form, Points, Load(active)>>
    BY <1>15 DEF Restore, Points
  <2>4. Stage' = Stage
    BY <1>15 DEF Restore, Stage
  <2> QED
    BY <1>1, <2>1, <2>2, <2>3, <2>4, Zenon DEF LogStep
<1> QED
  BY <1>4, <1>5, <1>7, <1>8, <1>9, <1>10, <1>11, <1>12, <1>13, <1>14, <1>15
     DEF Next, Quiet

LEMMA StutterIsLogStutter == UNCHANGED vars => UNCHANGED Log!vars
BY DEF vars, store, user, tui, Log!vars, CaptureCurrentState, Orderly, Stage

\* The store implements RestoreLog: as long as no two writes have the same place and
\* every text is whole and says all, what an Apply puts away overwrites nothing and
\* comes back as it was, through JSON, the picker and the C structure; what was applied
\* is made active before the next Apply, unless a reboot was asked for; and a daemon
\* (run_daemon) sets up what was made active last, or the default after a teardown.
THEOREM StoreKeepsPromise == Spec => StoreSpec
<1>1. Init => PlainInv /\ FreshInv
  BY DefaultIsPlain DEF Init, PlainInv, FreshInv
<1>2. Types' => CaptureCurrentState' \in Configs
  <2>1. (Types => CaptureCurrentState \in Configs)'
    BY CapturedAlways, PTL
  <2> QED
    BY <2>1
<1>3. Types' => form' \in Configs
  BY DEF Types, TypeOK
<1>4. Types /\ Types' /\ PlainInv /\ FreshInv /\ [Next]_vars => [Log!Next]_(Log!vars)
  BY <1>2, <1>3, StepIsLogStep, LogStepIsNext, StutterIsLogStutter
<1>5. Spec => [](PlainInv /\ FreshInv)
  BY <1>1, TypesAlways, PlainStep, FreshStep, PTL DEF Spec
<1> QED
  BY <1>4, <1>5, InitIsLogInit, TypesAlways, PTL DEF Spec, StoreSpec, Log!Spec

===============================================================================
