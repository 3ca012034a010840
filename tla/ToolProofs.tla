----------------------------- MODULE ToolProofs -----------------------------
(***************************************************************************)
(* What a tool is called, proved for any files a backend may hold, any     *)
(* choice of services and any option that is asked for.                    *)
(***************************************************************************)
EXTENDS ToolNames, FiniteSetTheorems, SequenceTheorems, TLAPS

-----------------------------------------------------------------------------
\* A finite set has two elements when its count is above one.
LEMMA CountAboveOne ==
    ASSUME NEW S, IsFiniteSet(S)
    PROVE  Cardinality(S) > 1 <=> \E x, y \in S : x # y
<1>1. ASSUME Cardinality(S) > 1
      PROVE  \E x, y \in S : x # y
  <2>1. S # {}
    BY <1>1, FS_EmptySet
  <2>2. PICK x \in S : TRUE
    BY <2>1
  <2>3. S # {x}
    BY <1>1, FS_Singleton
  <2> QED
    BY <2>2, <2>3
<1>2. ASSUME NEW x \in S, NEW y \in S, x # y
      PROVE  Cardinality(S) > 1
  <2>1. IsFiniteSet({x}) /\ Cardinality({x}) = 1
    BY FS_Singleton
  <2>2. Cardinality({x} \cup {y}) = 2
    BY <1>2, <2>1, FS_AddElement
  <2>3. Cardinality({x} \cup {y}) <= Cardinality(S)
    BY FS_Subset
  <2>4. Cardinality(S) \in Nat
    BY FS_CardinalityType
  <2> QED
    BY <2>2, <2>3, <2>4
<1> QED
  BY <1>1, <1>2

LEMMA FiniteImages ==
    ASSUME NEW S, IsFiniteSet(S), NEW g, \A x \in S : IsFiniteSet(g[x])
    PROVE  IsFiniteSet(UNION {g[x] : x \in S})
<1> DEFINE T == {g[x] : x \in S}
<1>1. [x \in S |-> g[x]] \in Surjection(S, T)
  BY DEF Surjection
<1>2. IsFiniteSet(T)
  BY <1>1, FS_Surjection
<1> QED
  BY <1>2, FS_UNION

-----------------------------------------------------------------------------
\* What is known of a file that can be used, and of its services.
LEMMA ServiceFacts ==
    ASSUME NEW F \in SUBSET Universe, NEW s \in ServicesOf(Registered(F))
    PROVE  /\ s \in Service
           /\ IsFiniteSet(s.methods)
           /\ \A m, n \in s.methods : m.name = n.name => m = n
           /\ \A m \in s.methods : \A i \in DOMAIN m.options : m.options[i] # Malformed
  BY UniverseAssumption DEF ServicesOf, Registered

LEMMA ServicesFinite ==
    ASSUME NEW F \in SUBSET Universe, IsFiniteSet(F)
    PROVE  IsFiniteSet(ServicesOf(Registered(F)))
<1>1. IsFiniteSet(Registered(F))
  BY FS_Subset DEF Registered
<1> DEFINE g == [f \in Registered(F) |-> f.services]
<1>2. \A f \in Registered(F) : IsFiniteSet(g[f])
  BY UniverseAssumption DEF Registered
<1>3. ServicesOf(Registered(F)) = UNION {g[f] : f \in Registered(F)}
  BY DEF ServicesOf
<1> HIDE DEF g
<1> QED
  BY <1>1, <1>2, <1>3, FiniteImages

\* The methods that are scanned are the exposed ones of the chosen services.
LEMMA ScannedIs ==
    ASSUME NEW F
    PROVE  /\ \A s \in ServicesOf(Registered(F)) : \A m :
                 <<s, m>> \in Scanned(F) <=> IsChosen(s) /\ m \in Exposed(s)
           /\ \A p \in Scanned(F) :
                 /\ p = <<p[1], p[2]>>
                 /\ p[1] \in ServicesOf(Registered(F))
                 /\ IsChosen(p[1])
                 /\ p[2] \in Exposed(p[1])
                 /\ p[2] \in p[1].methods
<1>1. ASSUME NEW s \in ServicesOf(Registered(F)), NEW m
      PROVE  <<s, m>> \in Scanned(F) <=> IsChosen(s) /\ m \in Exposed(s)
  BY DEF Scanned
<1>2. ASSUME NEW p \in Scanned(F)
      PROVE  /\ p = <<p[1], p[2]>>
             /\ p[1] \in ServicesOf(Registered(F))
             /\ IsChosen(p[1])
             /\ p[2] \in Exposed(p[1])
  <2>1. PICK s \in {x \in ServicesOf(Registered(F)) : IsChosen(x)} :
             p \in {<<s, m>> : m \in Exposed(s)}
    BY DEF Scanned
  <2>2. PICK m \in Exposed(s) : p = <<s, m>>
    BY <2>1
  <2> QED
    BY <2>1, <2>2
<1> QED
  BY <1>1, <1>2 DEF Exposed

LEMMA ScannedFinite ==
    ASSUME NEW F \in SUBSET Universe, IsFiniteSet(F)
    PROVE  IsFiniteSet(Scanned(F))
<1> DEFINE all == ServicesOf(Registered(F))
           g == [s \in all |-> s.methods]
           methods == UNION {g[s] : s \in all}
<1>1. IsFiniteSet(all)
  BY ServicesFinite
<1>2. \A s \in all : IsFiniteSet(g[s])
  BY ServiceFacts
<1>3. IsFiniteSet(methods)
  <2> HIDE DEF g, all
  <2> QED
    BY <1>1, <1>2, FiniteImages
<1>4. IsFiniteSet(all \X methods)
  BY <1>1, <1>3, FS_Product
<1>5. Scanned(F) \subseteq all \X methods
  BY ScannedIs
<1> QED
  BY <1>4, <1>5, FS_Subset

\* What the two counts are asked for.
LEMMA MethodCollides ==
    ASSUME NEW F, IsFiniteSet(Scanned(F)), NEW name
    PROVE  MethodNameCount(F, name) > 1 <=>
              \E p, q \in Scanned(F) : p # q /\ p[2].name = name /\ q[2].name = name
<1> DEFINE S == {p \in Scanned(F) : p[2].name = name}
<1>1. IsFiniteSet(S)
  BY FS_Subset
<1>2. MethodNameCount(F, name) = Cardinality(S)
  BY DEF MethodNameCount
<1>3. Cardinality(S) > 1 <=> \E p, q \in S : p # q
  <2> HIDE DEF S
  <2> QED
    BY <1>1, CountAboveOne
<1> QED
  BY <1>2, <1>3

LEMMA SimpleCollides ==
    ASSUME NEW F, IsFiniteSet(Scanned(F)), NEW simple
    PROVE  SimpleNameCount(F, simple) > 1 <=>
              \E p, q \in Scanned(F) :
                  p[1] # q[1] /\ p[1].simple = simple /\ q[1].simple = simple
<1> DEFINE S == {s \in {p[1] : p \in Scanned(F)} : s.simple = simple}
<1>1. IsFiniteSet({p[1] : p \in Scanned(F)})
  <2> DEFINE T == {p[1] : p \in Scanned(F)}
  <2>1. [p \in Scanned(F) |-> p[1]] \in Surjection(Scanned(F), T)
    BY DEF Surjection
  <2> QED
    BY <2>1, FS_Surjection
<1>2. IsFiniteSet(S)
  BY <1>1, FS_Subset
<1>3. SimpleNameCount(F, simple) = Cardinality(S)
  BY DEF SimpleNameCount
<1>4. Cardinality(S) > 1 <=> \E s, t \in S : s # t
  <2> HIDE DEF S
  <2> QED
    BY <1>2, CountAboveOne
<1> QED
  BY <1>3, <1>4

\* A tool for each method that is scanned, and no others.
ToolOf(F, p) == [name |-> ToolName(F, p[1], p[2]), method |-> <<FullName(p[1]), p[2].name>>]

LEMMA ToolsAre ==
    ASSUME NEW F, Consistent(F)
    PROVE  Tools(F).tools = {ToolOf(F, p) : p \in Scanned(F)}
<1>1. Registered(F) = F
  BY DEF Registered, Consistent
<1>2. Tools(F).tools = UNION {{ToolOf(F, <<s, m>>) : m \in Exposed(s)} :
                                 s \in {x \in ServicesOf(F) : IsChosen(x)}}
  BY DEF Tools, ToolOf
<1>3. ASSUME NEW s \in ServicesOf(F), IsChosen(s), NEW m \in Exposed(s)
      PROVE  <<s, m>> \in Scanned(F)
  BY <1>1, <1>3, ScannedIs
<1>4. ASSUME NEW p \in Scanned(F)
      PROVE  /\ p[1] \in ServicesOf(F) /\ IsChosen(p[1])
             /\ p[2] \in Exposed(p[1]) /\ p = <<p[1], p[2]>>
  BY <1>1, ScannedIs
<1>5. ASSUME NEW x \in Tools(F).tools
      PROVE  x \in {ToolOf(F, p) : p \in Scanned(F)}
  <2>1. PICK s \in {y \in ServicesOf(F) : IsChosen(y)} :
             x \in {ToolOf(F, <<s, m>>) : m \in Exposed(s)}
    BY <1>2
  <2>2. PICK m \in Exposed(s) : x = ToolOf(F, <<s, m>>)
    BY <2>1
  <2> QED
    BY <1>3, <2>1, <2>2
<1>6. ASSUME NEW p \in Scanned(F)
      PROVE  ToolOf(F, p) \in Tools(F).tools
  <2>1. ToolOf(F, p) \in {ToolOf(F, <<p[1], m>>) : m \in Exposed(p[1])}
    BY <1>4
  <2> QED
    BY <1>2, <1>4, <2>1
<1> QED
  BY <1>5, <1>6

LEMMA NoToolsIfInconsistent ==
    ASSUME NEW F, ~Consistent(F)
    PROVE  Tools(F).tools = {}
  BY DEF Tools

\* Of a consistent set the name of its service and its own tell which method it is.
LEMMA MethodTells ==
    ASSUME NEW F \in SUBSET Universe, Consistent(F),
           NEW p \in Scanned(F), NEW q \in Scanned(F),
           FullName(p[1]) = FullName(q[1])
    PROVE  /\ p[1] = q[1]
           /\ p[2].name = q[2].name => p = q
<1>1. p[1] \in ServicesOf(Registered(F)) /\ q[1] \in ServicesOf(Registered(F))
  BY ScannedIs
<1>2. p[1] = q[1]
  BY <1>1 DEF Consistent, ServicesOf, Registered
<1>3. p[2] \in p[1].methods /\ q[2] \in q[1].methods
  BY ScannedIs
<1>4. p[2].name = q[2].name => p[2] = q[2]
  BY <1>1, <1>2, <1>3, ServiceFacts
<1> QED
  BY <1>2, <1>4, ScannedIs

-----------------------------------------------------------------------------
\* Identifiers as sequences of words, dots and underscores.
LEMMA Written ==
    /\ Dot \in Token /\ Dash \in Token /\ Dot # Dash
    /\ \A a, b : Joined(a, b) = (a \o <<Dash, Dash>>) \o b
    /\ \A a : Flatten(a) = [i \in DOMAIN a |-> IF a[i] = Dot THEN Dash ELSE a[i]]
    /\ \A a : Dotless(a) <=> \A i \in DOMAIN a : a[i] # Dot
    /\ \A s : FullName(s) = IF s.pkg = <<>> THEN s.simple
                            ELSE (s.pkg \o <<Dot>>) \o s.simple
<1>1. Dot \in Token /\ Dash \in Token /\ Dot # Dash
  BY DEF Token, Dot, Dash
<1>2. \A a, b : Joined(a, b) = (a \o <<Dash, Dash>>) \o b
  BY DEF Joined, Dash
<1>3. \A a : Flatten(a) = [i \in DOMAIN a |-> IF a[i] = Dot THEN Dash ELSE a[i]]
  BY DEF Flatten, Dot, Dash
<1>4. \A a : Dotless(a) <=> \A i \in DOMAIN a : a[i] # Dot
  BY DEF Dotless, Dot
<1>5. \A s : FullName(s) = IF s.pkg = <<>> THEN s.simple
                          ELSE (s.pkg \o <<Dot>>) \o s.simple
  BY DEF FullName, Dot
<1> QED
  BY <1>1, <1>2, <1>3, <1>4, <1>5

LEMMA JoinedIs ==
    ASSUME NEW a \in Seq(Token), NEW b \in Seq(Token)
    PROVE  /\ Joined(a, b) \in Seq(Token)
           /\ Len(Joined(a, b)) = Len(a) + 2 + Len(b)
           /\ \A i \in 1..Len(a) : Joined(a, b)[i] = a[i]
           /\ Joined(a, b)[Len(a) + 1] = Dash
           /\ Joined(a, b)[Len(a) + 2] = Dash
           /\ \A i \in 1..Len(b) : Joined(a, b)[Len(a) + 2 + i] = b[i]
<1>1. Joined(a, b) = (a \o <<Dash, Dash>>) \o b /\ Dash \in Token
  BY Written
<1> QED
  BY <1>1

\* The full name of a service in a package.
LEMMA QualifiedIs ==
    ASSUME NEW a \in Seq(Token), NEW b \in Seq(Token)
    PROVE  LET full == (a \o <<Dot>>) \o b
           IN  /\ full \in Seq(Token)
               /\ Len(full) = Len(a) + 1 + Len(b)
               /\ full[Len(a) + 1] = Dot
               /\ \A i \in 1..Len(b) : full[Len(a) + 1 + i] = b[i]
  BY Written

LEMMA FlattenIs ==
    ASSUME NEW a \in Seq(Token)
    PROVE  /\ Flatten(a) \in Seq(Token)
           /\ Len(Flatten(a)) = Len(a)
           /\ \A i \in 1..Len(a) : Flatten(a)[i] = IF a[i] = Dot THEN Dash ELSE a[i]
  BY Written

LEMMA FlattenDotless ==
    ASSUME NEW a \in Seq(Token), Dotless(a)
    PROVE  Flatten(a) = a
  BY Written, FlattenIs, SeqEqual

LEMMA FlatIs ==
    ASSUME NEW a \in Seq(Token), NEW b \in Seq(Token)
    PROVE  /\ Flatten(Joined(a, b)) \in Seq(Token)
           /\ Len(a) \in Nat /\ Len(b) \in Nat
           /\ Len(Flatten(Joined(a, b))) = Len(a) + 2 + Len(b)
           /\ \A i \in 1..Len(a) :
                 Flatten(Joined(a, b))[i] = IF a[i] = Dot THEN Dash ELSE a[i]
           /\ Flatten(Joined(a, b))[Len(a) + 1] = Dash
           /\ Flatten(Joined(a, b))[Len(a) + 2] = Dash
           /\ \A i \in 1..Len(b) :
                 Flatten(Joined(a, b))[Len(a) + 2 + i] = IF b[i] = Dot THEN Dash ELSE b[i]
<1> DEFINE w == Joined(a, b)
           v == Flatten(w)
<1>1. /\ w \in Seq(Token)
      /\ Len(w) = Len(a) + 2 + Len(b)
      /\ \A i \in 1..Len(a) : w[i] = a[i]
      /\ w[Len(a) + 1] = Dash
      /\ w[Len(a) + 2] = Dash
      /\ \A i \in 1..Len(b) : w[Len(a) + 2 + i] = b[i]
  BY JoinedIs
<1> HIDE DEF w
<1>2. /\ v \in Seq(Token)
      /\ Len(v) = Len(w)
      /\ \A i \in 1..Len(w) : v[i] = IF w[i] = Dot THEN Dash ELSE w[i]
  BY <1>1, FlattenIs
<1>3. Len(a) \in Nat /\ Len(b) \in Nat
  OBVIOUS
<1> HIDE DEF v
<1>4. /\ \A i \in 1..Len(a) : v[i] = IF a[i] = Dot THEN Dash ELSE a[i]
      /\ v[Len(a) + 1] = Dash
      /\ v[Len(a) + 2] = Dash
      /\ \A i \in 1..Len(b) : v[Len(a) + 2 + i] = IF b[i] = Dot THEN Dash ELSE b[i]
  BY <1>1, <1>2, <1>3, Written
<1> QED
  BY <1>1, <1>2, <1>3, <1>4 DEF v, w

\* Two tool names that end in a method's name are the same when both parts are.
LEMMA Split ==
    ASSUME NEW a \in Seq(Token), NEW b \in Seq(Token),
           NEW c \in Seq(Token), NEW d \in Seq(Token),
           Separable(a), Separable(c), Dotless(b), Dotless(d),
           Flatten(Joined(a, b)) = Flatten(Joined(c, d))
    PROVE  Flatten(a) = Flatten(c) /\ b = d
<1> DEFINE v == Flatten(Joined(a, b))
           w == Flatten(Joined(c, d))
<1>1. Len(a) \in Nat /\ Len(b) \in Nat /\ Len(c) \in Nat /\ Len(d) \in Nat
  OBVIOUS
<1>2. /\ Len(v) = Len(a) + 2 + Len(b)
      /\ \A i \in 1..Len(a) : v[i] = IF a[i] = Dot THEN Dash ELSE a[i]
      /\ v[Len(a) + 1] = Dash /\ v[Len(a) + 2] = Dash
      /\ \A i \in 1..Len(b) : v[Len(a) + 2 + i] = IF b[i] = Dot THEN Dash ELSE b[i]
  BY FlatIs
<1>3. /\ Len(w) = Len(c) + 2 + Len(d)
      /\ \A i \in 1..Len(c) : w[i] = IF c[i] = Dot THEN Dash ELSE c[i]
      /\ w[Len(c) + 1] = Dash /\ w[Len(c) + 2] = Dash
      /\ \A i \in 1..Len(d) : w[Len(c) + 2 + i] = IF d[i] = Dot THEN Dash ELSE d[i]
  BY FlatIs
<1>4. v = w
  OBVIOUS
<1> HIDE DEF v, w
<1>5. ASSUME Len(a) < Len(c)
      PROVE  FALSE
  <2>1. Len(a) + 1 \in 1..Len(c) /\ c[Len(a) + 1] \in Separator
    BY <1>1, <1>2, <1>3, <1>4, <1>5 DEF Separator
  <2>2. CASE Len(a) + 1 = Len(c)
    BY <2>1, <2>2 DEF Separable
  <2>3. CASE Len(a) + 1 < Len(c)
    <3>1. Len(a) + 2 \in 1..Len(c) /\ c[Len(a) + 2] \in Separator
      BY <1>1, <1>2, <1>3, <1>4, <2>3 DEF Separator
    <3>2. Len(a) + 1 \in 1..Len(c) - 1 /\ Len(a) + 2 = (Len(a) + 1) + 1
      BY <1>1, <2>3
    <3> QED
      BY <2>1, <3>1, <3>2 DEF Separable
  <2> QED
    BY <1>1, <1>5, <2>2, <2>3
<1>6. ASSUME Len(c) < Len(a)
      PROVE  FALSE
  <2>1. Len(c) + 1 \in 1..Len(a) /\ a[Len(c) + 1] \in Separator
    BY <1>1, <1>2, <1>3, <1>4, <1>6 DEF Separator
  <2>2. CASE Len(c) + 1 = Len(a)
    BY <2>1, <2>2 DEF Separable
  <2>3. CASE Len(c) + 1 < Len(a)
    <3>1. Len(c) + 2 \in 1..Len(a) /\ a[Len(c) + 2] \in Separator
      BY <1>1, <1>2, <1>3, <1>4, <2>3 DEF Separator
    <3>2. Len(c) + 1 \in 1..Len(a) - 1 /\ Len(c) + 2 = (Len(c) + 1) + 1
      BY <1>1, <2>3
    <3> QED
      BY <2>1, <3>1, <3>2 DEF Separable
  <2> QED
    BY <1>1, <1>6, <2>2, <2>3
<1>7. Len(a) = Len(c) /\ Len(b) = Len(d)
  BY <1>1, <1>2, <1>3, <1>4, <1>5, <1>6
<1>8. Flatten(a) = Flatten(c)
  <2>1. /\ Flatten(a) \in Seq(Token) /\ Len(Flatten(a)) = Len(a)
        /\ Flatten(c) \in Seq(Token) /\ Len(Flatten(c)) = Len(c)
    BY FlattenIs
  <2>2. \A i \in 1..Len(a) : Flatten(a)[i] = v[i]
    BY <1>2, FlattenIs
  <2>3. \A i \in 1..Len(a) : Flatten(c)[i] = v[i]
    BY <1>3, <1>4, <1>7, FlattenIs
  <2> QED
    BY <1>7, <2>1, <2>2, <2>3, SeqEqual
<1>9. b = d
  <2>1. \A i \in 1..Len(b) : b[i] # Dot /\ d[i] # Dot
    BY <1>7, Written
  <2>2. \A i \in 1..Len(b) : b[i] = d[i]
    BY <1>2, <1>3, <1>4, <1>7, <2>1
  <2> QED
    BY <1>7, <2>2, SeqEqual
<1> QED
  BY <1>8, <1>9

\* None of them is the name of a method on its own.
LEMMA JoinedIsNoName ==
    ASSUME NEW a \in Seq(Token), NEW b \in Seq(Token), Separable(Flatten(Joined(a, b)))
    PROVE  FALSE
<1> DEFINE v == Flatten(Joined(a, b))
<1>1. /\ Len(v) = Len(a) + 2 + Len(b) /\ Len(a) \in Nat /\ Len(b) \in Nat
      /\ v[Len(a) + 1] = Dash /\ v[Len(a) + 2] = Dash
  BY FlatIs
<1>2. Separable(v)
  OBVIOUS
<1> HIDE DEF v
<1>3. CASE Len(b) = 0
  BY <1>1, <1>2, <1>3 DEF Separable, Separator
<1>4. CASE Len(b) > 0
  <2>1. Len(a) + 1 \in 1..Len(v) - 1 /\ (Len(a) + 1) + 1 = Len(a) + 2
    BY <1>1, <1>4
  <2> QED
    BY <1>1, <1>2, <2>1 DEF Separable, Separator
<1> QED
  BY <1>1, <1>3, <1>4

\* The simple name of a service is what follows the last dot of its full name.
LEMMA SimpleOfFull ==
    ASSUME NEW pkg \in Seq(Token), NEW simple \in Identifier, NEW full,
           full = IF pkg = <<>> THEN simple ELSE pkg \o <<Dot>> \o simple
    PROVE  /\ full \in Seq(Token) /\ full # <<>>
           /\ SimpleOf(full) = simple
<1> DEFINE dots == {i \in DOMAIN full : full[i] = Dot}
           last == CHOOSE i \in dots \cup {0} : \A j \in dots : j <= i
<1>1. simple \in Seq(Token) /\ simple # <<>> /\ \A i \in 1..Len(simple) : simple[i] # Dot
  BY Written DEF Identifier
<1>2. SimpleOf(full) = SubSeq(full, last + 1, Len(full))
  BY DEF SimpleOf, Dot
<1>3. CASE pkg = <<>>
  <2>1. full = simple
    BY <1>3
  <2>2. dots = {}
    BY <1>1, <2>1
  <2>3. last = 0
    <3> HIDE DEF dots
    <3> QED
      BY <2>2
  <2>4. SubSeq(full, 1, Len(full)) = full
    BY <1>1, <2>1
  <2>5. SimpleOf(full) = SubSeq(full, 1, Len(full))
    <3> HIDE DEF last
    <3> QED
      BY <1>2, <2>3
  <2> QED
    BY <1>1, <2>1, <2>4, <2>5
<1>4. CASE pkg # <<>>
  <2>1. full = (pkg \o <<Dot>>) \o simple
    BY <1>4
  <2> DEFINE k == Len(pkg) + 1
  <2>2. /\ full \in Seq(Token)
        /\ Len(full) = k + Len(simple)
        /\ full[k] = Dot
        /\ \A i \in 1..Len(simple) : full[k + i] = simple[i]
    <3> DEFINE term == (pkg \o <<Dot>>) \o simple
    <3>1. /\ term \in Seq(Token)
          /\ Len(term) = k + Len(simple)
          /\ term[k] = Dot
          /\ \A i \in 1..Len(simple) : term[k + i] = simple[i]
      BY <1>1, QualifiedIs
    <3>2. full = term
      BY <2>1
    <3> HIDE DEF term, k
    <3> QED
      BY <3>1, <3>2
  <2>3. k \in Nat /\ k > 0 /\ Len(simple) \in Nat /\ Len(simple) > 0
    BY <1>1
  <2> HIDE DEF k
  <2>4. \A i \in 1..k + Len(simple) : i > k => i - k \in 1..Len(simple) /\ k + (i - k) = i
    BY <2>3
  <2>5. \A i \in 1..k + Len(simple) : i > k => full[i] = simple[i - k]
    BY <2>2, <2>4
  <2>6. k \in dots
    BY <2>2, <2>3
  <2>7. \A j \in dots : j <= k
    <3> SUFFICES ASSUME NEW j \in dots, j > k
                 PROVE  FALSE
      BY <2>3, <2>2, <2>5
    <3>1. j \in 1..k + Len(simple) /\ full[j] = Dot
      BY <2>2, <2>5
    <3>2. j - k \in 1..Len(simple)
      BY <2>3, <3>1
    <3> QED
      BY <1>1, <2>5, <3>1, <3>2
  <2>8. dots \subseteq Nat
    BY <2>2
  <2>9. last = k
    <3> HIDE DEF dots
    <3>1. \A i \in dots \cup {0} : (\A j \in dots : j <= i) => i = k
      BY <2>3, <2>6, <2>7, <2>8
    <3> QED
      BY <2>6, <2>7, <3>1
  <2>10. SubSeq(full, k + 1, Len(full)) = simple
    <3> DEFINE sub == SubSeq(full, k + 1, Len(full))
    <3>1. sub \in Seq(Token) /\ Len(sub) = Len(simple)
      BY <2>2, <2>3
    <3>2. \A i \in 1..Len(simple) : sub[i] = simple[i]
      BY <2>2, <2>3
    <3>3. sub \in Seq(Token) /\ simple \in Seq(Token)
      BY <1>1, <3>1
    <3> HIDE DEF sub
    <3>4. sub = simple
      BY <3>1, <3>2, <3>3, SeqEqual
    <3> QED
      BY <3>4 DEF sub
  <2>11. full # <<>>
    BY <2>2, <2>3
  <2>12. SimpleOf(full) = SubSeq(full, k + 1, Len(full))
    <3> HIDE DEF last
    <3> QED
      BY <1>2, <2>9
  <2> QED
    BY <2>2, <2>10, <2>11, <2>12
<1> QED
  BY <1>3, <1>4

\* The names of a method that is scanned.
LEMMA NameFacts ==
    ASSUME NEW F \in SUBSET Universe, NEW p \in Scanned(F)
    PROVE  /\ p[1].simple \in Seq(Token) /\ p[1].simple # <<>> /\ Dotless(p[1].simple)
           /\ p[2].name \in Seq(Token) /\ p[2].name # <<>> /\ Dotless(p[2].name)
           /\ FullName(p[1]) \in Seq(Token) /\ FullName(p[1]) # <<>>
           /\ SimpleOf(FullName(p[1])) = p[1].simple
           /\ SimpleOf(p[1].simple) = p[1].simple
           /\ FullName(p[1]) = p[1].simple \/ Len(FullName(p[1])) > Len(p[1].simple)
<1>1. p[1] \in ServicesOf(Registered(F)) /\ p[2] \in p[1].methods
  BY ScannedIs
<1>2. p[1] \in Service /\ p[2] \in Method
  BY <1>1, ServiceFacts DEF Service
<1>3. p[1].simple \in Identifier /\ p[1].pkg \in Seq(Token) /\ p[2].name \in Identifier
  BY <1>2 DEF Method, Service
<1> DEFINE pkg == p[1].pkg
           short == p[1].simple
           full == FullName(p[1])
<1>4. full \in Seq(Token) /\ full # <<>> /\ SimpleOf(full) = short
  <2>1. full = IF pkg = <<>> THEN short ELSE pkg \o <<Dot>> \o short
    BY Written
  <2>2. short \in Identifier /\ pkg \in Seq(Token)
    BY <1>3
  <2> HIDE DEF pkg, short, full
  <2> QED
    BY <2>1, <2>2, SimpleOfFull
<1>5. SimpleOf(short) = short
  <2> DEFINE none == <<>>
  <2>1. none \in Seq(Token) /\ short \in Identifier
    BY <1>3
  <2>2. short = IF none = <<>> THEN short ELSE none \o <<Dot>> \o short
    OBVIOUS
  <2> HIDE DEF none, short
  <2> QED
    BY <2>1, <2>2, SimpleOfFull
<1>6. FullName(p[1]) = p[1].simple \/ Len(FullName(p[1])) > Len(p[1].simple)
  <2>1. CASE p[1].pkg = <<>>
    BY <2>1, Written
  <2>2. CASE p[1].pkg # <<>>
    <3>1. FullName(p[1]) = (p[1].pkg \o <<Dot>>) \o p[1].simple
      BY <2>2, Written
    <3>2. Len(FullName(p[1])) = Len(p[1].pkg) + 1 + Len(p[1].simple)
      BY <1>3, <3>1, QualifiedIs DEF Identifier
    <3>3. Len(p[1].pkg) \in Nat /\ Len(p[1].simple) \in Nat
      BY <1>3 DEF Identifier
    <3> DEFINE k == Len(p[1].pkg)
               l == Len(p[1].simple)
    <3>4. k + 1 + l > l
      <4>1. k \in Nat /\ l \in Nat
        BY <3>3
      <4> HIDE DEF k, l
      <4> QED
        BY <4>1
    <3> QED
      BY <3>2, <3>4
  <2> QED
    BY <2>1, <2>2
<1> QED
  BY <1>3, <1>4, <1>5, <1>6 DEF Identifier

LEMMA FlatForm ==
    ASSUME NEW F \in SUBSET Universe, NEW p \in Scanned(F)
    PROVE  Flatten(Joined(p[1].simple, p[2].name)) = Joined(p[1].simple, p[2].name)
<1> DEFINE short == p[1].simple
           name == p[2].name
<1>1. /\ short \in Seq(Token) /\ Dotless(short)
      /\ name \in Seq(Token) /\ Dotless(name)
  BY NameFacts
<1> HIDE DEF short, name
<1>2. /\ Joined(short, name) \in Seq(Token)
      /\ Len(Joined(short, name)) = Len(short) + 2 + Len(name)
      /\ \A i \in 1..Len(short) : Joined(short, name)[i] = short[i]
      /\ Joined(short, name)[Len(short) + 1] = Dash
      /\ Joined(short, name)[Len(short) + 2] = Dash
      /\ \A i \in 1..Len(name) : Joined(short, name)[Len(short) + 2 + i] = name[i]
  BY <1>1, JoinedIs
<1>3. /\ \A i \in 1..Len(short) : short[i] # Dot
      /\ \A i \in 1..Len(name) : name[i] # Dot
      /\ Dash # Dot
  BY <1>1, Written
<1>4. ASSUME NEW i \in 1..Len(Joined(short, name))
      PROVE  Joined(short, name)[i] # Dot
  <2>1. CASE i \in 1..Len(short)
    BY <1>2, <1>3, <2>1
  <2>2. CASE i = Len(short) + 1 \/ i = Len(short) + 2
    BY <1>2, <1>3, <2>2
  <2>3. CASE i > Len(short) + 2
    <3>1. i - (Len(short) + 2) \in 1..Len(name)
      BY <1>1, <1>2, <2>3
    <3>2. i = Len(short) + 2 + (i - (Len(short) + 2))
      BY <1>1
    <3> QED
      BY <1>2, <1>3, <3>1, <3>2
  <2>4. i \in 1..Len(short) \/ i = Len(short) + 1 \/ i = Len(short) + 2
           \/ i > Len(short) + 2
    <3> DEFINE k == Len(short)
               l == Len(name)
    <3>1. k \in Nat /\ l \in Nat /\ i \in 1..k + 2 + l
      BY <1>1, <1>2
    <3> HIDE DEF k, l
    <3>2. i \in 1..k \/ i = k + 1 \/ i = k + 2 \/ i > k + 2
      BY <3>1
    <3> QED
      BY <3>2 DEF k
  <2> QED
    BY <2>1, <2>2, <2>3, <2>4
<1>5. Dotless(Joined(short, name))
  BY <1>2, <1>4, Written
<1> QED
  BY <1>2, <1>5, FlattenDotless DEF short, name

\* Two methods that are scanned share a name; two services of them share a simple one.
MethodShared(F, name) ==
    \E p, q \in Scanned(F) : p # q /\ p[2].name = name /\ q[2].name = name
SimpleShared(F, simple) ==
    \E p, q \in Scanned(F) : p[1] # q[1] /\ p[1].simple = simple /\ q[1].simple = simple

\* The three forms of a tool's name, and what decides among them.
LEMMA NameForms ==
    ASSUME NEW F \in SUBSET Universe, IsFiniteSet(F), NEW p \in Scanned(F)
    PROVE  LET short == p[1].simple
               full  == FullName(p[1])
               name  == p[2].name
           IN  \/ ~MethodShared(F, name) /\ ToolOf(F, p).name = name
               \/ /\ MethodShared(F, name) /\ ~SimpleShared(F, short)
                  /\ ToolOf(F, p).name = Joined(short, name)
                  /\ ToolOf(F, p).name = Flatten(Joined(short, name))
               \/ /\ MethodShared(F, name) /\ SimpleShared(F, short)
                  /\ ToolOf(F, p).name = Flatten(Joined(full, name))
<1> DEFINE short == p[1].simple
           full == FullName(p[1])
           name == p[2].name
<1>1. ToolOf(F, p).name =
         IF ~(MethodNameCount(F, name) > 1) THEN name
         ELSE IF ~(SimpleNameCount(F, short) > 1) THEN Joined(short, name)
         ELSE Flatten(Joined(full, name))
  BY DEF ToolOf, ToolName, GenerateToolName
<1>2. MethodNameCount(F, name) > 1 <=> MethodShared(F, name)
  BY ScannedFinite, MethodCollides DEF MethodShared
<1>3. SimpleNameCount(F, short) > 1 <=> SimpleShared(F, short)
  BY ScannedFinite, SimpleCollides DEF SimpleShared
<1>4. Flatten(Joined(short, name)) = Joined(short, name)
  BY FlatForm
<1> QED
  BY <1>1, <1>2, <1>3, <1>4

\* What the names in a consistent set are put together from can be told apart.
LEMMA Told ==
    ASSUME Distinguishable,
           NEW F \in SUBSET Universe, NEW p \in Scanned(F),
           NEW G \in SUBSET Universe, NEW q \in Scanned(G)
    PROVE  /\ Separable(p[1].simple) /\ Separable(FullName(p[1])) /\ Separable(p[2].name)
           /\ Flatten(FullName(p[1])) = Flatten(FullName(q[1])) =>
                 FullName(p[1]) = FullName(q[1])
           /\ Flatten(FullName(p[1])) = q[1].simple => FullName(p[1]) = q[1].simple
<1>1. /\ p[1] \in ServicesOf(Registered(Universe)) /\ p[2] \in p[1].methods
      /\ q[1] \in ServicesOf(Registered(Universe))
  BY ScannedIs DEF ServicesOf, Registered
<1> QED
  BY <1>1 DEF Distinguishable

\* Every service of F is there in G, with the methods it had and more.
Within(F, G) ==
    \A s \in ServicesOf(F) : \E t \in ServicesOf(G) :
        FullName(s) = FullName(t) /\ s.methods \subseteq t.methods

LEMMA ScannedWithin ==
    ASSUME NEW F \in SUBSET Universe, NEW G \in SUBSET Universe,
           Consistent(F), Consistent(G), Within(F, G), NEW p \in Scanned(F)
    PROVE  \E q \in Scanned(G) : FullName(q[1]) = FullName(p[1]) /\ q[2] = p[2]
<1>1. Registered(F) = F /\ Registered(G) = G
  BY DEF Registered, Consistent
<1>2. p[1] \in ServicesOf(F) /\ IsChosen(p[1]) /\ p[2] \in Exposed(p[1])
  BY <1>1, ScannedIs
<1>3. PICK t \in ServicesOf(G) :
           FullName(p[1]) = FullName(t) /\ p[1].methods \subseteq t.methods
  BY <1>2 DEF Within
<1>4. IsChosen(t) /\ p[2] \in Exposed(t)
  BY <1>2, <1>3 DEF IsChosen, Exposed
<1>5. <<t, p[2]>> \in Scanned(G)
  BY <1>1, <1>3, <1>4, ScannedIs
<1> QED
  BY <1>3, <1>5

\* Two tools of one name, the second one of a later build: they are of one method, or
\* the later one's service is in no package and has the name that the other's service
\* was called by.
LEMMA OneNameOneMethod ==
    ASSUME Distinguishable,
           NEW F \in SUBSET Universe, IsFiniteSet(F), Consistent(F),
           NEW G \in SUBSET Universe, IsFiniteSet(G), Consistent(G), Within(F, G),
           NEW p \in Scanned(F), NEW q \in Scanned(G),
           ToolOf(F, p).name = ToolOf(G, q).name
    PROVE  /\ p[2].name = q[2].name
           /\ FullName(p[1]) = FullName(q[1]) \/ FullName(q[1]) = p[1].simple
<1> DEFINE short == p[1].simple
           full == FullName(p[1])
           name == p[2].name
           short2 == q[1].simple
           full2 == FullName(q[1])
           name2 == q[2].name
<1>1. PICK r \in Scanned(G) : FullName(r[1]) = full /\ r[2] = p[2]
  BY ScannedWithin
<1>2. /\ short \in Seq(Token) /\ Dotless(short) /\ Separable(short)
      /\ full \in Seq(Token) /\ Separable(full)
      /\ name \in Seq(Token) /\ Dotless(name) /\ Separable(name)
      /\ SimpleOf(full) = short
  BY NameFacts, Told
<1>3. /\ short2 \in Seq(Token) /\ Dotless(short2) /\ Separable(short2)
      /\ full2 \in Seq(Token) /\ Separable(full2)
      /\ name2 \in Seq(Token) /\ Dotless(name2) /\ Separable(name2)
      /\ SimpleOf(short2) = short2
  BY NameFacts, Told
<1>4. /\ Flatten(full) = Flatten(full2) => full = full2
      /\ Flatten(full) = short2 => full = short2
      /\ Flatten(full2) = short => full2 = short
  BY Told
<1>5. r[1].simple = short
  BY <1>1, <1>2, NameFacts
<1>6. Flatten(short) = short /\ Flatten(short2) = short2
  BY <1>2, <1>3, FlattenDotless
<1>7. \/ ~MethodShared(F, name) /\ ToolOf(F, p).name = name
      \/ ToolOf(F, p).name = Flatten(Joined(short, name))
      \/ ToolOf(F, p).name = Flatten(Joined(full, name))
  BY NameForms
<1>8. \/ ~MethodShared(G, name2) /\ ToolOf(G, q).name = name2
      \/ ~SimpleShared(G, short2) /\ ToolOf(G, q).name = Flatten(Joined(short2, name2))
      \/ ToolOf(G, q).name = Flatten(Joined(full2, name2))
  BY NameForms
<1>9. CASE ToolOf(F, p).name = name /\ ~MethodShared(G, name2) /\ ToolOf(G, q).name = name2
  <2>1. r[2].name = q[2].name
    BY <1>1, <1>9
  <2>2. r = q
    BY <1>9, <2>1 DEF MethodShared
  <2> QED
    BY <1>1, <1>9, <2>2
<1>10. ASSUME NEW A \in {short, full},
              ToolOf(F, p).name = Flatten(Joined(A, name)), ToolOf(G, q).name = name2
       PROVE  FALSE
  BY <1>2, <1>3, <1>10, JoinedIsNoName
<1>11. ASSUME NEW B \in {short2, full2},
              ToolOf(F, p).name = name, ToolOf(G, q).name = Flatten(Joined(B, name2))
       PROVE  FALSE
  BY <1>2, <1>3, <1>11, JoinedIsNoName
<1>12. ASSUME NEW A \in {short, full}, NEW B \in {short2, full2},
              ToolOf(F, p).name = Flatten(Joined(A, name)),
              ToolOf(G, q).name = Flatten(Joined(B, name2)),
              B = short2 => ~SimpleShared(G, short2) \/ B = full2
       PROVE  name = name2 /\ (full = full2 \/ full2 = short)
  <2>1. Flatten(A) = Flatten(B) /\ name = name2
    <3>1. A \in Seq(Token) /\ B \in Seq(Token) /\ Separable(A) /\ Separable(B)
      BY <1>2, <1>3
    <3>2. Flatten(Joined(A, name)) = Flatten(Joined(B, name2))
      BY <1>12
    <3> HIDE DEF name, name2, short, short2, full, full2
    <3> QED
      BY <1>2, <1>3, <3>1, <3>2, Split
  <2>2. CASE B = full2
    <3>1. CASE A = short
      BY <1>4, <1>6, <2>1, <2>2, <3>1
    <3>2. CASE A = full
      BY <1>4, <2>1, <2>2, <3>2
    <3> QED
      BY <2>1, <3>1, <3>2
  <2>3. CASE B = short2 /\ ~SimpleShared(G, short2)
    <3>1. short = short2
      <4>1. CASE A = short
        BY <1>6, <2>1, <2>3, <4>1
      <4>2. CASE A = full
        <5>1. full = short2
          BY <1>4, <1>6, <2>1, <2>3, <4>2
        <5> QED
          BY <1>2, <1>3, <5>1
      <4> QED
        BY <4>1, <4>2
    <3>2. r[1] = q[1]
      BY <1>5, <2>3, <3>1 DEF SimpleShared
    <3> QED
      BY <1>1, <2>1, <3>2
  <2> QED
    BY <1>12, <2>2, <2>3
<1>13. CASE ToolOf(F, p).name = name
  <2>1. CASE ~MethodShared(G, name2) /\ ToolOf(G, q).name = name2
    BY <1>9, <1>13, <2>1
  <2>2. CASE ToolOf(G, q).name = Flatten(Joined(short2, name2))
    BY <1>11, <1>13, <2>2
  <2>3. CASE ToolOf(G, q).name = Flatten(Joined(full2, name2))
    BY <1>11, <1>13, <2>3
  <2> QED
    BY <1>8, <2>1, <2>2, <2>3
<1>14. ASSUME NEW A \in {short, full}, ToolOf(F, p).name = Flatten(Joined(A, name))
       PROVE  name = name2 /\ (full = full2 \/ full2 = short)
  <2>1. CASE ToolOf(G, q).name = name2
    BY <1>10, <1>14, <2>1
  <2>2. CASE ~SimpleShared(G, short2) /\ ToolOf(G, q).name = Flatten(Joined(short2, name2))
    BY <1>12, <1>14, <2>2
  <2>3. CASE ToolOf(G, q).name = Flatten(Joined(full2, name2))
    BY <1>12, <1>14, <2>3
  <2> QED
    BY <1>8, <2>1, <2>2, <2>3
<1> QED
  BY <1>7, <1>13, <1>14

-----------------------------------------------------------------------------
\* The files of the backend are finitely many of the universe, the tools of the server
\* were built from files of its past, and those the client knows of from older ones yet.
IInv ==
    /\ fds \in SUBSET Universe /\ IsFiniteSet(fds)
    /\ \E F, G \in SUBSET Universe :
          /\ IsFiniteSet(F) /\ listed = Tools(F).tools
          /\ IsFiniteSet(G) /\ served = Tools(G).tools
          /\ Within(F, G) /\ Within(G, fds)

LEMMA WithinReflexive ==
    ASSUME NEW F
    PROVE  Within(F, F)
  BY DEF Within

LEMMA WithinTransitive ==
    ASSUME NEW F, NEW G, NEW H, Within(F, G), Within(G, H)
    PROVE  Within(F, H)
<1> SUFFICES ASSUME NEW s \in ServicesOf(F)
             PROVE  \E u \in ServicesOf(H) :
                       FullName(s) = FullName(u) /\ s.methods \subseteq u.methods
  BY DEF Within
<1>1. PICK t \in ServicesOf(G) : FullName(s) = FullName(t) /\ s.methods \subseteq t.methods
  BY DEF Within
<1>2. PICK u \in ServicesOf(H) : FullName(t) = FullName(u) /\ t.methods \subseteq u.methods
  BY DEF Within
<1> QED
  BY <1>1, <1>2

\* A backend that grows keeps every service and its methods.
LEMMA GrowKeeps ==
    ASSUME NEW g \in Universe, Grow(g)
    PROVE  Within(fds, fds')
<1> DEFINE old == {f \in fds : f.path = g.path}
<1>1. (\A f \in old : Extends(f, g)) /\ fds' = (fds \ old) \cup {g}
  BY DEF Grow
<1> SUFFICES ASSUME NEW s \in ServicesOf(fds)
             PROVE  \E t \in ServicesOf(fds') :
                       FullName(s) = FullName(t) /\ s.methods \subseteq t.methods
  BY DEF Within
<1>2. PICK f \in fds : s \in f.services
  BY DEF ServicesOf
<1>3. CASE f \in old
  <2>1. PICK t \in g.services : FullName(s) = FullName(t) /\ s.methods \subseteq t.methods
    BY <1>1, <1>2, <1>3 DEF Extends
  <2>2. t \in ServicesOf(fds')
    BY <1>1, <2>1 DEF ServicesOf
  <2> QED
    BY <2>1, <2>2
<1>4. CASE f \notin old
  <2>1. s \in ServicesOf(fds')
    BY <1>1, <1>2, <1>4 DEF ServicesOf
  <2> QED
    BY <2>1
<1> QED
  BY <1>3, <1>4

LEMMA InitIInv == Init => IInv
<1> SUFFICES ASSUME Init
             PROVE  IInv
  OBVIOUS
<1>1. IsFiniteSet({}) /\ {} \in SUBSET Universe
  BY FS_EmptySet
<1>2. Tools({}).tools = {}
  BY NoToolsIfInconsistent DEF Consistent
<1>3. Within({}, {})
  BY WithinReflexive
<1> QED
  BY <1>1, <1>2, <1>3 DEF IInv, Init

LEMMA NextIInv == IInv /\ [Next]_vars => IInv'
<1> SUFFICES ASSUME IInv, [Next]_vars
             PROVE  IInv'
  OBVIOUS
<1>1. fds \in SUBSET Universe /\ IsFiniteSet(fds)
  BY DEF IInv
<1>2. PICK F \in SUBSET Universe, G \in SUBSET Universe :
         /\ IsFiniteSet(F) /\ listed = Tools(F).tools
         /\ IsFiniteSet(G) /\ served = Tools(G).tools
         /\ Within(F, G) /\ Within(G, fds)
  BY DEF IInv
<1>3. ASSUME NEW g \in Universe, Grow(g)
      PROVE  IInv'
  <2>1. fds' \in SUBSET Universe /\ IsFiniteSet(fds')
    <3>1. PICK keep \in SUBSET fds : fds' = keep \cup {g}
      BY <1>3 DEF Grow
    <3>2. IsFiniteSet(keep) /\ IsFiniteSet({g})
      BY <1>1, FS_Subset, FS_Singleton
    <3> QED
      BY <1>1, <3>1, <3>2, FS_Union
  <2>2. Within(G, fds')
    BY <1>2, <1>3, GrowKeeps, WithinTransitive
  <2>3. served' = served /\ listed' = listed
    BY <1>3 DEF Grow
  <2> QED
    BY <1>2, <2>1, <2>2, <2>3 DEF IInv
<1>4. CASE Refresh
  <2>1. fds' = fds /\ listed' = listed /\ served' = Tools(fds).tools
    BY <1>4 DEF Refresh
  <2>2. Within(F, fds) /\ Within(fds, fds)
    BY <1>2, WithinTransitive, WithinReflexive
  <2> QED
    BY <1>1, <1>2, <2>1, <2>2 DEF IInv
<1>5. CASE List
  <2>1. fds' = fds /\ served' = served /\ listed' = served
    BY <1>5 DEF List
  <2>2. Within(G, G)
    BY WithinReflexive
  <2> QED
    BY <1>1, <1>2, <2>1, <2>2 DEF IInv
<1>6. CASE UNCHANGED vars
  BY <1>1, <1>2, <1>6 DEF IInv, vars
<1> QED
  BY <1>3, <1>4, <1>5, <1>6 DEF Next

LEMMA SpecIInv == Spec => []IInv
<1> QED
  BY InitIInv, NextIInv, PTL DEF Spec

-----------------------------------------------------------------------------
\* Where names can be told apart, one tool name stands for one method.
LEMMA IInvNamesUnique ==
    ASSUME Distinguishable, IInv
    PROVE  NamesUnique
<1> SUFFICES ASSUME NEW x \in Tools(fds).tools, NEW y \in Tools(fds).tools, x.name = y.name
             PROVE  x = y
  BY DEF NamesUnique
<1>1. Consistent(fds)
  BY NoToolsIfInconsistent
<1>2. fds \in SUBSET Universe /\ IsFiniteSet(fds) /\ Within(fds, fds)
  BY WithinReflexive DEF IInv
<1>3. PICK p \in Scanned(fds) : x = ToolOf(fds, p)
  BY <1>1, ToolsAre
<1>4. PICK q \in Scanned(fds) : y = ToolOf(fds, q)
  BY <1>1, ToolsAre
<1>5. /\ p[2].name = q[2].name
      /\ FullName(p[1]) = FullName(q[1]) \/ FullName(q[1]) = p[1].simple
      /\ FullName(q[1]) = FullName(p[1]) \/ FullName(p[1]) = q[1].simple
  BY <1>1, <1>2, <1>3, <1>4, OneNameOneMethod
<1>6. FullName(p[1]) = FullName(q[1])
  <2>1. CASE FullName(q[1]) = p[1].simple /\ FullName(p[1]) = q[1].simple
    <3>1. SimpleOf(FullName(q[1])) = q[1].simple /\ SimpleOf(p[1].simple) = p[1].simple
      BY <1>2, NameFacts
    <3> QED
      BY <2>1, <3>1
  <2> QED
    BY <1>5, <2>1
<1>7. p = q
  BY <1>1, <1>2, <1>5, <1>6, MethodTells
<1> QED
  BY <1>3, <1>4, <1>7

\* No two tools share a name (main.go, generateToolName), in any backend whose
\* identifiers can be told apart once dots have become underscores.
THEOREM NamesUniqueCorrect ==
    ASSUME Distinguishable
    PROVE  Spec => []NamesUnique
<1>1. IInv => NamesUnique
  BY IInvNamesUnique
<1> QED
  BY <1>1, SpecIInv, PTL

LEMMA IInvCallsReachWhatTheyMeant ==
    ASSUME Distinguishable, IInv
    PROVE  CallsReachWhatTheyMeant
<1> SUFFICES ASSUME NEW x \in listed, NEW y \in served, x.name = y.name,
                    x.method # y.method
             PROVE  y.method = <<SimpleOf(x.method[1]), x.method[2]>>
  BY DEF CallsReachWhatTheyMeant
<1>1. PICK F \in SUBSET Universe, G \in SUBSET Universe :
         /\ IsFiniteSet(F) /\ listed = Tools(F).tools
         /\ IsFiniteSet(G) /\ served = Tools(G).tools
         /\ Within(F, G)
  BY DEF IInv
<1>2. Consistent(F) /\ Consistent(G)
  BY <1>1, NoToolsIfInconsistent
<1>3. PICK p \in Scanned(F) : x = ToolOf(F, p)
  BY <1>1, <1>2, ToolsAre
<1>4. PICK q \in Scanned(G) : y = ToolOf(G, q)
  BY <1>1, <1>2, ToolsAre
<1>5. /\ x.method = <<FullName(p[1]), p[2].name>>
      /\ y.method = <<FullName(q[1]), q[2].name>>
      /\ ToolOf(F, p).name = ToolOf(G, q).name
  BY <1>3, <1>4 DEF ToolOf
<1>6. /\ p[2].name = q[2].name
      /\ FullName(p[1]) = FullName(q[1]) \/ FullName(q[1]) = p[1].simple
  BY <1>1, <1>2, <1>5, OneNameOneMethod
<1>7. SimpleOf(FullName(p[1])) = p[1].simple
  BY NameFacts
<1> QED
  BY <1>5, <1>6, <1>7

\* A name that a client was given reaches the method it meant or none, for as long as
\* the backend only grows and however often the tools are refreshed (main.go,
\* toolManager.refresh), unless a service in no package takes it over.
THEOREM CallsReachWhatTheyMeantCorrect ==
    ASSUME Distinguishable
    PROVE  Spec => []CallsReachWhatTheyMeant
<1>1. IInv => CallsReachWhatTheyMeant
  BY IInvCallsReachWhatTheyMeant
<1> QED
  BY <1>1, SpecIInv, PTL

\* What a name is judged by: the tools of methods of that name, and the tools of services
\* of that simple name.
LEMMA RivalsAre ==
    ASSUME NEW F \in SUBSET Universe, Consistent(F), NEW p \in Scanned(F)
    PROVE  (\E y \in Tools(F).tools \ {ToolOf(F, p)} : y.method[2] = p[2].name)
              <=> MethodShared(F, p[2].name)
<1> DEFINE x == ToolOf(F, p)
           name == p[2].name
<1>1. ASSUME NEW y \in Tools(F).tools \ {x}, y.method[2] = name
      PROVE  MethodShared(F, name)
  <2>1. PICK q \in Scanned(F) : y = ToolOf(F, q)
    BY ToolsAre
  <2>2. q[2].name = name /\ q # p
    BY <1>1, <2>1 DEF ToolOf
  <2> QED
    BY <2>2 DEF MethodShared
<1>2. ASSUME MethodShared(F, name)
      PROVE  \E y \in Tools(F).tools \ {x} : y.method[2] = name
  <2>1. PICK q \in Scanned(F) : q # p /\ q[2].name = name
    BY <1>2 DEF MethodShared
  <2>2. FullName(q[1]) # FullName(p[1])
    BY <2>1, MethodTells
  <2>3. ToolOf(F, q).method = <<FullName(q[1]), name>> /\ x.method = <<FullName(p[1]), name>>
    BY <2>1 DEF ToolOf
  <2>4. ToolOf(F, q) \in Tools(F).tools /\ ToolOf(F, q) # x
    BY <2>2, <2>3, ToolsAre
  <2> QED
    BY <2>3, <2>4
<1> QED
  BY <1>1, <1>2

LEMMA NamesakesAre ==
    ASSUME NEW F \in SUBSET Universe, Consistent(F), NEW p \in Scanned(F)
    PROVE  (\E y \in Tools(F).tools : /\ y.method[1] # FullName(p[1])
                                      /\ SimpleOf(y.method[1]) = p[1].simple)
              <=> SimpleShared(F, p[1].simple)
<1> DEFINE short == p[1].simple
           full == FullName(p[1])
<1>1. ASSUME NEW y \in Tools(F).tools, y.method[1] # full, SimpleOf(y.method[1]) = short
      PROVE  SimpleShared(F, short)
  <2>1. PICK q \in Scanned(F) : y = ToolOf(F, q)
    BY ToolsAre
  <2>2. y.method[1] = FullName(q[1])
    BY <2>1 DEF ToolOf
  <2>3. q[1].simple = short /\ q[1] # p[1]
    BY <1>1, <2>2, NameFacts
  <2> QED
    BY <2>3 DEF SimpleShared
<1>2. ASSUME SimpleShared(F, short)
      PROVE  \E y \in Tools(F).tools : y.method[1] # full /\ SimpleOf(y.method[1]) = short
  <2>1. PICK q \in Scanned(F) : q[1] # p[1] /\ q[1].simple = short
    BY <1>2 DEF SimpleShared
  <2>2. FullName(q[1]) # full /\ SimpleOf(FullName(q[1])) = short
    BY <2>1, MethodTells, NameFacts
  <2>3. ToolOf(F, q).method[1] = FullName(q[1]) /\ ToolOf(F, q) \in Tools(F).tools
    BY ToolsAre DEF ToolOf
  <2> QED
    BY <2>2, <2>3
<1> QED
  BY <1>1, <1>2

\* The forms of a name can be told by their lengths.
LEMMA FormsDiffer ==
    ASSUME NEW F \in SUBSET Universe, NEW p \in Scanned(F)
    PROVE  LET short == p[1].simple
               full  == FullName(p[1])
               name  == p[2].name
           IN  /\ Joined(short, name) # name
               /\ Flatten(Joined(full, name)) # name
               /\ Flatten(Joined(full, name)) = Joined(short, name) => full = short
               /\ Flatten(Joined(short, name)) = Joined(short, name)
<1> DEFINE short == p[1].simple
           full == FullName(p[1])
           name == p[2].name
<1>1. /\ short \in Seq(Token) /\ full \in Seq(Token) /\ name \in Seq(Token)
      /\ full = short \/ Len(full) > Len(short)
  BY NameFacts
<1>2. Flatten(Joined(short, name)) = Joined(short, name)
  BY FlatForm
<1> HIDE DEF short, full, name
<1> DEFINE l == Len(name)
           k == Len(short)
           m == Len(full)
<1>3. l \in Nat /\ k \in Nat /\ m \in Nat
  BY <1>1
<1>4. /\ Len(Joined(short, name)) = k + 2 + l
      /\ Len(Flatten(Joined(full, name))) = m + 2 + l
  BY <1>1, JoinedIs, FlatIs
<1>5. k + 2 + l # l /\ m + 2 + l # l /\ (m > k => m + 2 + l # k + 2 + l)
  <2> HIDE DEF k, l, m
  <2> QED
    BY <1>3
<1>6. Joined(short, name) # name /\ Flatten(Joined(full, name)) # name
  BY <1>4, <1>5
<1>7. Flatten(Joined(full, name)) = Joined(short, name) => full = short
  BY <1>1, <1>4, <1>5
<1> QED
  BY <1>2, <1>6, <1>7 DEF short, full, name

LEMMA IInvQualifiedForAReason ==
    ASSUME IInv
    PROVE  QualifiedForAReason
<1> SUFFICES ASSUME NEW x \in Tools(fds).tools
             PROVE  LET method    == x.method[2]
                        simple    == SimpleOf(x.method[1])
                        rivals    == {y \in Tools(fds).tools \ {x} : y.method[2] = method}
                        namesakes == {y \in Tools(fds).tools :
                                         /\ y.method[1] # x.method[1]
                                         /\ SimpleOf(y.method[1]) = simple}
                    IN  /\ x.name = method <=> rivals = {}
                        /\ x.name = Joined(simple, method) <=>
                              rivals # {} /\ (namesakes = {} \/ x.method[1] = simple)
  BY DEF QualifiedForAReason
<1>1. Consistent(fds)
  BY NoToolsIfInconsistent
<1>2. fds \in SUBSET Universe /\ IsFiniteSet(fds)
  BY DEF IInv
<1>3. PICK p \in Scanned(fds) : x = ToolOf(fds, p)
  BY <1>1, ToolsAre
<1> DEFINE short == p[1].simple
           full == FullName(p[1])
           name == p[2].name
<1>4. x.method[1] = full /\ x.method[2] = name /\ SimpleOf(full) = short
  BY <1>2, <1>3, NameFacts DEF ToolOf
<1>5. {y \in Tools(fds).tools \ {x} : y.method[2] = name} = {} <=> ~MethodShared(fds, name)
  BY <1>1, <1>2, <1>3, RivalsAre
<1>6. {y \in Tools(fds).tools : y.method[1] # full /\ SimpleOf(y.method[1]) = short} = {}
         <=> ~SimpleShared(fds, short)
  BY <1>1, <1>2, NamesakesAre
<1>7. \/ ~MethodShared(fds, name) /\ x.name = name
      \/ /\ MethodShared(fds, name) /\ ~SimpleShared(fds, short)
         /\ x.name = Joined(short, name)
      \/ /\ MethodShared(fds, name) /\ SimpleShared(fds, short)
         /\ x.name = Flatten(Joined(full, name))
  BY <1>2, <1>3, NameForms
<1>8. /\ Joined(short, name) # name
      /\ Flatten(Joined(full, name)) # name
      /\ Flatten(Joined(full, name)) = Joined(short, name) => full = short
      /\ Flatten(Joined(short, name)) = Joined(short, name)
  BY <1>2, FormsDiffer
<1> HIDE DEF short, full, name
<1>9. x.name = name <=> ~MethodShared(fds, name)
  BY <1>7, <1>8
<1>10. x.name = Joined(short, name) <=>
          MethodShared(fds, name) /\ (~SimpleShared(fds, short) \/ full = short)
  BY <1>7, <1>8
<1> QED
  BY <1>4, <1>5, <1>6, <1>9, <1>10

\* A tool is called by its method alone exactly when no other tool's method bears that
\* name, by its service's simple name when no other service with a tool bears that, and
\* by the full one only then (main.go, generateToolName; README.md:90-92).
THEOREM QualifiedForAReasonCorrect == Spec => []QualifiedForAReason
<1>1. IInv => QualifiedForAReason
  BY IInvQualifiedForAReason
<1> QED
  BY <1>1, SpecIInv, PTL

-----------------------------------------------------------------------------
LEMMA LeastNatural ==
    ASSUME NEW S \in SUBSET Nat, S # {}
    PROVE  \E i \in S : \A j \in S : i <= j
<1> DEFINE R == OpToRel(<, Nat)
<1>1. PICK i \in S : \A j \in S : ~(<<j, i>> \in R)
  <2>1. IsWellFoundedOn(R, Nat)
    BY NatLessThanWellFounded, Zenon
  <2> HIDE DEF R
  <2> QED
    BY <2>1, WFMin
<1>2. \A j \in S : ~(j < i)
  BY <1>1 DEF OpToRel
<1> QED
  BY <1>2

\* A field of the options is one that -require-method-option looks at.
Looked(options, i) ==
    /\ i \in DOMAIN options
    /\ options[i].number = OptFieldNum
    /\ options[i].wireType = "varint"

\* The first varint of the number decides, of options that were parsed.
LEMMA FirstDecides ==
    ASSUME NEW options \in Seq([number : Nat, wireType : STRING, varint : Nat]),
           \A i \in DOMAIN options : options[i] # Malformed
    PROVE  HasMethodOption(options, OptFieldNum, OptValues) <=>
              \E i \in DOMAIN options :
                  /\ Looked(options, i) /\ options[i].varint \in OptValues
                  /\ \A j \in DOMAIN options : Looked(options, j) => i <= j
<1>1. DOMAIN options = 1..Len(options) /\ Len(options) \in Nat
  OBVIOUS
<1>2. Read(options) = DOMAIN options
  BY <1>1 DEF Read
<1>3. \A i \in DOMAIN options : \A j \in 1..i - 1 : j \in DOMAIN options
  BY <1>1
<1>4. \A i \in DOMAIN options : \A j \in DOMAIN options : j \in 1..i - 1 <=> ~(i <= j)
  BY <1>1
<1>5. HasMethodOption(options, OptFieldNum, OptValues) <=>
         \E i \in DOMAIN options :
             /\ Looked(options, i) /\ options[i].varint \in OptValues
             /\ \A j \in 1..i - 1 : ~Looked(options, j)
  BY <1>2, <1>3 DEF HasMethodOption, Looked
<1>6. ASSUME NEW i \in DOMAIN options
      PROVE  (\A j \in 1..i - 1 : ~Looked(options, j)) <=>
                \A j \in DOMAIN options : Looked(options, j) => i <= j
  BY <1>3, <1>4
<1> QED
  BY <1>5, <1>6

LEMMA IInvMarkedAlone ==
    ASSUME IInv
    PROVE  MarkedAlone
<1> SUFFICES ASSUME Tools(fds).ok, OptFieldNum > 0,
                    NEW s \in ServicesOf(fds), NEW m \in s.methods
             PROVE  LET HasTool == \E x \in Tools(fds).tools :
                                      x.method = <<FullName(s), m.name>>
                        Values == [i \in {i \in DOMAIN m.options :
                                            /\ m.options[i].number = OptFieldNum
                                            /\ m.options[i].wireType = "varint"}
                                      |-> m.options[i].varint]
                        Marks == {i \in DOMAIN Values : Values[i] \in OptValues}
                    IN  /\ HasTool => IsChosen(s) /\ ~m.streaming /\ Marks # {}
                        /\ IsChosen(s) /\ ~m.streaming /\ ~HasTool =>
                              \A i \in Marks : \E j \in DOMAIN Values \ Marks : j < i
  BY DEF MarkedAlone
<1> DEFINE HasTool == \E x \in Tools(fds).tools : x.method = <<FullName(s), m.name>>
           options == m.options
           Values == [i \in {i \in DOMAIN options :
                               /\ options[i].number = OptFieldNum
                               /\ options[i].wireType = "varint"} |-> options[i].varint]
           Marks == {i \in DOMAIN Values : Values[i] \in OptValues}
<1>1. Consistent(fds) /\ fds \in SUBSET Universe
  BY DEF Tools, IInv
<1>2. s \in ServicesOf(Registered(fds))
  BY <1>1 DEF Consistent, Registered
<1>3. /\ \A n \in s.methods : n.name = m.name => n = m
      /\ m \in Method
      /\ \A i \in DOMAIN options : options[i] # Malformed
  BY <1>1, <1>2, ServiceFacts DEF Service
<1>4. options \in Seq([number : Nat, wireType : STRING, varint : Nat])
  BY <1>3 DEF Method
<1>5. HasTool <=> IsChosen(s) /\ m \in Exposed(s)
  <2>1. ASSUME NEW x \in Tools(fds).tools, x.method = <<FullName(s), m.name>>
        PROVE  IsChosen(s) /\ m \in Exposed(s)
    <3>1. PICK q \in Scanned(fds) : x = ToolOf(fds, q)
      BY <1>1, ToolsAre
    <3>2. /\ q[1] \in ServicesOf(Registered(fds)) /\ IsChosen(q[1])
          /\ q[2] \in Exposed(q[1]) /\ q[2] \in q[1].methods
      BY ScannedIs
    <3>3. FullName(q[1]) = FullName(s) /\ q[2].name = m.name
      BY <2>1, <3>1 DEF ToolOf
    <3>4. q[1] = s
      BY <1>1, <1>2, <3>2, <3>3 DEF Consistent, ServicesOf, Registered
    <3> QED
      BY <1>3, <3>2, <3>3, <3>4
  <2>2. ASSUME IsChosen(s), m \in Exposed(s)
        PROVE  HasTool
    <3>1. <<s, m>> \in Scanned(fds)
      BY <1>2, <2>2, ScannedIs
    <3>2. ToolOf(fds, <<s, m>>).method = <<FullName(s), m.name>>
      BY DEF ToolOf
    <3> QED
      BY <1>1, <3>1, <3>2, ToolsAre
  <2> QED
    BY <2>1, <2>2
<1>6. m \in Exposed(s) <=> ~m.streaming /\ HasMethodOption(options, OptFieldNum, OptValues)
  BY DEF Exposed, MethodFilter
<1>7. \A i : /\ i \in DOMAIN Values <=> Looked(options, i)
             /\ i \in Marks <=> Looked(options, i) /\ options[i].varint \in OptValues
  BY DEF Looked
<1>8. DOMAIN options \subseteq Nat
  BY <1>4
<1> DEFINE first(i) == \A j \in DOMAIN options : Looked(options, j) => i <= j
<1>9. HasMethodOption(options, OptFieldNum, OptValues) <=>
         \E i \in DOMAIN options :
             Looked(options, i) /\ options[i].varint \in OptValues /\ first(i)
  BY <1>3, <1>4, FirstDecides
<1> HIDE DEF HasTool, Values, Marks, options
<1>10. HasTool => IsChosen(s) /\ ~m.streaming /\ Marks # {}
  BY <1>5, <1>6, <1>7, <1>9
<1>11. ASSUME IsChosen(s), ~m.streaming, ~HasTool, NEW i \in Marks
       PROVE  \E j \in DOMAIN Values \ Marks : j < i
  <2> DEFINE S == {j \in DOMAIN options : Looked(options, j)}
  <2>1. i \in S
    BY <1>7, <1>11 DEF Looked
  <2>2. PICK j \in S : \A k \in S : j <= k
    BY <1>8, <2>1, LeastNatural
  <2>3. first(j)
    BY <2>2
  <2>4. ~(options[j].varint \in OptValues)
    BY <1>5, <1>6, <1>9, <1>11, <2>3
  <2>5. j \in DOMAIN Values \ Marks
    BY <1>7, <2>4
  <2>6. j \in Nat /\ i \in Nat /\ j <= i /\ j # i
    BY <1>7, <1>8, <1>11, <2>1, <2>2, <2>4
  <2> QED
    BY <2>5, <2>6
<1> QED
  BY <1>10, <1>11 DEF HasTool, Values, Marks, options

\* A method has a tool only if its service is chosen and its options bear the required
\* number with a value asked for; and one that has none bears it with another first
\* (main.go, hasMethodOption; README.md:71).
THEOREM MarkedAloneCorrect == Spec => []MarkedAlone
<1>1. IInv => MarkedAlone
  BY IInvMarkedAlone
<1> QED
  BY <1>1, SpecIInv, PTL

-----------------------------------------------------------------------------
\* A service without the methods that have no tool.
Strip(s) == [s EXCEPT !.methods = Exposed(s)]

LEMMA StripIs ==
    ASSUME NEW s \in Service
    PROVE  /\ FullName(Strip(s)) = FullName(s)
           /\ Strip(s).simple = s.simple
           /\ IsChosen(Strip(s)) <=> IsChosen(s)
           /\ Exposed(Strip(s)) = Exposed(s)
<1>1. /\ Strip(s).pkg = s.pkg /\ Strip(s).simple = s.simple
      /\ Strip(s).methods = Exposed(s)
  BY DEF Strip, Service
<1>2. FullName(Strip(s)) = FullName(s)
  BY <1>1 DEF FullName
<1>3. Exposed(Strip(s)) = Exposed(s)
  BY <1>1 DEF Exposed
<1> QED
  BY <1>1, <1>2, <1>3 DEF IsChosen

LEMMA StrippedIs ==
    ASSUME NEW f \in Universe, f.sound
    PROVE  /\ Stripped(f).sound
           /\ Stripped(f).services =
                 {Strip(s) : s \in {x \in f.services : IsChosen(x) /\ Exposed(x) # {}}}
<1>1. f \in [path : STRING, sound : BOOLEAN, services : SUBSET Service]
  BY UniverseAssumption
<1> DEFINE kept == {Strip(s) : s \in {x \in f.services : IsChosen(x) /\ Exposed(x) # {}}}
<1>2. Stripped(f) = [f EXCEPT !.services = kept]
  BY DEF Stripped, Strip
<1> HIDE DEF kept
<1>3. Stripped(f).sound = f.sound /\ Stripped(f).services = kept
  BY <1>1, <1>2
<1> QED
  BY <1>3 DEF kept

\* The stripped files hold the services that have tools, and yield the same methods.
LEMMA StrippedServices ==
    ASSUME NEW F \in SUBSET Universe, Consistent(F)
    PROVE  LET H == {Stripped(f) : f \in F}
           IN  /\ Registered(H) = H
               /\ \A r : r \in ServicesOf(H) <=>
                     \E s \in ServicesOf(F) :
                         IsChosen(s) /\ Exposed(s) # {} /\ r = Strip(s)
               /\ \A r \in ServicesOf(H) : IsChosen(r)
<1> DEFINE H == {Stripped(f) : f \in F}
<1>1. \A f \in F : f \in Universe /\ f.sound
  BY DEF Consistent
<1>2. Registered(H) = H
  BY <1>1, StrippedIs DEF Registered
<1>3. ASSUME NEW r \in ServicesOf(H)
      PROVE  \E s \in ServicesOf(F) : IsChosen(s) /\ Exposed(s) # {} /\ r = Strip(s)
  <2>1. PICK f \in F : r \in Stripped(f).services
    BY DEF ServicesOf
  <2>2. PICK s \in f.services : IsChosen(s) /\ Exposed(s) # {} /\ r = Strip(s)
    BY <1>1, <2>1, StrippedIs
  <2> QED
    BY <2>2 DEF ServicesOf
<1>4. ASSUME NEW s \in ServicesOf(F), IsChosen(s), Exposed(s) # {}
      PROVE  Strip(s) \in ServicesOf(H)
  <2>1. PICK f \in F : s \in f.services
    BY DEF ServicesOf
  <2>2. Strip(s) \in Stripped(f).services
    BY <1>1, <1>4, <2>1, StrippedIs
  <2> QED
    BY <2>2 DEF ServicesOf
<1>5. \A s \in ServicesOf(F) : s \in Service
  <2>1. Registered(F) = F
    BY DEF Consistent, Registered
  <2> QED
    BY <2>1, ServiceFacts
<1>6. \A r \in ServicesOf(H) : IsChosen(r)
  BY <1>3, <1>5, StripIs
<1> HIDE DEF H
<1>7. \A r : r \in ServicesOf(H) <=>
         \E s \in ServicesOf(F) : IsChosen(s) /\ Exposed(s) # {} /\ r = Strip(s)
  BY <1>3, <1>4
<1> QED
  BY <1>2, <1>6, <1>7 DEF H

\* The same method, of the stripped service.
StripOf(p) == <<Strip(p[1]), p[2]>>

LEMMA StrippedScanned ==
    ASSUME NEW F \in SUBSET Universe, Consistent(F)
    PROVE  LET H == {Stripped(f) : f \in F}
           IN  /\ Scanned(H) = {StripOf(p) : p \in Scanned(F)}
               /\ \A p \in Scanned(F) :
                     /\ StripOf(p)[2] = p[2]
                     /\ StripOf(p)[1].simple = p[1].simple
                     /\ FullName(StripOf(p)[1]) = FullName(p[1])
               /\ \A p, q \in Scanned(F) :
                     /\ StripOf(p)[1] = StripOf(q)[1] => p[1] = q[1]
                     /\ StripOf(p) = StripOf(q) => p = q
<1> DEFINE H == {Stripped(f) : f \in F}
<1>1. /\ Registered(H) = H
      /\ \A r : r \in ServicesOf(H) <=>
            \E s \in ServicesOf(F) : IsChosen(s) /\ Exposed(s) # {} /\ r = Strip(s)
      /\ \A r \in ServicesOf(H) : IsChosen(r)
  BY StrippedServices
<1> HIDE DEF H
<1>2. Registered(F) = F
  BY DEF Consistent, Registered
<1>3. \A s \in ServicesOf(F) : s \in Service
  BY <1>2, ServiceFacts
<1>4. ASSUME NEW r \in Scanned(H)
      PROVE  r \in {StripOf(p) : p \in Scanned(F)}
  <2>1. r[1] \in ServicesOf(H) /\ r[2] \in Exposed(r[1]) /\ r = <<r[1], r[2]>>
    BY <1>1, ScannedIs
  <2>2. PICK s \in ServicesOf(F) : IsChosen(s) /\ r[1] = Strip(s)
    BY <1>1, <2>1
  <2>3. r[2] \in Exposed(s)
    BY <1>3, <2>1, <2>2, StripIs
  <2>4. <<s, r[2]>> \in Scanned(F)
    BY <1>2, <2>2, <2>3, ScannedIs
  <2>5. r = StripOf(<<s, r[2]>>)
    BY <2>1, <2>2 DEF StripOf
  <2> QED
    BY <2>4, <2>5
<1>5. ASSUME NEW p \in Scanned(F)
      PROVE  /\ p[1] \in ServicesOf(F) /\ p[1] \in Service /\ IsChosen(p[1])
             /\ p[2] \in Exposed(p[1])
  BY <1>2, <1>3, ScannedIs
<1>6. ASSUME NEW p \in Scanned(F)
      PROVE  StripOf(p) \in Scanned(H)
  <2>1. Strip(p[1]) \in ServicesOf(H)
    BY <1>1, <1>5
  <2>2. IsChosen(Strip(p[1])) /\ p[2] \in Exposed(Strip(p[1]))
    BY <1>5, StripIs
  <2> QED
    BY <1>1, <2>1, <2>2, ScannedIs DEF StripOf
<1>7. Scanned(H) = {StripOf(p) : p \in Scanned(F)}
  BY <1>4, <1>6
<1>8. ASSUME NEW p \in Scanned(F)
      PROVE  /\ StripOf(p)[2] = p[2]
             /\ StripOf(p)[1].simple = p[1].simple
             /\ FullName(StripOf(p)[1]) = FullName(p[1])
  BY <1>5, StripIs DEF StripOf
<1>9. ASSUME NEW p \in Scanned(F), NEW q \in Scanned(F), StripOf(p)[1] = StripOf(q)[1]
      PROVE  p[1] = q[1]
  <2>1. FullName(p[1]) = FullName(q[1])
    BY <1>8, <1>9
  <2> QED
    BY <2>1, MethodTells
<1>10. ASSUME NEW p \in Scanned(F), NEW q \in Scanned(F), StripOf(p) = StripOf(q)
       PROVE  p = q
  <2>1. p[1] = q[1] /\ p[2] = q[2]
    BY <1>8, <1>9, <1>10
  <2> QED
    BY <2>1, ScannedIs
<1> QED
  BY <1>7, <1>8, <1>9, <1>10 DEF H

\* Left to themselves, the tools that came out are called what they were.
LEMMA UnexposedLeftOut ==
    ASSUME NEW F \in SUBSET Universe, IsFiniteSet(F), Consistent(F)
    PROVE  Tools({Stripped(f) : f \in F}).tools = Tools(F).tools
<1> DEFINE H == {Stripped(f) : f \in F}
<1>1. /\ Registered(H) = H
      /\ \A r : r \in ServicesOf(H) <=>
            \E s \in ServicesOf(F) : IsChosen(s) /\ Exposed(s) # {} /\ r = Strip(s)
  BY StrippedServices
<1>2. /\ Scanned(H) = {StripOf(p) : p \in Scanned(F)}
      /\ \A p \in Scanned(F) :
            /\ StripOf(p)[2] = p[2]
            /\ StripOf(p)[1].simple = p[1].simple
            /\ FullName(StripOf(p)[1]) = FullName(p[1])
      /\ \A p, q \in Scanned(F) :
            /\ StripOf(p)[1] = StripOf(q)[1] => p[1] = q[1]
            /\ StripOf(p) = StripOf(q) => p = q
  BY StrippedScanned
<1>3. Consistent(H)
  <2>1. H # {}
    BY DEF Consistent
  <2>2. \A f \in H : f.sound
    <3>1. \A f \in F : f \in Universe /\ f.sound
      BY DEF Consistent
    <3> QED
      BY <3>1, StrippedIs
  <2>3. ASSUME NEW f \in H, NEW g \in H, NEW s \in f.services, NEW t \in g.services,
               FullName(s) = FullName(t)
        PROVE  f = g /\ s = t
    <3>1. PICK f0 \in F, g0 \in F : f = Stripped(f0) /\ g = Stripped(g0)
      OBVIOUS
    <3>2. /\ f0 \in Universe /\ f0.sound /\ g0 \in Universe /\ g0.sound
      BY DEF Consistent
    <3>3. PICK s0 \in f0.services : s = Strip(s0)
      BY <3>1, <3>2, StrippedIs
    <3>4. PICK t0 \in g0.services : t = Strip(t0)
      BY <3>1, <3>2, StrippedIs
    <3>5. s0 \in Service /\ t0 \in Service
      BY <3>2, UniverseAssumption
    <3>6. FullName(s0) = FullName(t0)
      BY <2>3, <3>3, <3>4, <3>5, StripIs
    <3>7. f0 = g0 /\ s0 = t0
      BY <3>6 DEF Consistent
    <3> QED
      BY <3>1, <3>3, <3>4, <3>7
  <2>4. \A p \in Scanned(H) : p[2].writable
    BY <1>2 DEF Consistent
  <2> HIDE DEF H
  <2> QED
    BY <2>1, <2>2, <2>3, <2>4 DEF Consistent
<1> HIDE DEF H
<1>4. IsFiniteSet(Scanned(F)) /\ IsFiniteSet(Scanned(H))
  <2>1. IsFiniteSet(Scanned(F))
    BY ScannedFinite
  <2>2. [p \in Scanned(F) |-> StripOf(p)] \in Surjection(Scanned(F), Scanned(H))
    BY <1>2 DEF Surjection
  <2> QED
    BY <2>1, <2>2, FS_Surjection
<1>5. ASSUME NEW name
      PROVE  MethodNameCount(H, name) > 1 <=> MethodNameCount(F, name) > 1
  <2>1. (\E p, q \in Scanned(H) : p # q /\ p[2].name = name /\ q[2].name = name)
           <=> \E p, q \in Scanned(F) : p # q /\ p[2].name = name /\ q[2].name = name
    BY <1>2
  <2> QED
    BY <1>4, <2>1, MethodCollides
<1>6. ASSUME NEW simple
      PROVE  SimpleNameCount(H, simple) > 1 <=> SimpleNameCount(F, simple) > 1
  <2>1. (\E p, q \in Scanned(H) :
             p[1] # q[1] /\ p[1].simple = simple /\ q[1].simple = simple)
           <=> \E p, q \in Scanned(F) :
                   p[1] # q[1] /\ p[1].simple = simple /\ q[1].simple = simple
    <3>1. \A p \in Scanned(F) : StripOf(p) \in Scanned(H)
      BY <1>2
    <3>2. \A r \in Scanned(H) : \E p \in Scanned(F) : r = StripOf(p)
      BY <1>2
    <3>3. ASSUME NEW p \in Scanned(F), NEW q \in Scanned(F)
          PROVE  StripOf(p)[1] = StripOf(q)[1] <=> p[1] = q[1]
      BY <1>2 DEF StripOf
    <3> QED
      BY <1>2, <3>1, <3>2, <3>3
  <2> QED
    BY <1>4, <2>1, SimpleCollides
<1>7. ASSUME NEW p \in Scanned(F)
      PROVE  ToolOf(H, StripOf(p)) = ToolOf(F, p)
  BY <1>2, <1>5, <1>6 DEF ToolOf, ToolName
<1>8. /\ Tools(F).tools = {ToolOf(F, p) : p \in Scanned(F)}
      /\ Tools(H).tools = {ToolOf(H, p) : p \in Scanned(H)}
  BY <1>3, ToolsAre
<1>9. Tools(H).tools = Tools(F).tools
  BY <1>2, <1>7, <1>8
<1> QED
  BY <1>9 DEF H

LEMMA IInvUnexposedHasNoSay ==
    ASSUME IInv
    PROVE  UnexposedHasNoSay
<1>1. ASSUME Tools(fds).ok
      PROVE  Tools(fds).tools = Tools({Stripped(f) : f \in fds}).tools
  <2>1. Consistent(fds) /\ fds \in SUBSET Universe /\ IsFiniteSet(fds)
    BY <1>1 DEF Tools, IInv
  <2> QED
    BY <2>1, UnexposedLeftOut
<1> QED
  BY <1>1 DEF UnexposedHasNoSay

\* What has no tool, a streaming or unselected method or a service of such, has no say in
\* what the tools are called (main.go, buildToolNamer).
THEOREM UnexposedHasNoSayCorrect == Spec => []UnexposedHasNoSay
<1>1. IInv => UnexposedHasNoSay
  BY IInvUnexposedHasNoSay
<1> QED
  BY <1>1, SpecIInv, PTL
=============================================================================
