--------------------------- MODULE TopSortProofs ---------------------------
(***************************************************************************)
(* The properties of TopSort, proved for any finite set of files, any      *)
(* imports and any order of the map.                                       *)
(***************************************************************************)
EXTENDS TopSort, Integers, FiniteSetTheorems, SequenceTheorems, TLAPS

Listed == {ds[i] : i \in DOMAIN ds}

\* What the calls s in progress have in common: they are for gathered files,
\* each for another; the imports a call has looked at are among sn; and they
\* descend, each called for an import of the one before.
Sound(s, sn) ==
    /\ s \in Seq(Frame)
    /\ \A i \in 1..Len(s) :
          /\ s[i].file \in all
          /\ s[i].left \subseteq imports[s[i].file]
          /\ imports[s[i].file] \ s[i].left \subseteq sn
    /\ \A i, j \in 1..Len(s) : s[i].file = s[j].file => i = j
    /\ \A rank \in Rankings : \A i, j \in 1..Len(s) :
          i < j => rank[s[j].file] < rank[s[i].file]

\* The files in sn are those of the calls s and those listed, which differ.
Accounted(s, sn) ==
    /\ \A f \in File :
          f \in sn <=> f \in Listed \/ \E i \in 1..Len(s) : s[i].file = f
    /\ \A i \in 1..Len(s) : s[i].file \notin Listed

\* What is listed was looked at, and nothing that the loop came to is forgotten.
Complete ==
    /\ all \ roots \subseteq seen
    /\ \A i \in 1..Len(ds) : imports[ds[i]] \subseteq seen
    /\ outcome = "done" => stack = <<>> /\ roots = {}

Once == \A i, j \in DOMAIN ds : ds[i] = ds[j] => i = j

FailedForMissing == outcome = "failed" => \E f \in all : ~(imports[f] \subseteq all)

IInv ==
    /\ TypeOK
    /\ Sound(stack, seen)
    /\ Accounted(stack, seen)
    /\ Complete
    /\ Once
    /\ FailedForMissing
    /\ ImportsFirst

-----------------------------------------------------------------------------
\* A ranking numbers the files with integers, imports below their importers.
LEMMA RankType ==
    ASSUME NEW rank \in Rankings
    PROVE  /\ \A f \in File : rank[f] \in Int
           /\ TypeOK => \A f \in all : \A g \in imports[f] : rank[g] < rank[f]
<1>1. rank \in [File -> 0..Cardinality(File)]
    BY DEF Rankings
<1>2. \A f \in File : rank[f] \in 0..Cardinality(File)
    BY <1>1
<1>3. \A f \in File : rank[f] \in Int
    BY <1>2
<1>4. \A f \in all : \A g \in imports[f] : rank[g] < rank[f]
    BY DEF Rankings
<1> QED
    BY <1>3, <1>4

\* A call of topSort keeps the stack sound and every file accounted for.
LEMMA CallStep ==
    ASSUME TypeOK, UNCHANGED <<schema, ds>>,
           NEW s, NEW f \in all,
           Sound(s, seen \cup {f}),
           Accounted(s, seen),
           s # <<>> => f \in imports[s[Len(s)].file],
           Call(s, f)
    PROVE  /\ Sound(stack, seen)'
           /\ Accounted(stack, seen)'
           /\ stack' \in Seq(Frame)
           /\ seen' = seen \cup {f}
<1>0. /\ seen' = seen \cup {f}
      /\ all' = all /\ imports' = imports /\ ds' = ds
      /\ Rankings' = Rankings /\ Listed' = Listed
    BY DEF Call, schema, Rankings, Listed
<1>1. CASE f \in seen
    <2>1. stack' = s /\ seen' = seen
        BY <1>0, <1>1 DEF Call
    <2> QED
        BY <1>0, <1>1, <2>1 DEF Sound, Accounted
<1>2. CASE f \notin seen
    <2> DEFINE frame == [file |-> f, left |-> imports[f]]
    <2>1. stack' = Append(s, frame)
        BY <1>2 DEF Call, Push
    <2>2. f \in File /\ imports[f] \subseteq File /\ frame \in Frame
        BY DEF TypeOK, Frame
    <2>3. s \in Seq(Frame)
        BY DEF Sound
    <2>4. /\ stack' \in Seq(Frame)
          /\ Len(stack') = Len(s) + 1
          /\ \A i \in 1..Len(s) : stack'[i] = s[i]
          /\ stack'[Len(s) + 1] = frame
        BY <2>1, <2>2, <2>3
    <2>5. Len(s) \in Nat
        BY <2>3
    <2>6. \A i \in 1..Len(s) : s[i].file # f
        BY <1>2, <2>2 DEF Accounted
    <2>7. \A i \in 1..Len(s) : s[i].file \in File
        BY DEF Sound, TypeOK
    <2>8. ASSUME NEW i \in 1..Len(stack')
          PROVE  /\ stack'[i].file \in all
                 /\ stack'[i].left \subseteq imports[stack'[i].file]
                 /\ imports[stack'[i].file] \ stack'[i].left \subseteq seen'
        <3>1. CASE i = Len(s) + 1
            BY <2>4, <3>1
        <3>2. CASE i # Len(s) + 1
            BY <1>0, <2>4, <2>5, <3>2 DEF Sound
        <3> QED
            BY <3>1, <3>2
    <2>9. ASSUME NEW i \in 1..Len(stack'), NEW j \in 1..Len(stack'),
                 stack'[i].file = stack'[j].file
          PROVE  i = j
        BY <2>4, <2>5, <2>6, <2>9 DEF Sound
    <2>10. ASSUME NEW rank \in Rankings,
                  NEW i \in 1..Len(stack'), NEW j \in 1..Len(stack'), i < j
           PROVE  rank[stack'[j].file] < rank[stack'[i].file]
        <3>1. CASE j = Len(s) + 1
            <4>1. i \in 1..Len(s) /\ Len(s) \in 1..Len(s) /\ s # <<>>
                BY <2>3, <2>4, <2>5, <2>10, <3>1
            <4>2. rank[f] < rank[s[Len(s)].file]
                BY <4>1, RankType DEF Sound
            <4>3. i < Len(s) => rank[s[Len(s)].file] < rank[s[i].file]
                BY <4>1 DEF Sound
            <4>4. rank[f] \in Int /\ rank[s[i].file] \in Int /\ rank[s[Len(s)].file] \in Int
                BY <2>2, <2>7, <4>1, RankType
            <4>5. rank[f] < rank[s[i].file]
                BY <2>5, <4>1, <4>2, <4>3, <4>4
            <4> QED
                BY <2>4, <3>1, <4>1, <4>5
        <3>2. CASE j # Len(s) + 1
            BY <2>4, <2>5, <2>10, <3>2 DEF Sound
        <3> QED
            BY <3>1, <3>2
    <2>11. Sound(stack, seen)'
        BY <1>0, <2>4, <2>8, <2>9, <2>10 DEF Sound
    <2>12. Accounted(stack, seen)'
        <3>1. f \notin Listed
            BY <1>2, <2>2 DEF Accounted
        <3>2. ASSUME NEW g \in File
              PROVE  g \in seen' <=> g \in Listed \/ \E i \in 1..Len(stack') : stack'[i].file = g
            <4>1. CASE g = f
                <5>1. Len(s) + 1 \in 1..Len(stack') /\ stack'[Len(s) + 1].file = f
                    BY <2>4, <2>5
                <5> QED
                    BY <1>0, <4>1, <5>1
            <4>2. CASE g # f
                <5>1. (\E i \in 1..Len(stack') : stack'[i].file = g)
                        <=> \E i \in 1..Len(s) : s[i].file = g
                    BY <2>4, <2>5, <4>2
                <5> QED
                    BY <1>0, <4>2, <5>1 DEF Accounted
            <4> QED
                BY <4>1, <4>2
        <3>3. \A i \in 1..Len(stack') : stack'[i].file \notin Listed
            BY <2>4, <2>5, <3>1 DEF Accounted
        <3> QED
            BY <1>0, <3>2, <3>3 DEF Accounted
    <2> QED
        BY <1>0, <2>4, <2>11, <2>12
<1> QED
    BY <1>1, <1>2

\* Initially nothing is listed.
LEMMA InitIInv == Init => IInv
<1> SUFFICES ASSUME Init PROVE IInv
    OBVIOUS
<1>1. TypeOK
    BY DEF Init, TypeOK, Frame
<1>2. Sound(stack, seen) /\ Accounted(stack, seen)
    BY <1>1 DEF Init, Sound, Accounted, Listed, TypeOK
<1>3. Complete /\ Once /\ FailedForMissing /\ ImportsFirst
    BY DEF Init, Complete, Once, FailedForMissing, ImportsFirst
<1> QED
    BY <1>1, <1>2, <1>3 DEF IInv

\* What a call leaves alone is still as the invariant says.
LEMMA RestStep ==
    ASSUME IInv, UNCHANGED <<schema, ds, outcome>>, outcome = "running",
           seen \subseteq seen',
           all \ roots' \subseteq seen'
    PROVE  (Complete /\ Once /\ FailedForMissing /\ ImportsFirst)'
BY DEF IInv, Complete, Once, FailedForMissing, ImportsFirst, Rankings, schema

\* The loop over the map comes to a file.
LEMMA RootStep ==
    ASSUME IInv, NEW f \in File, Root(f)
    PROVE  IInv'
<1>1. /\ f \in all /\ stack = <<>> /\ Call(stack, f) /\ UNCHANGED <<schema, ds, outcome>>
      /\ outcome = "running" /\ roots' = roots \ {f}
    BY DEF Root, IInv, TypeOK
<1>2. Sound(stack, seen \cup {f})
    BY DEF IInv, Sound
<1>3. /\ Sound(stack, seen)' /\ Accounted(stack, seen)'
      /\ stack' \in Seq(Frame) /\ seen' = seen \cup {f}
    BY <1>1, <1>2, CallStep DEF IInv
<1>4. TypeOK'
    BY <1>1, <1>3 DEF IInv, TypeOK, schema, Frame
<1>5. all \ roots' \subseteq seen'
    BY <1>1, <1>3 DEF IInv, Complete
<1>6. (Complete /\ Once /\ FailedForMissing /\ ImportsFirst)'
    BY <1>1, <1>3, <1>5, RestStep
<1> QED
    BY <1>3, <1>4, <1>6 DEF IInv

\* The stack once the innermost call has looked at an import.
LEMMA LookedAt ==
    ASSUME NEW s \in Seq(Frame), s # <<>>, NEW g
    PROVE  LET n == Len(s)
               t == [s EXCEPT ![n].left = @ \ {g}]
           IN  /\ t \in Seq(Frame) /\ Len(t) = n /\ n \in Nat /\ n \in 1..n
               /\ \A i \in 1..n : t[i].file = s[i].file
               /\ \A i \in 1..n : t[i].left = IF i = n THEN s[n].left \ {g} ELSE s[i].left
<1> DEFINE n == Len(s)
           t == [s EXCEPT ![n].left = @ \ {g}]
<1>1. n \in Nat /\ n \in 1..n
    OBVIOUS
<1>2. s \in [1..n -> Frame]
    BY <1>1
<1>3. t \in [1..n -> Frame]
    BY <1>1, <1>2 DEF Frame
<1>4. t \in Seq(Frame) /\ Len(t) = n
    BY <1>1, <1>3
<1> QED
    BY <1>1, <1>2, <1>4 DEF Frame

\* The innermost call comes to one of its imports.
LEMMA ImportStep ==
    ASSUME IInv, NEW g \in File, Import(g)
    PROVE  IInv'
<1> DEFINE n == Len(stack)
           s == [stack EXCEPT ![n].left = @ \ {g}]
<1>1. /\ stack # <<>> /\ stack \in Seq(Frame) /\ n \in Nat /\ n \in 1..n
      /\ g \in all /\ g \in stack[n].left
      /\ Call(s, g) /\ UNCHANGED <<schema, roots, ds, outcome>> /\ outcome = "running"
    BY DEF Import, Top, IInv, TypeOK
<1>2. /\ s \in Seq(Frame) /\ Len(s) = n
      /\ \A i \in 1..n : s[i].file = stack[i].file
      /\ \A i \in 1..n : s[i].left = IF i = n THEN stack[n].left \ {g} ELSE stack[i].left
    BY <1>1, LookedAt
<1>3. Sound(s, seen \cup {g})
    BY <1>1, <1>2 DEF IInv, Sound
<1>4. Accounted(s, seen)
    BY <1>1, <1>2 DEF IInv, Accounted
<1>5. g \in imports[s[Len(s)].file]
    BY <1>1, <1>2 DEF IInv, Sound
<1> HIDE DEF s
<1>6. /\ Sound(stack, seen)' /\ Accounted(stack, seen)'
      /\ stack' \in Seq(Frame) /\ seen' = seen \cup {g}
    BY <1>1, <1>3, <1>4, <1>5, CallStep DEF IInv
<1>7. TypeOK'
    BY <1>1, <1>6 DEF IInv, TypeOK, schema, Frame
<1>8. all \ roots' \subseteq seen'
    BY <1>1, <1>6 DEF IInv, Complete
<1>9. (Complete /\ Once /\ FailedForMissing /\ ImportsFirst)'
    BY <1>1, <1>6, <1>8, RestStep
<1> QED
    BY <1>6, <1>7, <1>9 DEF IInv

\* A stack without its innermost call.
LEMMA Shortened ==
    ASSUME NEW s \in Seq(Frame), s # <<>>
    PROVE  LET t == SubSeq(s, 1, Len(s) - 1)
           IN  /\ t \in Seq(Frame) /\ Len(t) = Len(s) - 1
               /\ \A i \in 1..(Len(s) - 1) : i \in 1..Len(t) /\ t[i] = s[i]
<1> DEFINE n == Len(s)
           t == SubSeq(s, 1, n - 1)
<1>1. n \in Nat /\ n >= 1
    OBVIOUS
<1>2. 1 \in Int /\ n - 1 \in Int /\ \A i \in 1..(n - 1) : s[i] \in Frame
    BY <1>1
<1>3. /\ t \in Seq(Frame)
      /\ Len(t) = IF 1 <= n - 1 THEN (n - 1) - 1 + 1 ELSE 0
      /\ \A i \in 1..(n - 1) - 1 + 1 : t[i] = s[1 + i - 1]
    BY <1>1, <1>2, SubSeqProperties
<1> HIDE DEF n
<1>4. Len(t) = n - 1
    BY <1>1, <1>3
<1>5. ASSUME NEW i \in 1..(n - 1) PROVE i \in 1..Len(t) /\ t[i] = s[i]
    <2>1. i \in 1..(n - 1) - 1 + 1 /\ 1 + i - 1 = i
        BY <1>1
    <2> QED
        BY <1>3, <1>4, <2>1
<1> QED
    BY <1>3, <1>4, <1>5 DEF n

\* The innermost call lists its file and returns.
LEMMA EmitStep ==
    ASSUME IInv, Emit
    PROVE  IInv'
<1> DEFINE n == Len(stack)
           f == stack[n].file
           m == Len(ds)
<1>1. /\ stack # <<>> /\ stack \in Seq(Frame) /\ n \in Nat /\ n \in 1..n
      /\ stack[n].left = {} /\ outcome = "running"
      /\ f \in all /\ f \in File
      /\ UNCHANGED <<schema, roots, seen, outcome>>
    BY DEF Emit, Top, IInv, TypeOK, Sound
<1>2. /\ stack' \in Seq(Frame) /\ Len(stack') = n - 1
      /\ \A i \in 1..(n - 1) : stack'[i] = stack[i]
    BY <1>1, Shortened DEF Emit
<1>3. /\ ds \in Seq(all) /\ m \in Nat /\ DOMAIN ds = 1..m
      /\ ds' \in Seq(all) /\ Len(ds') = m + 1 /\ DOMAIN ds' = 1..(m + 1)
      /\ \A i \in 1..m : ds'[i] = ds[i]
      /\ ds'[m + 1] = f
    BY <1>1 DEF Emit, Top, IInv, TypeOK
<1>4. Listed' = Listed \cup {f}
    BY <1>3 DEF Listed
<1>5. f \notin Listed
    BY <1>1 DEF IInv, Accounted
<1>6. imports[f] \subseteq seen
    BY <1>1 DEF IInv, Sound
<1>7. Rankings' = Rankings /\ all' = all /\ imports' = imports
    BY <1>1 DEF Rankings, schema
<1>8. TypeOK'
    BY <1>1, <1>2, <1>3, <1>7 DEF IInv, TypeOK, Frame
<1>9. Sound(stack, seen)'
    <2>1. Sound(stack, seen) /\ seen' = seen
        BY <1>1 DEF IInv
    <2>2. \A i \in 1..(n - 1) : i \in 1..n
        BY <1>1
    <2> HIDE DEF n
    <2>3. \A i \in 1..Len(stack') : i \in 1..Len(stack) /\ stack'[i] = stack[i]
        BY <1>2, <2>2 DEF n
    <2> QED
        BY <1>2, <1>7, <2>1, <2>3 DEF Sound
<1>10. Accounted(stack, seen)'
    <2>1. ASSUME NEW g \in File
          PROVE  g \in seen' <=> g \in Listed' \/ \E i \in 1..Len(stack') : stack'[i].file = g
        BY <1>1, <1>2, <1>4 DEF IInv, Accounted, Sound
    <2>2. ASSUME NEW i \in 1..Len(stack') PROVE stack'[i].file \notin Listed'
        BY <1>1, <1>2, <1>4 DEF IInv, Accounted, Sound
    <2> QED
        BY <2>1, <2>2 DEF Accounted
<1>11. Complete'
    <2>1. ASSUME NEW i \in 1..Len(ds') PROVE imports[ds'[i]] \subseteq seen
        <3>1. CASE i = m + 1
            BY <1>3, <1>6, <3>1
        <3>2. CASE i # m + 1
            BY <1>3, <3>2 DEF IInv, Complete
        <3> QED
            BY <3>1, <3>2
    <2> QED
        BY <1>1, <1>7, <2>1 DEF IInv, Complete
<1>12. Once'
    BY <1>3, <1>5 DEF IInv, Once, Listed
<1>13. FailedForMissing'
    BY <1>1 DEF FailedForMissing
<1>14. ImportsFirst'
    <2> SUFFICES ASSUME NEW rank \in Rankings, NEW i \in 1..(m + 1)
                 PROVE  imports[ds'[i]] \subseteq {ds'[j] : j \in 1..i-1}
        BY <1>3, <1>7 DEF ImportsFirst
    <2>1. CASE i # m + 1
        <3>1. i \in 1..m /\ ds'[i] = ds[i]
            BY <1>3, <2>1
        <3>2. imports[ds[i]] \subseteq {ds[j] : j \in 1..i-1}
            BY <1>3, <3>1 DEF IInv, ImportsFirst
        <3>3. \A j \in 1..i-1 : ds'[j] = ds[j]
            BY <1>3, <3>1
        <3> QED
            BY <3>1, <3>2, <3>3
    <2>2. CASE i = m + 1
        <3>1. ASSUME NEW g \in imports[f] PROVE g \in Listed
            <4>1. g \in seen /\ g \in File /\ rank[g] < rank[f]
                BY <1>1, <1>6, RankType DEF IInv, TypeOK
            <4>2. ASSUME NEW k \in 1..n, stack[k].file = g PROVE FALSE
                <5>1. rank[f] \in Int /\ rank[g] \in Int
                    BY <1>1, <4>1, RankType
                <5>2. k # n => rank[f] < rank[g]
                    BY <1>1, <4>2 DEF IInv, Sound
                <5> QED
                    BY <1>1, <4>1, <4>2, <5>1, <5>2
            <4> QED
                BY <4>1, <4>2 DEF IInv, Accounted
        <3>2. \A j \in 1..m : ds'[j] = ds[j]
            BY <1>3
        <3> QED
            BY <1>3, <2>2, <3>1, <3>2 DEF Listed
    <2> QED
        BY <2>1, <2>2
<1> QED
    BY <1>8, <1>9, <1>10, <1>11, <1>12, <1>13, <1>14 DEF IInv

\* The end of the sort changes only its outcome.
LEMMA OutcomeStep ==
    ASSUME IInv, UNCHANGED <<schema, roots, stack, seen, ds>>,
           outcome' \in {"running", "failed", "done"},
           outcome' = "done" => stack = <<>> /\ roots = {},
           outcome' = "failed" => \E f \in all : ~(imports[f] \subseteq all)
    PROVE  IInv'
<1>1. TypeOK'
    BY DEF IInv, TypeOK, schema, Frame
<1>2. Rankings' = Rankings /\ Listed' = Listed
    BY DEF Rankings, Listed, schema
<1>3. Sound(stack, seen)' /\ Accounted(stack, seen)'
    BY <1>2 DEF IInv, Sound, Accounted, schema
<1>4. (Complete /\ Once /\ FailedForMissing /\ ImportsFirst)'
    BY <1>2 DEF IInv, Complete, Once, FailedForMissing, ImportsFirst, schema
<1> QED
    BY <1>1, <1>3, <1>4 DEF IInv

\* Every step keeps the invariant.
LEMMA StepIInv == IInv /\ [Next]_vars => IInv'
<1> SUFFICES ASSUME IInv, [Next]_vars PROVE IInv'
    OBVIOUS
<1>1. ASSUME NEW f \in File, Root(f) PROVE IInv'
    BY <1>1, RootStep
<1>2. ASSUME NEW g \in File, Import(g) PROVE IInv'
    BY <1>2, ImportStep
<1>3. ASSUME NEW g \in File, ImportMissing(g) PROVE IInv'
    <2>1. \E f \in all : ~(imports[f] \subseteq all)
        <3>1. /\ Len(stack) \in 1..Len(stack) /\ g \in stack[Len(stack)].left \ all
            BY <1>3 DEF ImportMissing, Top, IInv, TypeOK
        <3> QED
            BY <3>1 DEF IInv, Sound
    <2> QED
        BY <1>3, <2>1, OutcomeStep DEF ImportMissing
<1>4. CASE Emit
    BY <1>4, EmitStep
<1>5. CASE Finish
    BY <1>5, OutcomeStep DEF Finish
<1>6. CASE UNCHANGED vars
    BY <1>6, OutcomeStep DEF vars, IInv, TypeOK, Complete, FailedForMissing
<1> QED
    BY <1>1, <1>2, <1>3, <1>4, <1>5, <1>6 DEF Next

\* IInv holds in every reachable state.
LEMMA Invariance == Spec => []IInv
<1> QED
    BY InitIInv, StepIInv, PTL DEF Spec

-----------------------------------------------------------------------------
\* Every variable of the sort keeps its type.
THEOREM TypeCorrect == Spec => []TypeOK
<1>1. IInv => TypeOK
    BY DEF IInv
<1> QED
    BY <1>1, Invariance, PTL

\* Whatever the order of the map, a file is listed after all it imports.
THEOREM ImportsFirstCorrect == Spec => []ImportsFirst
<1>1. IInv => ImportsFirst
    BY DEF IInv
<1> QED
    BY <1>1, Invariance, PTL

\* When the sort is done, what is listed is what was gathered.
LEMMA DoneListsAll ==
    ASSUME IInv, outcome = "done"
    PROVE  Listed = all /\ seen = all
<1>1. stack = <<>> /\ all \subseteq seen
    BY DEF IInv, Complete
<1>2. Len(stack) = 0
    BY <1>1
<1>3. seen = all /\ all \subseteq File
    BY <1>1 DEF IInv, TypeOK
<1>4. Listed \subseteq all
    BY DEF IInv, TypeOK, Listed
<1> QED
    BY <1>2, <1>3, <1>4 DEF IInv, Accounted

\* The list holds every file once.
THEOREM EachFileOnceCorrect == Spec => []EachFileOnce
<1>1. IInv => EachFileOnce
    BY DoneListsAll DEF IInv, Once, EachFileOnce, Listed
<1> QED
    BY <1>1, Invariance, PTL

\* The sort fails when an import is missing, and then only.
THEOREM FailsForMissingCorrect == Spec => []FailsForMissing
<1>1. ASSUME IInv, outcome = "done" PROVE \A f \in all : imports[f] \subseteq all
    <2>1. Listed = all /\ seen = all
        BY <1>1, DoneListsAll
    <2> QED
        BY <1>1, <2>1 DEF IInv, TypeOK, Complete, Listed
<1>2. IInv => FailsForMissing
    BY <1>1 DEF IInv, FailedForMissing, FailsForMissing
<1> QED
    BY <1>2, Invariance, PTL

-----------------------------------------------------------------------------
\* What the sort has yet to do. A file is in it from the start, and stays in it
\* until the file is listed; an import, until the loop of its file has come to it.
Unlisted == all \ Listed

Unlooked ==
    {e \in File \X File :
        /\ e[1] \in Unlisted /\ e[2] \in imports[e[1]]
        /\ \A i \in 1..Len(stack) : stack[i].file = e[1] => e[2] \in stack[i].left}

\* A bound on the steps that are left.
StepsLeft ==
    Cardinality(roots) + Cardinality(Unlooked) + Cardinality(Unlisted)
        + IF outcome = "running" THEN 1 ELSE 0

\* There are finitely many files, and so there is finitely much to do.
LEMMA WorkFinite ==
    ASSUME TypeOK
    PROVE  IsFiniteSet(roots) /\ IsFiniteSet(Unlooked) /\ IsFiniteSet(Unlisted)
<1>1. IsFiniteSet(File) /\ IsFiniteSet(File \X File)
    BY FileAssumption, FS_Product
<1>2. roots \in SUBSET File /\ Unlisted \in SUBSET File /\ Unlooked \in SUBSET (File \X File)
    BY DEF TypeOK, Unlisted, Unlooked
<1> QED
    BY <1>1, <1>2, FS_Subset

\* A set that loses a member has fewer of them.
LEMMA Fewer ==
    ASSUME NEW S, IsFiniteSet(S), NEW T \in SUBSET S
    PROVE  /\ Cardinality(T) \in Nat /\ Cardinality(S) \in Nat
           /\ Cardinality(T) <= Cardinality(S)
           /\ T # S => Cardinality(T) < Cardinality(S)
<1>1. IsFiniteSet(T) /\ Cardinality(T) <= Cardinality(S)
      /\ (Cardinality(S) = Cardinality(T) => S = T)
    BY FS_Subset
<1>2. Cardinality(T) \in Nat /\ Cardinality(S) \in Nat
    BY <1>1, FS_CardinalityType
<1> QED
    BY <1>1, <1>2

\* Work is only ever done, and one piece of it by a step.
LEMMA LessWork ==
    ASSUME TypeOK, TypeOK',
           roots' \subseteq roots, Unlooked' \subseteq Unlooked, Unlisted' \subseteq Unlisted,
           outcome = "running",
           \/ roots' # roots \/ Unlooked' # Unlooked \/ Unlisted' # Unlisted
           \/ outcome' # "running"
    PROVE  StepsLeft' < StepsLeft
<1> DEFINE r == Cardinality(roots)
           l == Cardinality(Unlooked)
           u == Cardinality(Unlisted)
           b == IF outcome = "running" THEN 1 ELSE 0
<1>1. /\ r \in Nat /\ r' \in Nat /\ r' <= r /\ (roots' # roots => r' < r)
      /\ l \in Nat /\ l' \in Nat /\ l' <= l /\ (Unlooked' # Unlooked => l' < l)
      /\ u \in Nat /\ u' \in Nat /\ u' <= u /\ (Unlisted' # Unlisted => u' < u)
    BY WorkFinite, Fewer
<1>2. b = 1 /\ b' \in {0, 1} /\ (outcome' # "running" => b' = 0)
    OBVIOUS
<1>3. r' < r \/ l' < l \/ u' < u \/ b' < b
    BY <1>1, <1>2
<1>4. StepsLeft = r + l + u + b /\ StepsLeft' = r' + l' + u' + b'
    BY DEF StepsLeft
<1>5. ASSUME NEW r1 \in Nat, NEW r2 \in Nat, r2 <= r1, NEW l1 \in Nat, NEW l2 \in Nat, l2 <= l1,
             NEW u1 \in Nat, NEW u2 \in Nat, u2 <= u1, NEW b1 \in Nat, NEW b2 \in Nat, b2 <= b1,
             r2 < r1 \/ l2 < l1 \/ u2 < u1 \/ b2 < b1
      PROVE  r2 + l2 + u2 + b2 < r1 + l1 + u1 + b1
    BY <1>5
<1>6. b \in Nat /\ b' \in Nat /\ b' <= b
    BY <1>2
<1> HIDE DEF r, l, u, b
<1>7. r' + l' + u' + b' < r + l + u + b
    BY <1>1, <1>3, <1>5, <1>6
<1> QED
    BY <1>4, <1>7

\* An import that a loop has come to stays so while the calls for files that are
\* not listed go on.
LEMMA LooksStay ==
    ASSUME UNCHANGED schema, Unlisted' \subseteq Unlisted,
           \A i \in 1..Len(stack) : stack[i].file \in Unlisted' =>
               \E j \in 1..Len(stack') :
                   stack'[j].file = stack[i].file /\ stack'[j].left \subseteq stack[i].left
    PROVE  Unlooked' \subseteq Unlooked
<1> SUFFICES ASSUME NEW e \in Unlooked' PROVE e \in Unlooked
    OBVIOUS
<1>1. /\ e \in File \X File /\ e[1] \in Unlisted' /\ e[2] \in imports[e[1]]
      /\ \A i \in 1..Len(stack') : stack'[i].file = e[1] => e[2] \in stack'[i].left
    BY DEF Unlooked, schema
<1>2. ASSUME NEW i \in 1..Len(stack), stack[i].file = e[1] PROVE e[2] \in stack[i].left
    BY <1>1, <1>2
<1> QED
    BY <1>1, <1>2 DEF Unlooked

\* One lemma for each kind of step: it leaves fewer.
LEMMA RootWorks ==
    ASSUME IInv, NEW f \in File, Root(f)
    PROVE  StepsLeft' < StepsLeft
<1>1. /\ f \in roots /\ roots' = roots \ {f} /\ stack = <<>> /\ outcome = "running"
      /\ UNCHANGED <<schema, ds>>
    BY DEF Root
<1>2. Unlisted' = Unlisted
    BY <1>1 DEF Unlisted, Listed, schema
<1>3. Unlooked' \subseteq Unlooked
    BY <1>1, <1>2, LooksStay
<1>4. TypeOK /\ TypeOK'
    BY RootStep DEF IInv
<1> QED
    BY <1>1, <1>2, <1>3, <1>4, LessWork

LEMMA ImportWorks ==
    ASSUME IInv, NEW g \in File, Import(g)
    PROVE  StepsLeft' < StepsLeft
<1> DEFINE n == Len(stack)
           s == [stack EXCEPT ![n].left = @ \ {g}]
           f == stack[n].file
<1>1. /\ stack # <<>> /\ stack \in Seq(Frame) /\ n \in Nat /\ n \in 1..n
      /\ g \in stack[n].left /\ Call(s, g)
      /\ UNCHANGED <<schema, roots, ds, outcome>> /\ outcome = "running"
    BY DEF Import, Top, IInv, TypeOK
<1>2. /\ Len(s) = n /\ s \in Seq(Frame)
      /\ \A i \in 1..n : s[i].file = stack[i].file
      /\ \A i \in 1..n : s[i].left = IF i = n THEN stack[n].left \ {g} ELSE stack[i].left
    BY <1>1, LookedAt
<1>3. Unlisted' = Unlisted
    BY <1>1 DEF Unlisted, Listed, schema
<1> HIDE DEF s
<1>4. \A i \in 1..n : i \in 1..Len(stack') /\ stack'[i] = s[i]
    <2>1. CASE g \in seen
        <3>1. stack' = s
            BY <1>1, <2>1 DEF Call
        <3> QED
            BY <1>2, <3>1
    <2>2. CASE g \notin seen
        <3>1. stack' = Append(s, [file |-> g, left |-> imports[g]])
            BY <1>1, <2>2 DEF Call, Push
        <3>2. [file |-> g, left |-> imports[g]] \in Frame
            BY DEF IInv, TypeOK, Frame
        <3> QED
            BY <1>1, <1>2, <3>1, <3>2
    <2> QED
        BY <2>1, <2>2
<1>5. Unlooked' \subseteq Unlooked
    <2>1. ASSUME NEW i \in 1..n
          PROVE  stack'[i].file = stack[i].file /\ stack'[i].left \subseteq stack[i].left
        BY <1>2, <1>4
    <2> HIDE DEF f
    <2> QED
        BY <1>1, <1>3, <1>4, <2>1, LooksStay
<1>6. <<f, g>> \in Unlooked
    <2>1. f \in all /\ f \notin Listed /\ g \in imports[f] /\ f \in File
        BY <1>1 DEF IInv, Sound, Accounted, TypeOK
    <2>2. \A i \in 1..n : stack[i].file = f => i = n
        BY <1>1 DEF IInv, Sound
    <2> HIDE DEF f
    <2> QED
        BY <1>1, <2>1, <2>2 DEF Unlooked, Unlisted
<1>7. <<f, g>> \notin Unlooked'
    <2>1. n \in 1..Len(stack') /\ stack'[n].file = f /\ g \notin stack'[n].left
        BY <1>1, <1>2, <1>4
    <2> HIDE DEF f, n
    <2> QED
        BY <2>1 DEF Unlooked
<1>8. TypeOK /\ TypeOK'
    BY ImportStep DEF IInv
<1> QED
    BY <1>1, <1>3, <1>5, <1>6, <1>7, <1>8, LessWork

LEMMA EndWorks ==
    ASSUME IInv, UNCHANGED <<schema, roots, stack, seen, ds>>,
           outcome = "running", outcome' \in {"failed", "done"}
    PROVE  StepsLeft' < StepsLeft
<1>1. TypeOK /\ TypeOK'
    BY DEF IInv, TypeOK, schema, Frame
<1>2. Unlisted' = Unlisted /\ Unlooked' = Unlooked
    BY DEF Unlisted, Unlooked, Listed, schema
<1> QED
    BY <1>1, <1>2, LessWork

LEMMA EmitWorks ==
    ASSUME IInv, Emit
    PROVE  StepsLeft' < StepsLeft
<1> DEFINE n == Len(stack)
           f == stack[n].file
           m == Len(ds)
<1>1. /\ stack # <<>> /\ stack \in Seq(Frame) /\ n \in Nat /\ n \in 1..n
      /\ f \in all /\ f \notin Listed /\ outcome = "running"
      /\ UNCHANGED <<schema, roots, seen, outcome>>
    BY DEF Emit, Top, IInv, TypeOK, Sound, Accounted
<1>2. Listed' = Listed \cup {f}
    <2>1. /\ ds \in Seq(all) /\ m \in Nat /\ DOMAIN ds = 1..m
          /\ Len(ds') = m + 1 /\ DOMAIN ds' = 1..(m + 1)
          /\ \A i \in 1..m : ds'[i] = ds[i]
          /\ ds'[m + 1] = f
        BY <1>1 DEF Emit, Top, IInv, TypeOK
    <2> QED
        BY <2>1 DEF Listed
<1>3. Unlisted' = Unlisted \ {f} /\ f \in Unlisted
    BY <1>1, <1>2 DEF Unlisted, schema
<1>4. ASSUME NEW i \in 1..n, stack[i].file \in Unlisted'
      PROVE  i \in 1..Len(stack') /\ stack'[i] = stack[i]
    <2>1. i \in 1..(n - 1)
        BY <1>1, <1>3, <1>4
    <2>2. stack' = SubSeq(stack, 1, n - 1)
        BY DEF Emit
    <2> HIDE DEF n
    <2> QED
        BY <1>1, <2>1, <2>2, Shortened DEF n
<1>5. Unlooked' \subseteq Unlooked
    <2> HIDE DEF f
    <2> QED
        BY <1>1, <1>3, <1>4, LooksStay
<1>6. TypeOK /\ TypeOK'
    BY EmitStep DEF IInv
<1> QED
    BY <1>1, <1>3, <1>5, <1>6, LessWork

\* Each step of the sort leaves fewer to do than there were, whatever the imports are:
\* a cycle of them cannot keep it going.
THEOREM EveryStepCounts == Spec => [](StepsLeft \in Nat) /\ [][StepsLeft' < StepsLeft]_vars
<1>1. IInv => StepsLeft \in Nat
    <2> SUFFICES ASSUME IInv PROVE StepsLeft \in Nat
        OBVIOUS
    <2>1. /\ Cardinality(roots) \in Nat /\ Cardinality(Unlooked) \in Nat
          /\ Cardinality(Unlisted) \in Nat
        BY WorkFinite, Fewer DEF IInv
    <2> QED
        BY <2>1 DEF StepsLeft
<1>2. IInv /\ [Next]_vars => [StepsLeft' < StepsLeft]_vars
    <2> SUFFICES ASSUME IInv, Next PROVE StepsLeft' < StepsLeft
        OBVIOUS
    <2>1. ASSUME NEW f \in File, ImportMissing(f) PROVE StepsLeft' < StepsLeft
        BY <2>1, EndWorks DEF ImportMissing
    <2>2. CASE Finish
        BY <2>2, EndWorks DEF Finish
    <2> QED
        BY <2>1, <2>2, RootWorks, ImportWorks, EmitWorks DEF Next
<1> QED
    BY <1>1, <1>2, Invariance, PTL DEF Spec
=============================================================================
