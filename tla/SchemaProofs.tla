---------------------------- MODULE SchemaProofs ----------------------------
(***************************************************************************)
(* The properties of MessageSchema, proved for any message types and any   *)
(* size of the stack, and those of FieldSchema, proved for any fields,     *)
(* widths and limits.                                                      *)
(***************************************************************************)
EXTENDS MessageSchema, FieldSchema, FiniteSetTheorems, TLAPS

\* A call sits that much lower in every ranking as it is deep in the stack.
Descending ==
    \A rank \in Rankings : \A i \in 1..Len(stack) :
        rank[stack[i].msg] + i <= Cardinality(Message) + 1

\* The stack is filled in a recursion only, or when it had no room to begin with.
FilledForAReason ==
    outcome = "crashed" => \A rank \in Rankings : StackLimit < Cardinality(Message)

\* A field that is demanded and not listed is one that some call waits at.
DemandsPending ==
    \A p \in required :
        \/ \E e \in accepts : e.at = p /\ e.name = "proto"
        \/ \E i \in 1..Len(stack)-1 : p = Here(stack[i])

\* The schema is done when every call has returned.
DoneIsEmpty == outcome = "schema" => stack = <<>>

IInv ==
    /\ TypeOK
    /\ Descending
    /\ FilledForAReason
    /\ DemandsPending
    /\ DoneIsEmpty

-----------------------------------------------------------------------------
\* Going on to the next field changes nothing else of the calls.
LEMMA AdvanceFacts ==
    ASSUME NEW calls \in Seq(Frame), calls # <<>>
    PROVE  /\ Advance(calls) \in Seq(Frame)
           /\ Len(Advance(calls)) = Len(calls)
           /\ \A i \in 1..Len(calls) : Advance(calls)[i].msg = calls[i].msg
           /\ \A i \in 1..Len(calls)-1 : Advance(calls)[i] = calls[i]
<1>0. Len(calls) \in Nat
    OBVIOUS
<1>1. Len(calls) \in DOMAIN calls /\ DOMAIN calls = 1..Len(calls)
    OBVIOUS
<1>2. calls[Len(calls)] \in Frame
    BY <1>1
<1>3. [calls[Len(calls)] EXCEPT !.next = @ + 1] \in Frame
    BY <1>2 DEF Frame
<1>4. Advance(calls) = [calls EXCEPT ![Len(calls)] = [calls[Len(calls)] EXCEPT !.next = @ + 1]]
    BY <1>1 DEF Advance
<1>5. Advance(calls) \in Seq(Frame) /\ Len(Advance(calls)) = Len(calls)
    BY <1>1, <1>3, <1>4
<1>6. \A i \in 1..Len(calls) : i # Len(calls) => Advance(calls)[i] = calls[i]
    BY <1>1, <1>4
<1>7. Advance(calls)[Len(calls)].msg = calls[Len(calls)].msg
    BY <1>1, <1>2, <1>4 DEF Frame
<1>8. ASSUME NEW i \in 1..Len(calls)
      PROVE  Advance(calls)[i].msg = calls[i].msg
    <2>1. CASE i = Len(calls)
        BY <1>7, <2>1
    <2>2. CASE i # Len(calls)
        <3>1. Advance(calls)[i] = calls[i]
            BY <1>6, <2>2
        <3> QED
            BY <3>1
    <2> QED
        BY <2>1, <2>2
<1>9. ASSUME NEW i \in 1..Len(calls)-1
      PROVE  Advance(calls)[i] = calls[i]
    <2>1. i \in 1..Len(calls) /\ i # Len(calls)
        BY <1>0
    <2> QED
        BY <1>6, <2>1
<1> QED
    BY <1>5, <1>8, <1>9

\* The innermost call, and the field it has come to.
LEMMA TopFacts ==
    ASSUME TypeOK, stack # <<>>
    PROVE  /\ Len(stack) \in Nat \ {0}
           /\ Top = stack[Len(stack)]
           /\ Top \in Frame
           /\ Top.msg \in Message
           /\ Here(Top) \in Path
           /\ Top.next \in DOMAIN fields[Top.msg] => Field(Top) \in FieldDecl
           /\ Below \in Seq(Frame)
           /\ Len(Below) = Len(stack) - 1
           /\ \A i \in 1..Len(stack)-1 : Below[i] = stack[i]
<1>1. Len(stack) \in Nat \ {0} /\ stack \in Seq(Frame) /\ Top \in Frame
    BY DEF TypeOK, Top
<1>2. Top.msg \in Message /\ Here(Top) \in Path
    BY <1>1 DEF Frame, Here, Path
<1>3. fields[Top.msg] \in Seq(FieldDecl)
    BY <1>2, DeclarationsAssumption DEF TypeOK
<1>4. Top.next \in DOMAIN fields[Top.msg] => Field(Top) \in FieldDecl
    BY <1>3 DEF Field
<1>5. /\ Below \in Seq(Frame)
      /\ Len(Below) = Len(stack) - 1
      /\ \A i \in 1..Len(stack)-1 : Below[i] = stack[i]
    <2> DEFINE n == Len(stack) - 1
    <2>1. n \in Nat /\ 1 - 1 + n = n /\ 1..n \subseteq 1..Len(stack)
        BY <1>1
    <2>2. Below = SubSeq(stack, 1, n)
        BY DEF Below
    <2>3. \A i \in 1..n : stack[i] \in Frame
        BY <1>1, <2>1
    <2>4. Below \in Seq(Frame) /\ Len(Below) = n
        BY <1>1, <2>1, <2>2, <2>3
    <2>5. \A i \in 1..n : Below[i] = stack[i]
        BY <1>1, <2>1, <2>2
    <2> QED
        BY <2>4, <2>5
<1> QED
    BY <1>1, <1>2, <1>4, <1>5 DEF Top

\* The names of a field are names, and its proto name is among them.
LEMMA NamesFacts ==
    ASSUME NEW frame \in Frame
    PROVE  /\ Names(frame) \subseteq Name
           /\ \E e \in Names(frame) : e.at = Here(frame) /\ e.name = "proto"
<1>1. Here(frame) \in Path
    BY DEF Frame, Here, Path
<1>2. Names(frame) \subseteq Name
    BY <1>1 DEF Names, Entry, Name
<1>3. \E in \in {"properties", "patternProperties"} : Entry(frame, "proto", in) \in Names(frame)
    BY DEF Names
<1> QED
    BY <1>2, <1>3 DEF Entry

-----------------------------------------------------------------------------
LEMMA TypeInit == Init => TypeOK
    BY DEF Init, TypeOK

LEMMA TypeStep == TypeOK /\ [Next]_vars => TypeOK'
<1> SUFFICES ASSUME TypeOK, [Next]_vars
             PROVE  TypeOK'
    OBVIOUS
<1>1. CASE Generate
    <2>1. Call(root, <<>>) \in Frame
        BY DEF TypeOK, Call, Frame, Path
    <2>2. <<Call(root, <<>>)>> \in Seq(Frame)
        BY <2>1
    <2> QED
        BY <1>1, <2>2 DEF TypeOK, Generate, input
<1>2. CASE Ignore
    BY <1>2, AdvanceFacts DEF TypeOK, Ignore, AtField, input
<1>3. CASE Unreadable
    BY <1>3 DEF TypeOK, Unreadable, input
<1>4. CASE AddScalar
    <2>1. stack # <<>> /\ stack \in Seq(Frame)
        BY <1>4 DEF AddScalar, Readable, AtField, TypeOK
    <2>2. Advance(stack) \in Seq(Frame) /\ Names(Top) \subseteq Name /\ Demands(Top) \subseteq Path
        BY <2>1, AdvanceFacts, NamesFacts, TopFacts DEF Demands
    <2> QED
        BY <1>4, <2>2 DEF TypeOK, AddScalar, input
<1>5. CASE Descend
    <2>1. stack # <<>>
        BY <1>5 DEF Descend, Readable, AtField
    <2>2. Call(Field(Top).of, Here(Top)) \in Frame /\ Demands(Top) \subseteq Path
        BY <1>5, <2>1, TopFacts DEF Descend, Call, Frame, Demands
    <2> QED
        BY <1>5, <2>2 DEF TypeOK, Descend, input
<1>6. CASE Return
    <2>1. stack # <<>> /\ stack \in Seq(Frame)
        BY <1>6 DEF Return, TypeOK
    <2>2. Below \in Seq(Frame) /\ Len(stack) \in Nat \ {0} /\ Len(Below) = Len(stack) - 1
        BY <2>1, TopFacts
    <2>3. CASE Len(stack) = 1
        BY <1>6, <2>2, <2>3 DEF TypeOK, Return, input
    <2>4. CASE Len(stack) # 1
        <3>1. Below # <<>> /\ stack[Len(stack) - 1] \in Frame
            BY <2>1, <2>2, <2>4
        <3>2. Advance(Below) \in Seq(Frame) /\ Names(stack[Len(stack) - 1]) \subseteq Name
            BY <2>2, <3>1, AdvanceFacts, NamesFacts
        <3> QED
            BY <1>6, <2>4, <3>2 DEF TypeOK, Return, input
    <2> QED
        BY <2>3, <2>4
<1>7. CASE UNCHANGED vars
    BY <1>7 DEF TypeOK, vars, input
<1> QED
    BY <1>1, <1>2, <1>3, <1>4, <1>5, <1>6, <1>7 DEF Next

\* Every variable has its type, for any message types and any stack.
THEOREM TypeCorrect == Spec => []TypeOK
<1> QED
    BY TypeInit, TypeStep, PTL DEF Spec

-----------------------------------------------------------------------------
\* A step leaves the message types alone, so each ranking stays one.
LEMMA SameInput ==
    ASSUME [Next]_vars
    PROVE  UNCHANGED <<input, Rankings>>
<1>1. UNCHANGED input
    BY DEF Next, vars, Generate, Ignore, Unreadable, AddScalar, Descend, Return
<1> QED
    BY <1>1 DEF input, Rankings

\* A ranking gives numbers, and a smaller one to the type of a field.
LEMMA RankFacts ==
    ASSUME NEW rank \in Rankings
    PROVE  /\ \A m \in Message : rank[m] \in 1..Cardinality(Message)
           /\ \A m \in Message : \A i \in DOMAIN fields[m] :
                fields[m][i].of \in Message /\ fields[m][i].visibility # "FieldIgnore"
                    => rank[fields[m][i].of] < rank[m]
           /\ Cardinality(Message) \in Nat
<1>1. rank \in [Message -> 1..Cardinality(Message)]
    BY DEF Rankings
<1>2. \A m \in Message : \A i \in DOMAIN fields[m] :
        fields[m][i].of \in Message /\ fields[m][i].visibility # "FieldIgnore"
            => rank[fields[m][i].of] < rank[m]
    BY DEF Rankings
<1>3. Cardinality(Message) \in Nat
    BY MessageAssumption, FS_CardinalityType
<1> QED
    BY <1>1, <1>2, <1>3

\* A call that the innermost one makes ranks below it.
LEMMA DescendRank ==
    ASSUME TypeOK, Descending, Descend, NEW rank \in Rankings
    PROVE  /\ Field(Top).of \in Message
           /\ rank[Field(Top).of] \in 1..Cardinality(Message)
           /\ rank[Field(Top).of] + Len(stack) + 1 <= Cardinality(Message) + 1
<1>1. stack # <<>> /\ Top.next \in DOMAIN fields[Top.msg]
      /\ Field(Top).visibility # "FieldIgnore" /\ Field(Top).of \in Message
    BY DEF Descend, Readable, AtField
<1>2. Top.msg \in Message /\ Len(stack) \in Nat \ {0} /\ Top = stack[Len(stack)]
    BY <1>1, TopFacts
<1>3. rank[Top.msg] + Len(stack) <= Cardinality(Message) + 1
    BY <1>2 DEF Descending
<1>4. rank[Field(Top).of] < rank[Top.msg]
    BY <1>1, <1>2, RankFacts DEF Field
<1>5. /\ rank[Field(Top).of] \in 1..Cardinality(Message)
      /\ rank[Top.msg] \in 1..Cardinality(Message)
      /\ Cardinality(Message) \in Nat
    BY <1>1, <1>2, RankFacts
<1> QED
    BY <1>1, <1>2, <1>3, <1>4, <1>5

LEMMA DescendingStep == TypeOK /\ Descending /\ [Next]_vars => Descending'
<1> SUFFICES ASSUME TypeOK, Descending, [Next]_vars, NEW rank \in Rankings,
                    NEW i \in 1..Len(stack')
             PROVE  rank[stack'[i].msg] + i <= Cardinality(Message) + 1
    BY SameInput DEF Descending
<1>1. CASE Generate
    <2>1. stack = <<>>
        BY <1>1 DEF Generate
    <2>2. CASE root \in WellKnown
        BY <1>1, <2>1, <2>2 DEF Generate
    <2>3. CASE root \notin WellKnown
        <3>0. stack' = <<[msg |-> root, at |-> <<>>, next |-> 1]>>
            BY <1>1, <2>3 DEF Generate, Call
        <3>1. i = 1 /\ stack'[i].msg = root
            BY <3>0
        <3>2. rank[root] \in 1..Cardinality(Message) /\ Cardinality(Message) \in Nat
            BY RankFacts DEF TypeOK
        <3> QED
            BY <3>1, <3>2
    <2> QED
        BY <2>2, <2>3
<1>2. CASE Ignore \/ AddScalar
    <2>1. stack # <<>> /\ stack \in Seq(Frame) /\ stack' = Advance(stack)
        BY <1>2 DEF Ignore, AddScalar, Readable, AtField, TypeOK
    <2> QED
        BY <2>1, AdvanceFacts DEF Descending
<1>3. CASE Unreadable \/ UNCHANGED vars
    BY <1>3 DEF Unreadable, vars, Descending
<1>4. CASE Descend
    <2>1. stack \in Seq(Frame)
        BY DEF TypeOK
    <2>2. CASE Len(stack) = StackLimit
        BY <1>4, <2>2 DEF Descend, Descending
    <2>3. CASE Len(stack) # StackLimit
        <3>1. stack' = Append(stack, Call(Field(Top).of, Here(Top)))
            BY <1>4, <2>3 DEF Descend
        <3>2. CASE i = Len(stack) + 1
            <4>1. stack'[i].msg = Field(Top).of
                BY <2>1, <3>1, <3>2 DEF Call
            <4>2. /\ rank[Field(Top).of] \in 1..Cardinality(Message)
                  /\ rank[Field(Top).of] + Len(stack) + 1 <= Cardinality(Message) + 1
                BY <1>4, DescendRank
            <4>3. Len(stack) \in Nat /\ Cardinality(Message) \in Nat
                BY <2>1, RankFacts
            <4> QED
                BY <3>2, <4>1, <4>2, <4>3
        <3>3. CASE i # Len(stack) + 1
            BY <2>1, <3>1, <3>3 DEF Descending
        <3> QED
            BY <3>2, <3>3
    <2> QED
        BY <2>2, <2>3
<1>5. CASE Return
    <2>1. stack # <<>>
        BY <1>5 DEF Return
    <2>2. /\ Below \in Seq(Frame)
          /\ Len(stack) \in Nat \ {0}
          /\ Len(Below) = Len(stack) - 1
          /\ \A j \in 1..Len(stack)-1 : Below[j] = stack[j]
        BY <2>1, TopFacts
    <2>3. CASE Len(stack) = 1
        BY <1>5, <2>2, <2>3 DEF Return
    <2>4. CASE Len(stack) # 1
        <3>1. stack' = Advance(Below) /\ Below # <<>>
            BY <1>5, <2>2, <2>4 DEF Return
        <3>2. i \in 1..Len(Below) /\ stack'[i].msg = Below[i].msg
            BY <2>2, <3>1, AdvanceFacts
        <3> QED
            BY <2>2, <3>2 DEF Descending
    <2> QED
        BY <2>3, <2>4
<1> QED
    BY <1>1, <1>2, <1>3, <1>4, <1>5 DEF Next

LEMMA FilledStep ==
    TypeOK /\ Descending /\ FilledForAReason /\ [Next]_vars => FilledForAReason'
<1> SUFFICES ASSUME TypeOK, Descending, FilledForAReason, [Next]_vars,
                    outcome' = "crashed", NEW rank \in Rankings
             PROVE  StackLimit < Cardinality(Message)
    BY SameInput DEF FilledForAReason
<1>1. CASE outcome = "crashed"
    BY <1>1 DEF FilledForAReason
<1>2. CASE outcome # "crashed"
    <2>1. Descend
        BY <1>2 DEF Next, vars, Generate, Ignore, Unreadable, AddScalar, Return
    <2>2. Len(stack) = StackLimit
        BY <1>2, <2>1 DEF Descend
    <2> QED
        BY <2>1, <2>2, DescendRank, RankFacts, StackLimitAssumption
<1> QED
    BY <1>1, <1>2

LEMMA DemandsStep ==
    TypeOK /\ DemandsPending /\ DoneIsEmpty /\ [Next]_vars => DemandsPending' /\ DoneIsEmpty'
<1> SUFFICES ASSUME TypeOK, DemandsPending, DoneIsEmpty, [Next]_vars
             PROVE  DemandsPending' /\ DoneIsEmpty'
    OBVIOUS
<1> DEFINE Met(p, s) == \E e \in s : e.at = p /\ e.name = "proto"
<1>1. CASE Generate
    <2>1. Len(stack') - 1 \in {-1, 0} /\ Len(stack) = 0
        BY <1>1 DEF Generate
    <2>2. \A p \in required : Met(p, accepts)
        BY <2>1 DEF DemandsPending
    <2> QED
        BY <1>1, <2>2 DEF Generate, DemandsPending, DoneIsEmpty
<1>2. CASE Ignore
    <2>1. stack # <<>> /\ stack \in Seq(Frame) /\ stack' = Advance(stack) /\ outcome' = "running"
        BY <1>2 DEF Ignore, AtField, TypeOK
    <2>2. Len(stack') = Len(stack) /\ \A i \in 1..Len(stack)-1 : stack'[i] = stack[i]
        BY <2>1, AdvanceFacts
    <2>3. DemandsPending'
        BY <1>2, <2>2 DEF Ignore, DemandsPending, Here
    <2> QED
        BY <2>1, <2>3 DEF DoneIsEmpty
<1>3. CASE Unreadable
    <2>1. outcome' = "empty" /\ UNCHANGED <<stack, accepts, required>>
        BY <1>3 DEF Unreadable
    <2> QED
        BY <2>1 DEF DemandsPending, DoneIsEmpty, Here
<1>4. CASE AddScalar
    <2>1. stack # <<>> /\ stack \in Seq(Frame) /\ stack' = Advance(stack) /\ outcome' = "running"
        BY <1>4 DEF AddScalar, Readable, AtField, TypeOK
    <2>2. Len(stack') = Len(stack) /\ \A i \in 1..Len(stack)-1 : stack'[i] = stack[i]
        BY <2>1, AdvanceFacts
    <2>3. Met(Here(Top), Names(Top))
        BY <2>1, TopFacts, NamesFacts
    <2>4. /\ required' \subseteq required \cup {Here(Top)}
          /\ accepts' = accepts \cup Names(Top)
        BY <1>4 DEF AddScalar, Demands
    <2>5. ASSUME NEW p \in required'
          PROVE  \/ Met(p, accepts')
                 \/ \E i \in 1..Len(stack')-1 : p = Here(stack'[i])
        <3>1. CASE p = Here(Top)
            BY <2>3, <2>4, <3>1
        <3>2. CASE p \in required
            BY <2>2, <2>4, <3>2 DEF DemandsPending
        <3> QED
            BY <2>4, <3>1, <3>2
    <2> QED
        BY <2>1, <2>5 DEF DemandsPending, DoneIsEmpty, Here
<1>5. CASE Descend
    <2>1. /\ stack # <<>> /\ stack \in Seq(Frame) /\ Len(stack) \in Nat \ {0}
          /\ Top = stack[Len(stack)]
        BY <1>5, TopFacts DEF Descend, Readable, AtField, TypeOK
    <2>2. outcome' # "schema" /\ accepts' = accepts
        BY <1>5 DEF Descend, Readable, AtField
    <2>3. CASE Len(stack) = StackLimit
        BY <1>5, <2>2, <2>3 DEF Descend, DemandsPending, DoneIsEmpty, Here
    <2>4. CASE Len(stack) # StackLimit
        <3>1. /\ stack' = Append(stack, Call(Field(Top).of, Here(Top)))
              /\ required' \subseteq required \cup {Here(Top)}
            BY <1>5, <2>4 DEF Descend, Demands
        <3>2. Len(stack') = Len(stack) + 1 /\ \A i \in 1..Len(stack) : stack'[i] = stack[i]
            BY <2>1, <3>1
        <3>3. ASSUME NEW p \in required'
              PROVE  \/ Met(p, accepts')
                     \/ \E i \in 1..Len(stack')-1 : p = Here(stack'[i])
            <4>1. CASE p = Here(Top)
                <5>1. Len(stack) \in 1..Len(stack')-1 /\ stack'[Len(stack)] = Top
                    BY <2>1, <3>2
                <5> QED
                    BY <4>1, <5>1
            <4>2. CASE p \in required
                BY <2>1, <2>2, <3>2, <4>2 DEF DemandsPending
            <4> QED
                BY <3>1, <4>1, <4>2
        <3> QED
            BY <2>2, <3>3 DEF DemandsPending, DoneIsEmpty, Here
    <2> QED
        BY <2>3, <2>4
<1>6. CASE Return
    <2>1. /\ stack # <<>> /\ Len(stack) \in Nat \ {0} /\ stack \in Seq(Frame)
          /\ Below \in Seq(Frame) /\ Len(Below) = Len(stack) - 1
          /\ \A j \in 1..Len(stack)-1 : Below[j] = stack[j]
        BY <1>6, TopFacts DEF Return, TypeOK
    <2>2. required' = required
        BY <1>6 DEF Return
    <2>3. CASE Len(stack) = 1
        <3>1. stack' = Below /\ accepts' = accepts /\ Below = <<>>
            BY <1>6, <2>1, <2>3 DEF Return
        <3>2. \A p \in required : Met(p, accepts)
            BY <2>3 DEF DemandsPending
        <3> QED
            BY <2>2, <3>1, <3>2 DEF DemandsPending, DoneIsEmpty
    <2>4. CASE Len(stack) # 1
        <3> DEFINE n == Len(stack) - 1
        <3>1. /\ stack' = Advance(Below) /\ outcome' = "running"
              /\ accepts' = accepts \cup Names(stack[n])
            BY <1>6, <2>4 DEF Return
        <3>2. n \in Nat \ {0} /\ Below # <<>> /\ stack[n] \in Frame
            BY <2>1, <2>4
        <3>3. Len(stack') = n /\ \A i \in 1..n-1 : stack'[i] = Below[i]
            BY <2>1, <3>1, <3>2, AdvanceFacts
        <3>4. \A i \in 1..n-1 : stack'[i] = stack[i]
            BY <2>1, <3>2, <3>3
        <3>5. Met(Here(stack[n]), Names(stack[n]))
            BY <3>2, NamesFacts
        <3>6. ASSUME NEW p \in required
              PROVE  \/ Met(p, accepts')
                     \/ \E i \in 1..n-1 : p = Here(stack'[i])
            <4>1. CASE Met(p, accepts)
                BY <3>1, <4>1
            <4>2. CASE ~Met(p, accepts)
                <5>1. PICK i \in 1..n : p = Here(stack[i])
                    BY <4>2 DEF DemandsPending
                <5>2. CASE i = n
                    BY <3>1, <3>5, <5>1, <5>2
                <5>3. CASE i # n
                    <6>1. i \in 1..n-1
                        BY <3>2, <5>1, <5>3
                    <6> QED
                        BY <3>4, <5>1, <6>1
                <5> QED
                    BY <5>2, <5>3
            <4> QED
                BY <4>1, <4>2
        <3> QED
            BY <2>2, <3>1, <3>3, <3>6 DEF DemandsPending, DoneIsEmpty, Here
    <2> QED
        BY <2>3, <2>4
<1>7. CASE UNCHANGED vars
    BY <1>7 DEF vars, DemandsPending, DoneIsEmpty, Here
<1> QED
    BY <1>1, <1>2, <1>3, <1>4, <1>5, <1>6, <1>7 DEF Next

LEMMA IInvInit == Init => IInv
<1> SUFFICES ASSUME Init
             PROVE  IInv
    OBVIOUS
<1>1. stack = <<>> /\ required = {} /\ outcome = "running" /\ Len(stack) = 0
    BY DEF Init
<1> QED
    BY <1>1, TypeInit DEF IInv, Descending, FilledForAReason, DemandsPending, DoneIsEmpty

LEMMA IInvStep == IInv /\ [Next]_vars => IInv'
    BY TypeStep, DescendingStep, FilledStep, DemandsStep DEF IInv

-----------------------------------------------------------------------------
\* For any message types: while none contains itself, the calls go no deeper than
\* there are types, and a stack with room for them is not filled.
THEOREM DepthBoundedCorrect == Spec => []DepthBounded
<1>1. IInv => DepthBounded
    <2> SUFFICES ASSUME IInv, NEW rank \in Rankings
                 PROVE  /\ Len(stack) <= Cardinality(Message)
                        /\ outcome = "crashed" => StackLimit < Cardinality(Message)
        BY DEF DepthBounded
    <2>1. outcome = "crashed" => StackLimit < Cardinality(Message)
        BY DEF IInv, FilledForAReason
    <2>2. Len(stack) <= Cardinality(Message)
        <3>1. Len(stack) \in Nat /\ Cardinality(Message) \in Nat
            BY RankFacts DEF IInv, TypeOK
        <3>2. CASE Len(stack) = 0
            BY <3>1, <3>2
        <3>3. CASE Len(stack) # 0
            <4>1. Top.msg \in Message /\ Top = stack[Len(stack)]
                BY <3>3, TopFacts DEF IInv
            <4>2. rank[Top.msg] + Len(stack) <= Cardinality(Message) + 1
                BY <3>1, <3>3, <4>1 DEF IInv, Descending
            <4>3. rank[Top.msg] \in 1..Cardinality(Message)
                BY <4>1, RankFacts
            <4> QED
                BY <3>1, <4>2, <4>3
        <3> QED
            BY <3>2, <3>3
    <2> QED
        BY <2>1, <2>2
<1> QED
    BY <1>1, IInvInit, IInvStep, PTL DEF Spec

\* For any message types: each field the schema demands by its proto name can be
\* given by that name.
THEOREM DemandsCanBeMetCorrect == Spec => []DemandsCanBeMet
<1>1. IInv => DemandsCanBeMet
    <2> SUFFICES ASSUME IInv, outcome = "schema", NEW p \in required
                 PROVE  \E e \in accepts : e.at = p /\ e.name = "proto"
        BY DEF DemandsCanBeMet
    <2>1. stack = <<>> /\ Len(stack) - 1 = -1
        BY DEF IInv, DoneIsEmpty
    <2> QED
        BY <2>1 DEF IInv, DemandsPending
<1> QED
    BY <1>1, IInvInit, IInvStep, PTL DEF Spec

-----------------------------------------------------------------------------
\* The calls come to the field that path p leads to: the comments leave out no field
\* on the way, nor that one.
Described(p, types) ==
    /\ Follows(p, types)
    /\ \A i \in DOMAIN p : fields[types[i]][p[i]].visibility # "FieldIgnore"

\* A name by which the schema takes the field that path p leads to.
Called(declared, name) == name = "proto" \/ (name = "json" /\ declared.aliased)

Given(p, name) ==
    /\ p # <<>>
    /\ \E types \in [DOMAIN p -> Message] :
          Described(p, types) /\ Called(fields[types[Len(p)]][p[Len(p)]], name)

Shown(p, name) == \E e \in accepts : e.at = p /\ e.name = name

\* Path p goes through the fields that the first d calls are at.
Along(calls, p, d) == d <= Len(p) /\ \A k \in 1..d : p[k] = calls[k].next

\* Some call has left behind the field that path p goes through.
Passed(calls, p) ==
    \E i \in 1..Len(calls) :
        /\ i <= Len(p) /\ p[i] < calls[i].next
        /\ \A k \in 1..i-1 : p[k] = calls[k].next

\* Each call but the first was made for the field that the one before it is at.
Nested(calls) ==
    /\ \A i \in 1..Len(calls) :
          Len(calls[i].at) = i - 1 /\ \A k \in 1..i-1 : calls[i].at[k] = calls[k].next
    /\ calls # <<>> => calls[1].msg = root
    /\ \A i \in 1..Len(calls)-1 :
          /\ calls[i].next \in DOMAIN fields[calls[i].msg]
          /\ Field(calls[i]).visibility # "FieldIgnore"
          /\ Field(calls[i]).of = calls[i + 1].msg

\* While the calls go on the schema lists what they have left behind, and in the end all.
ListsPassed ==
    /\ outcome = "running" =>
          \A p \in Path : \A name : Shown(p, name) <=> Given(p, name) /\ Passed(stack, p)
    /\ outcome = "schema" =>
          \A p \in Path : \A name : Shown(p, name) <=> Given(p, name)

WithinStack ==
    /\ Len(stack) <= StackLimit
    /\ \A e \in accepts : Len(e.at) <= StackLimit

ListInv == IInv /\ Nested(stack) /\ WithinStack /\ ListsPassed

-----------------------------------------------------------------------------
LEMMA LeastNatural ==
    ASSUME NEW S \in SUBSET Nat, S # {}
    PROVE  \E i \in S : \A j \in S : i <= j
<1> DEFINE R == OpToRel(<, Nat)
<1>1. PICK i \in S : \A j \in S : ~(<<j, i>> \in R)
    <2>1. IsWellFoundedOn(R, Nat)
        BY NatLessThanWellFounded, Zenon
    <2> HIDE DEF R
    <2> QED
        BY <2>1, WFMin
<1>2. \A j \in S : ~(j < i)
    BY <1>1 DEF OpToRel
<1> QED
    BY <1>2

\* What going on to the next field does change.
LEMMA AdvanceNext ==
    ASSUME NEW calls \in Seq(Frame), calls # <<>>
    PROVE  LET d == Len(calls)
               on == Advance(calls)
           IN  /\ d \in Nat \ {0} /\ Len(on) = d
               /\ \A i \in 1..d : on[i].msg = calls[i].msg /\ on[i].at = calls[i].at
               /\ \A i \in 1..d-1 : on[i].next = calls[i].next
               /\ on[d].next = calls[d].next + 1
<1> DEFINE d == Len(calls)
           on == Advance(calls)
<1>1. d \in Nat \ {0} /\ Len(on) = d
    BY AdvanceFacts
<1>2. \A i \in 1..d-1 : on[i] = calls[i]
    BY AdvanceFacts
<1>3. d \in DOMAIN calls /\ calls[d] \in Frame
    BY <1>1
<1>4. on[d] = [calls[d] EXCEPT !.next = @ + 1]
    BY <1>3 DEF Advance
<1>5. on[d].msg = calls[d].msg /\ on[d].at = calls[d].at /\ on[d].next = calls[d].next + 1
    BY <1>3, <1>4 DEF Frame
<1> HIDE DEF d, on
<1>6. ASSUME NEW i \in 1..d
      PROVE  on[i].msg = calls[i].msg /\ on[i].at = calls[i].at
    <2>1. CASE i = d
        BY <1>5, <2>1
    <2>2. CASE i # d
        <3>1. i \in 1..d-1
            BY <1>1, <2>2
        <3> QED
            BY <1>2, <3>1
    <2> QED
        BY <2>1, <2>2
<1>7. \A i \in 1..d-1 : on[i].next = calls[i].next
    BY <1>2
<1> QED
    BY <1>1, <1>5, <1>6, <1>7 DEF d, on

LEMMA NestedAdvance ==
    ASSUME NEW calls \in Seq(Frame), calls # <<>>, Nested(calls)
    PROVE  Nested(Advance(calls))
<1> DEFINE d == Len(calls)
           on == Advance(calls)
<1>1. /\ d \in Nat \ {0} /\ Len(on) = d
      /\ \A i \in 1..d : on[i].msg = calls[i].msg /\ on[i].at = calls[i].at
      /\ \A i \in 1..d-1 : on[i].next = calls[i].next
    BY AdvanceNext
<1>2. \A i \in 1..d-1 : on[i] = calls[i]
    BY AdvanceFacts
<1>3. /\ \A i \in 1..d :
             Len(calls[i].at) = i - 1 /\ \A k \in 1..i-1 : calls[i].at[k] = calls[k].next
      /\ calls[1].msg = root
      /\ \A i \in 1..d-1 :
             /\ calls[i].next \in DOMAIN fields[calls[i].msg]
             /\ Field(calls[i]).visibility # "FieldIgnore"
             /\ Field(calls[i]).of = calls[i + 1].msg
    BY DEF Nested
<1> HIDE DEF d, on
<1>4. ASSUME NEW i \in 1..d
      PROVE  Len(on[i].at) = i - 1 /\ \A k \in 1..i-1 : on[i].at[k] = on[k].next
    <2>1. \A k \in 1..i-1 : k \in 1..d-1
        BY <1>1
    <2>2. on[i].at = calls[i].at
        BY <1>1
    <2>3. Len(calls[i].at) = i - 1 /\ \A k \in 1..i-1 : calls[i].at[k] = calls[k].next
        BY <1>3
    <2>4. \A k \in 1..i-1 : on[k].next = calls[k].next
        BY <1>1, <2>1
    <2> QED
        BY <2>2, <2>3, <2>4
<1>5. on[1].msg = root
    BY <1>1, <1>3
<1>6. ASSUME NEW i \in 1..d-1
      PROVE  /\ on[i].next \in DOMAIN fields[on[i].msg]
             /\ Field(on[i]).visibility # "FieldIgnore"
             /\ Field(on[i]).of = on[i + 1].msg
    <2>1. i + 1 \in 1..d
        BY <1>1
    <2> QED
        BY <1>1, <1>2, <1>3, <2>1
<1>7. Nested(on)
    BY <1>1, <1>4, <1>5, <1>6 DEF Nested
<1> QED
    BY <1>7 DEF on

\* A call less.
LEMMA NestedBelow ==
    ASSUME NEW calls \in Seq(Frame), NEW below \in Seq(Frame),
           calls # <<>>, Len(below) = Len(calls) - 1,
           \A i \in 1..Len(calls)-1 : below[i] = calls[i], Nested(calls)
    PROVE  Nested(below)
<1> DEFINE d == Len(calls)
<1>1. d \in Nat \ {0} /\ \A i \in 1..d-1 : i \in 1..d
    OBVIOUS
<1>2. /\ \A i \in 1..d :
             Len(calls[i].at) = i - 1 /\ \A k \in 1..i-1 : calls[i].at[k] = calls[k].next
      /\ calls[1].msg = root
      /\ \A i \in 1..d-1 :
             /\ calls[i].next \in DOMAIN fields[calls[i].msg]
             /\ Field(calls[i]).visibility # "FieldIgnore"
             /\ Field(calls[i]).of = calls[i + 1].msg
    BY DEF Nested
<1>3. Len(below) = d - 1 /\ \A i \in 1..d-1 : below[i] = calls[i]
    OBVIOUS
<1> HIDE DEF d
<1>4. ASSUME NEW i \in 1..d-1
      PROVE  Len(below[i].at) = i - 1 /\ \A k \in 1..i-1 : below[i].at[k] = below[k].next
    <2>1. \A k \in 1..i-1 : k \in 1..d-1
        BY <1>1
    <2> QED
        BY <1>1, <1>2, <1>3, <2>1
<1>5. below # <<>> => below[1].msg = root
    <2> SUFFICES ASSUME below # <<>> PROVE below[1].msg = root
        OBVIOUS
    <2>1. Len(below) \in Nat \ {0}
        OBVIOUS
    <2>2. 1 \in 1..d-1
        BY <1>1, <1>3, <2>1
    <2>3. below[1] = calls[1]
        BY <1>3, <2>2
    <2> QED
        BY <1>2, <2>3
<1>6. ASSUME NEW i \in 1..(d-1)-1
      PROVE  /\ below[i].next \in DOMAIN fields[below[i].msg]
             /\ Field(below[i]).visibility # "FieldIgnore"
             /\ Field(below[i]).of = below[i + 1].msg
    <2>1. i \in 1..d-1 /\ i + 1 \in 1..d-1
        BY <1>1
    <2> QED
        BY <1>2, <1>3, <2>1
<1> QED
    BY <1>3, <1>4, <1>5, <1>6 DEF Nested

\* A call more, for the field that the last one is at.
LEMMA NestedCall ==
    ASSUME NEW calls \in Seq(Frame), calls # <<>>, Nested(calls),
           NEW last, last = calls[Len(calls)],
           last.next \in DOMAIN fields[last.msg],
           Field(last).visibility # "FieldIgnore",
           Field(last).of \in Message,
           NEW on, on = Append(calls, Call(Field(last).of, Here(last)))
    PROVE  Nested(on)
<1> DEFINE d == Len(calls)
           frame == Call(Field(last).of, Here(last))
<1>1. d \in Nat \ {0} /\ last \in Frame
    OBVIOUS
<1>2. /\ \A i \in 1..d :
             Len(calls[i].at) = i - 1 /\ \A k \in 1..i-1 : calls[i].at[k] = calls[k].next
      /\ calls[1].msg = root
      /\ \A i \in 1..d-1 :
             /\ calls[i].next \in DOMAIN fields[calls[i].msg]
             /\ Field(calls[i]).visibility # "FieldIgnore"
             /\ Field(calls[i]).of = calls[i + 1].msg
    BY DEF Nested
<1>3. frame \in Frame
    BY <1>1 DEF Call, Frame, Here, Path
<1>4. /\ frame.msg = Field(last).of
      /\ frame.at = Append(last.at, last.next)
    BY DEF Call, Here
<1>5. Len(on) = d + 1 /\ on[d + 1] = frame /\ \A i \in 1..d : on[i] = calls[i]
    BY <1>1, <1>3
<1>6. Len(frame.at) = d /\ \A k \in 1..d : frame.at[k] = calls[k].next
    <2>1. last.at \in Path
        BY <1>1 DEF Frame
    <2>2. Len(last.at) = d - 1 /\ \A k \in 1..d-1 : last.at[k] = calls[k].next
        <3>1. d \in 1..d
            BY <1>1
        <3>2. Len(calls[d].at) = d - 1 /\ \A k \in 1..d-1 : calls[d].at[k] = calls[k].next
            BY <1>2, <3>1
        <3>3. last = calls[d]
            OBVIOUS
        <3> HIDE DEF d
        <3> QED
            BY <3>2, <3>3
    <2>3. Len(frame.at) = d /\ frame.at[d] = last.next
        BY <1>1, <1>4, <2>1, <2>2 DEF Path
    <2>4. \A k \in 1..d-1 : frame.at[k] = last.at[k]
        BY <1>1, <1>4, <2>1, <2>2 DEF Path
    <2>5. \A k \in 1..d : k # d => k \in 1..d-1
        BY <1>1
    <2> QED
        BY <2>2, <2>3, <2>4, <2>5
<1>7. last = calls[d]
    OBVIOUS
<1> HIDE DEF d, frame
<1>8. ASSUME NEW i \in 1..d + 1
      PROVE  Len(on[i].at) = i - 1 /\ \A k \in 1..i-1 : on[i].at[k] = on[k].next
    <2>1. CASE i = d + 1
        BY <1>1, <1>5, <1>6, <2>1
    <2>2. CASE i # d + 1
        <3>1. i \in 1..d /\ \A k \in 1..i-1 : k \in 1..d
            BY <1>1, <2>2
        <3> QED
            BY <1>2, <1>5, <3>1
    <2> QED
        BY <2>1, <2>2
<1>9. on[1].msg = root
    BY <1>1, <1>2, <1>5
<1>10. ASSUME NEW i \in 1..d
       PROVE  /\ on[i].next \in DOMAIN fields[on[i].msg]
              /\ Field(on[i]).visibility # "FieldIgnore"
              /\ Field(on[i]).of = on[i + 1].msg
    <2>1. CASE i = d
        BY <1>4, <1>5, <1>7, <2>1
    <2>2. CASE i # d
        <3>1. i \in 1..d-1 /\ i + 1 \in 1..d
            BY <1>1, <2>2
        <3> QED
            BY <1>2, <1>5, <3>1
    <2> QED
        BY <2>1, <2>2
<1>11. (d + 1) - 1 = d /\ Len(on) = d + 1
    BY <1>1, <1>5
<1>12. \A i \in 1..Len(on) :
          Len(on[i].at) = i - 1 /\ \A k \in 1..i-1 : on[i].at[k] = on[k].next
    BY <1>8, <1>11
<1>13. \A i \in 1..Len(on)-1 :
          /\ on[i].next \in DOMAIN fields[on[i].msg]
          /\ Field(on[i]).visibility # "FieldIgnore"
          /\ Field(on[i]).of = on[i + 1].msg
    BY <1>10, <1>11
<1> QED
    BY <1>9, <1>12, <1>13 DEF Nested

\* What is passed when the innermost call goes on, and what that call has passed.
LEMMA PassedAdvance ==
    ASSUME NEW calls \in Seq(Frame), calls # <<>>, NEW p \in Path
    PROVE  Passed(Advance(calls), p) <=> Passed(calls, p) \/ Along(calls, p, Len(calls))
<1> DEFINE d == Len(calls)
           on == Advance(calls)
<1>1. /\ d \in Nat \ {0} /\ Len(on) = d
      /\ \A i \in 1..d-1 : on[i].next = calls[i].next
      /\ on[d].next = calls[d].next + 1
    BY AdvanceNext
<1>2. \A i \in 1..d : calls[i].next \in Nat /\ (i # d => i \in 1..d-1)
                         /\ \A k \in 1..i-1 : k \in 1..d-1
    <2>1. \A i \in 1..d : calls[i] \in Frame
        OBVIOUS
    <2> HIDE DEF d
    <2>2. \A i \in 1..d : calls[i].next \in Nat
        BY <2>1 DEF Frame
    <2>3. \A i \in 1..d : (i # d => i \in 1..d-1) /\ \A k \in 1..i-1 : k \in 1..d-1
        BY <1>1
    <2> QED
        BY <2>2, <2>3
<1>3. Len(p) \in Nat /\ \A k \in 1..Len(p) : p[k] \in Nat
    BY DEF Path
<1> HIDE DEF d, on
<1>4. ASSUME NEW i \in 1..d
      PROVE  (\A k \in 1..i-1 : p[k] = on[k].next) <=> \A k \in 1..i-1 : p[k] = calls[k].next
    BY <1>1, <1>2
<1>5. ASSUME NEW i \in 1..d, i # d
      PROVE  on[i].next = calls[i].next
    BY <1>1, <1>2, <1>5
<1>6. d <= Len(p) => (p[d] < on[d].next <=> p[d] < calls[d].next \/ p[d] = calls[d].next)
    BY <1>1, <1>2, <1>3
<1>7. d \in 1..d /\ \A k \in 1..d : k = d \/ k \in 1..d-1
    BY <1>1
<1>8. Along(calls, p, d) <=> /\ d <= Len(p) /\ p[d] = calls[d].next
                             /\ \A k \in 1..d-1 : p[k] = calls[k].next
    BY <1>2, <1>7 DEF Along
<1>9. ASSUME NEW i \in 1..d
      PROVE  (/\ i <= Len(p) /\ p[i] < on[i].next
              /\ \A k \in 1..i-1 : p[k] = on[k].next)
             <=> \/ /\ i <= Len(p) /\ p[i] < calls[i].next
                    /\ \A k \in 1..i-1 : p[k] = calls[k].next
                 \/ i = d /\ Along(calls, p, d)
    <2>1. CASE i = d
        BY <1>4, <1>6, <1>8, <2>1
    <2>2. CASE i # d
        BY <1>4, <1>5, <2>2
    <2> QED
        BY <2>1, <2>2
<1>10. Passed(on, p) <=> Passed(calls, p) \/ Along(calls, p, d)
    BY <1>1, <1>7, <1>9 DEF Passed, d
<1> QED
    BY <1>10 DEF on, d

LEMMA PassedBelow ==
    ASSUME NEW calls \in Seq(Frame), NEW below \in Seq(Frame),
           calls # <<>>, Len(below) = Len(calls) - 1,
           \A i \in 1..Len(calls)-1 : below[i] = calls[i], NEW p \in Path
    PROVE  Passed(calls, p) <=> \/ Passed(below, p)
                                \/ /\ Along(below, p, Len(below))
                                   /\ Len(calls) <= Len(p)
                                   /\ p[Len(calls)] < calls[Len(calls)].next
<1> DEFINE d == Len(calls)
<1>1. d \in Nat \ {0} /\ Len(below) = d - 1 /\ \A i \in 1..d-1 : below[i] = calls[i]
    OBVIOUS
<1>2. \A i \in 1..d : (i # d => i \in 1..d-1) /\ \A k \in 1..i-1 : k \in 1..d-1
    BY <1>1
<1>3. Len(p) \in Nat
    BY DEF Path
<1> HIDE DEF d
<1>4. ASSUME NEW i \in 1..d
      PROVE  (\A k \in 1..i-1 : p[k] = below[k].next) <=> \A k \in 1..i-1 : p[k] = calls[k].next
    BY <1>1, <1>2
<1>5. ASSUME d <= Len(p)
      PROVE  Along(below, p, d - 1) <=> \A k \in 1..d-1 : p[k] = calls[k].next
    BY <1>1, <1>3, <1>5 DEF Along
<1>6. d \in 1..d /\ \A i \in 1..d-1 : i \in 1..d /\ i # d
    BY <1>1
<1>7. Passed(calls, p) <=>
        \E i \in 1..d : /\ i <= Len(p) /\ p[i] < calls[i].next
                        /\ \A k \in 1..i-1 : p[k] = calls[k].next
    BY DEF Passed, d
<1>8. Passed(below, p) <=>
        \E i \in 1..d-1 : /\ i <= Len(p) /\ p[i] < calls[i].next
                          /\ \A k \in 1..i-1 : p[k] = calls[k].next
    <2>1. \A i \in 1..d-1 : below[i].next = calls[i].next
        BY <1>1
    <2>2. Passed(below, p) <=>
            \E i \in 1..d-1 : /\ i <= Len(p) /\ p[i] < below[i].next
                              /\ \A k \in 1..i-1 : p[k] = below[k].next
        BY <1>1 DEF Passed
    <2> QED
        BY <1>4, <1>6, <2>1, <2>2
<1>9. Passed(calls, p) <=> \/ Passed(below, p)
                           \/ /\ Along(below, p, d - 1)
                              /\ d <= Len(p) /\ p[d] < calls[d].next
    BY <1>2, <1>5, <1>6, <1>7, <1>8
<1> QED
    BY <1>1, <1>9 DEF d

\* A path that begins the way the calls go leads through their message types.
LEMMA TypesAlong ==
    ASSUME Nested(stack), stack \in Seq(Frame),
           NEW p \in Path, NEW types, Described(p, types),
           NEW d \in 1..Len(stack), \A k \in 1..d-1 : p[k] = stack[k].next, d <= Len(p) + 1
    PROVE  \A k \in 1..d : k <= Len(p) => types[k] = stack[k].msg
<1> DEFINE Bad == {k \in 1..d : k <= Len(p) /\ types[k] # stack[k].msg}
<1> SUFFICES ASSUME Bad # {}
             PROVE  FALSE
    OBVIOUS
<1>1. Bad \in SUBSET Nat /\ d \in Nat /\ Len(stack) \in Nat /\ Len(p) \in Nat
    BY DEF Path
<1>2. PICK k \in Bad : \A j \in Bad : k <= j
    BY <1>1, LeastNatural
<1>3. k \in 1..d /\ k <= Len(p) /\ types[k] # stack[k].msg
    BY <1>2
<1>4. types[1] = root /\ stack[1].msg = root
    BY <1>1, <1>3 DEF Described, Follows, Nested
<1>5. k - 1 \in 1..d-1 /\ k - 1 \in 1..Len(stack)-1 /\ k - 1 \in 1..d /\ (k - 1) + 1 = k
    BY <1>1, <1>3, <1>4
<1>6. types[k - 1] = stack[k - 1].msg
    BY <1>1, <1>2, <1>3, <1>5
<1>7. p[k - 1] = stack[k - 1].next
    BY <1>5
<1>8. k - 1 \in DOMAIN p /\ k - 1 < Len(p)
    BY <1>1, <1>3, <1>5 DEF Path
<1>9. fields[types[k - 1]][p[k - 1]].of = types[k]
    BY <1>5, <1>8 DEF Described, Follows
<1>10. Field(stack[k - 1]).of = stack[k].msg
    BY <1>5 DEF Nested
<1> QED
    BY <1>3, <1>6, <1>7, <1>9, <1>10 DEF Field

\* The path that a call is at is the one that goes along with all calls up to it.
LEMMA HereIs ==
    ASSUME Nested(stack), stack \in Seq(Frame), NEW d \in 1..Len(stack)
    PROVE  LET here == Here(stack[d])
           IN  /\ here \in Path /\ Len(here) = d /\ here # <<>>
               /\ \A k \in 1..d : here[k] = stack[k].next
               /\ \A p \in Path : Along(stack, p, d) /\ Len(p) = d => p = here
<1> DEFINE at == stack[d].at
           next == stack[d].next
           here == Here(stack[d])
<1>1. d \in Nat \ {0} /\ stack[d] \in Frame
    OBVIOUS
<1>2. at \in Seq(Nat \ {0}) /\ next \in Nat \ {0}
    BY <1>1 DEF Frame, Path
<1>3. Len(at) = d - 1 /\ \A k \in 1..d-1 : at[k] = stack[k].next
    BY DEF Nested
<1>4. here = Append(at, next)
    BY DEF Here
<1> HIDE DEF at, here
<1>5. here \in Path /\ Len(here) = d /\ here[d] = next
    BY <1>1, <1>2, <1>3, <1>4 DEF Path
<1>6. \A k \in 1..d-1 : here[k] = stack[k].next
    BY <1>1, <1>2, <1>3, <1>4
<1>7. \A k \in 1..d : here[k] = stack[k].next
    <2>1. \A k \in 1..d : k = d \/ k \in 1..d-1
        BY <1>1
    <2> QED
        BY <1>5, <1>6, <2>1
<1>8. ASSUME NEW p \in Path, Along(stack, p, d), Len(p) = d
      PROVE  p = here
    <2>1. \A k \in 1..d : p[k] = here[k]
        BY <1>7, <1>8 DEF Along
    <2> QED
        BY <1>5, <1>8, <2>1 DEF Path
<1>9. here # <<>>
    BY <1>1, <1>5
<1> QED
    BY <1>5, <1>7, <1>8, <1>9 DEF here

\* That path is one of the input's when the field it leads to is described.
LEMMA HereGiven ==
    ASSUME Nested(stack), TypeOK, NEW d \in 1..Len(stack),
           stack[d].next \in DOMAIN fields[stack[d].msg],
           Field(stack[d]).visibility # "FieldIgnore",
           NEW name
    PROVE  Given(Here(stack[d]), name) <=> Called(Field(stack[d]), name)
<1> DEFINE here == Here(stack[d])
           trail == [k \in 1..d |-> stack[k].msg]
<1>1. stack \in Seq(Frame) /\ d \in Nat \ {0} /\ Len(stack) \in Nat
    BY DEF TypeOK
<1>2. /\ here \in Path /\ Len(here) = d /\ here # <<>>
      /\ \A k \in 1..d : here[k] = stack[k].next
    BY <1>1, HereIs
<1>3. DOMAIN here = 1..d
    BY <1>2 DEF Path
<1> HIDE DEF here
<1>4. trail \in [DOMAIN here -> Message]
    <2>1. \A k \in 1..d : stack[k] \in Frame
        BY <1>1
    <2>2. \A k \in 1..d : stack[k].msg \in Message
        BY <2>1 DEF Frame
    <2> QED
        BY <1>3, <2>2
<1>5. Described(here, trail)
    <2>1. trail[1] = root
        BY <1>1 DEF Nested
    <2>2. ASSUME NEW k \in DOMAIN here
          PROVE  /\ here[k] \in DOMAIN fields[trail[k]]
                 /\ fields[trail[k]][here[k]].visibility # "FieldIgnore"
                 /\ k < Len(here) => fields[trail[k]][here[k]].of = trail[k + 1]
        <3>1. k \in 1..d /\ here[k] = stack[k].next /\ trail[k] = stack[k].msg
            BY <1>2, <1>3
        <3>2. CASE k = d
            BY <1>2, <3>1, <3>2 DEF Field
        <3>3. CASE k # d
            <4>1. k \in 1..Len(stack)-1 /\ k + 1 \in 1..d
                BY <1>1, <3>1, <3>3
            <4>2. /\ stack[k].next \in DOMAIN fields[stack[k].msg]
                  /\ Field(stack[k]).visibility # "FieldIgnore"
                  /\ Field(stack[k]).of = stack[k + 1].msg
                BY <4>1 DEF Nested
            <4>3. trail[k + 1] = stack[k + 1].msg
                BY <4>1
            <4> QED
                BY <3>1, <4>2, <4>3 DEF Field
        <3> QED
            BY <3>2, <3>3
    <2> HIDE DEF trail
    <2> QED
        BY <2>1, <2>2 DEF Described, Follows
<1>6. trail[d] = stack[d].msg /\ here[d] = stack[d].next
    BY <1>1, <1>2
<1>7. ASSUME Called(Field(stack[d]), name)
      PROVE  Given(here, name)
    <2>1. fields[trail[Len(here)]][here[Len(here)]] = Field(stack[d])
        BY <1>2, <1>6 DEF Field
    <2> HIDE DEF trail
    <2> QED
        BY <1>2, <1>4, <1>5, <1>7, <2>1 DEF Given
<1>8. ASSUME Given(here, name)
      PROVE  Called(Field(stack[d]), name)
    <2>1. PICK types \in [DOMAIN here -> Message] :
              Described(here, types) /\ Called(fields[types[Len(here)]][here[Len(here)]], name)
        BY <1>8 DEF Given
    <2>2. types[d] = stack[d].msg
        <3>1. \A k \in 1..d-1 : here[k] = stack[k].next
            BY <1>1, <1>2
        <3>2. d <= Len(here) + 1 /\ d \in 1..d /\ d <= Len(here)
            BY <1>1, <1>2
        <3> QED
            BY <1>1, <1>2, <2>1, <3>1, <3>2, TypesAlong
    <2> QED
        BY <1>2, <1>6, <2>1, <2>2 DEF Field
<1> QED
    BY <1>7, <1>8 DEF here

\* The names of a field are those that protojson takes, at its path.
LEMMA NamesListed ==
    ASSUME NEW frame, NEW p, NEW name
    PROVE  (\E e \in Names(frame) : e.at = p /\ e.name = name)
              <=> p = Here(frame) /\ Called(Field(frame), name)
<1>1. ASSUME NEW e \in Names(frame)
      PROVE  e.at = Here(frame) /\ Called(Field(frame), e.name)
    <2> DEFINE protoIn == IF Field(frame).visibility = "FieldHide"
                          THEN "patternProperties" ELSE "properties"
    <2>1. \/ e = Entry(frame, "proto", protoIn)
          \/ Field(frame).aliased /\ \E in : e = Entry(frame, "json", in)
        BY DEF Names
    <2>2. CASE e = Entry(frame, "proto", protoIn)
        <3>1. e.at = Here(frame) /\ e.name = "proto"
            BY <2>2 DEF Entry
        <3> QED
            BY <3>1 DEF Called
    <2>3. CASE Field(frame).aliased /\ \E in : e = Entry(frame, "json", in)
        <3>1. e.at = Here(frame) /\ e.name = "json"
            BY <2>3 DEF Entry
        <3> QED
            BY <2>3, <3>1 DEF Called
    <2> QED
        BY <2>1, <2>2, <2>3
<1>2. \E e \in Names(frame) : e.at = Here(frame) /\ e.name = "proto"
    <2>1. \E in \in {"properties", "patternProperties"} :
              Entry(frame, "proto", in) \in Names(frame)
        BY DEF Names
    <2> QED
        BY <2>1 DEF Entry
<1>3. ASSUME Field(frame).aliased
      PROVE  \E e \in Names(frame) : e.at = Here(frame) /\ e.name = "json"
    <2>1. Entry(frame, "json", "patternProperties") \in Names(frame)
        BY <1>3 DEF Names
    <2> QED
        BY <2>1 DEF Entry
<1>4. ASSUME Called(Field(frame), name)
      PROVE  \E e \in Names(frame) : e.at = Here(frame) /\ e.name = name
    <2>1. CASE name = "proto"
        BY <1>2, <2>1
    <2>2. CASE name = "json" /\ Field(frame).aliased
        BY <1>3, <2>2
    <2> QED
        BY <1>4, <2>1, <2>2 DEF Called
<1> QED
    BY <1>1, <1>4

\* A path of the input that goes along with the calls goes through fields of theirs.
LEMMA GivenAlong ==
    ASSUME Nested(stack), stack \in Seq(Frame), NEW d \in 1..Len(stack),
           NEW p \in Path, NEW name, Given(p, name), Along(stack, p, d)
    PROVE  /\ Field(stack[d]).visibility # "FieldIgnore"
           /\ Field(stack[d]).of \in Message \/ p = Here(stack[d])
<1>1. PICK types \in [DOMAIN p -> Message] : Described(p, types)
    BY DEF Given
<1>2. Len(p) \in Nat /\ DOMAIN p = 1..Len(p) /\ d \in Nat \ {0} /\ d <= Len(p)
    BY DEF Path, Along
<1>3. types[d] = stack[d].msg
    <2>1. \A k \in 1..d-1 : p[k] = stack[k].next
        BY <1>2 DEF Along
    <2>2. d <= Len(p) + 1 /\ d \in 1..d
        BY <1>2
    <2> QED
        BY <1>1, <1>2, <2>1, <2>2, TypesAlong
<1>4. p[d] = stack[d].next /\ d \in DOMAIN p
    BY <1>2 DEF Along
<1>5. fields[types[d]][p[d]] = Field(stack[d])
    BY <1>3, <1>4 DEF Field
<1>6. Field(stack[d]).visibility # "FieldIgnore"
    BY <1>1, <1>4, <1>5 DEF Described, Follows
<1>7. CASE d = Len(p)
    BY <1>6, <1>7, HereIs
<1>8. CASE d < Len(p)
    <2>1. Field(stack[d]).of = types[d + 1]
        BY <1>1, <1>4, <1>5, <1>8 DEF Described, Follows
    <2>2. d + 1 \in DOMAIN p
        BY <1>2, <1>8
    <2> QED
        BY <1>1, <1>6, <2>1, <2>2
<1>9. d = Len(p) \/ d < Len(p)
    <2> DEFINE l == Len(p)
    <2>1. l \in Nat /\ d \in Nat /\ d <= l
        BY <1>2
    <2> HIDE DEF l
    <2>2. d = l \/ d < l
        BY <2>1
    <2> QED
        BY <2>2 DEF l
<1> QED
    BY <1>7, <1>8, <1>9

\* A call that is through with its message has left every field of it behind.
LEMMA ThroughPassed ==
    ASSUME Nested(stack), TypeOK, stack # <<>>, Top.next \notin DOMAIN fields[Top.msg],
           NEW p \in Path, NEW name, Given(p, name), Len(stack) <= Len(p),
           \A k \in 1..Len(stack)-1 : p[k] = stack[k].next
    PROVE  p[Len(stack)] < stack[Len(stack)].next
<1> DEFINE d == Len(stack)
<1>1. d \in Nat \ {0} /\ Top = stack[d] /\ Top \in Frame /\ stack \in Seq(Frame)
    BY TopFacts DEF TypeOK
<1>2. PICK types \in [DOMAIN p -> Message] : Described(p, types)
    BY DEF Given
<1>3. Len(p) \in Nat /\ DOMAIN p = 1..Len(p) /\ d \in 1..d
    BY <1>1 DEF Path
<1>4. types[d] = Top.msg
    <2>1. d <= Len(p) /\ d <= Len(p) + 1
        BY <1>1, <1>3
    <2>2. \A k \in 1..d-1 : p[k] = stack[k].next
        OBVIOUS
    <2> HIDE DEF d
    <2>3. d \in 1..Len(stack)
        BY <1>3 DEF d
    <2>4. \A k \in 1..d : k <= Len(p) => types[k] = stack[k].msg
        BY <1>1, <1>2, <2>1, <2>2, <2>3, TypesAlong
    <2> QED
        BY <1>1, <1>3, <2>1, <2>4
<1>5. p[d] \in DOMAIN fields[Top.msg]
    BY <1>1, <1>2, <1>3, <1>4 DEF Described, Follows
<1>6. Top.next \in Nat \ {0} /\ Top.msg \in Message
    BY <1>1 DEF Frame
<1>7. fields[Top.msg] \in Seq(FieldDecl)
    BY <1>6, DeclarationsAssumption DEF TypeOK
<1>8. PICK n \in Nat : DOMAIN fields[Top.msg] = 1..n
    BY <1>7
<1>9. p[d] < Top.next
    <2> HIDE DEF d
    <2> QED
        BY <1>5, <1>6, <1>8
<1> QED
    BY <1>1, <1>9

LEMMA SameGiven ==
    ASSUME [Next]_vars
    PROVE  \A p, name : Given(p, name)' <=> Given(p, name)
<1>1. fields' = fields /\ root' = root
    BY SameInput DEF input
<1> QED
    BY <1>1 DEF Given, Described, Follows

LEMMA ListsIgnore ==
    ASSUME TypeOK, Nested(stack), ListsPassed, Ignore
    PROVE  ListsPassed'
<1>1. /\ stack # <<>> /\ stack \in Seq(Frame) /\ stack' = Advance(stack)
      /\ outcome = "running" /\ outcome' = "running" /\ accepts' = accepts
      /\ Field(Top).visibility = "FieldIgnore"
    BY DEF Ignore, AtField, TypeOK
<1>2. Len(stack) \in 1..Len(stack) /\ Top = stack[Len(stack)]
    BY <1>1, TopFacts
<1>3. ASSUME NEW p \in Path, NEW name
      PROVE  Shown(p, name)' <=> Given(p, name)' /\ Passed(stack', p)
    <2>1. Shown(p, name)' <=> Shown(p, name)
        BY <1>1 DEF Shown
    <2>2. Given(p, name)' <=> Given(p, name)
        BY SameGiven DEF Next
    <2>3. Passed(stack', p) <=> Passed(stack, p) \/ Along(stack, p, Len(stack))
        BY <1>1, PassedAdvance
    <2>4. ~(Given(p, name) /\ Along(stack, p, Len(stack)))
        BY <1>1, <1>2, GivenAlong
    <2>5. Shown(p, name) <=> Given(p, name) /\ Passed(stack, p)
        BY <1>1 DEF ListsPassed
    <2> QED
        BY <2>1, <2>2, <2>3, <2>4, <2>5
<1> QED
    BY <1>1, <1>3 DEF ListsPassed

LEMMA ListsAddScalar ==
    ASSUME TypeOK, Nested(stack), ListsPassed, AddScalar
    PROVE  ListsPassed'
<1>1. /\ stack # <<>> /\ stack \in Seq(Frame) /\ stack' = Advance(stack)
      /\ outcome = "running" /\ outcome' = "running" /\ accepts' = accepts \cup Names(Top)
      /\ Field(Top).visibility # "FieldIgnore"
      /\ Top.next \in DOMAIN fields[Top.msg]
      /\ Field(Top).of \notin Message
    BY MessageAssumption DEF AddScalar, Readable, AtField, TypeOK
<1> DEFINE d == Len(stack)
<1>2. d \in 1..Len(stack) /\ Top = stack[d]
    BY <1>1, TopFacts
<1>3. ASSUME NEW p \in Path, NEW name
      PROVE  Shown(p, name)' <=> Given(p, name)' /\ Passed(stack', p)
    <2>1. Shown(p, name)' <=> Shown(p, name) \/ (p = Here(Top) /\ Called(Field(Top), name))
        <3>1. Shown(p, name)' <=>
                 Shown(p, name) \/ \E e \in Names(Top) : e.at = p /\ e.name = name
            BY <1>1 DEF Shown
        <3>2. (\E e \in Names(Top) : e.at = p /\ e.name = name)
                 <=> p = Here(Top) /\ Called(Field(Top), name)
            BY NamesListed, Zenon
        <3> QED
            BY <3>1, <3>2
    <2>2. Given(p, name)' <=> Given(p, name)
        BY SameGiven DEF Next
    <2>3. Passed(stack', p) <=> Passed(stack, p) \/ Along(stack, p, d)
        BY <1>1, PassedAdvance
    <2>4. Given(p, name) /\ Along(stack, p, d) => p = Here(Top)
        BY <1>1, <1>2, GivenAlong
    <2>5. Shown(p, name) <=> Given(p, name) /\ Passed(stack, p)
        BY <1>1 DEF ListsPassed
    <2>6. p = Here(Top) => Along(stack, p, d)
        <3>1. Len(Here(Top)) = d /\ \A k \in 1..d : Here(Top)[k] = stack[k].next
            BY <1>1, <1>2, HereIs
        <3>2. d <= d
            BY <1>2
        <3> QED
            BY <3>1, <3>2 DEF Along
    <2>7. p = Here(Top) => (Given(p, name) <=> Called(Field(Top), name))
        BY <1>1, <1>2, HereGiven
    <2> QED
        BY <2>1, <2>2, <2>3, <2>4, <2>5, <2>6, <2>7
<1> QED
    BY <1>1, <1>3 DEF ListsPassed

LEMMA ListsGenerate ==
    ASSUME TypeOK, ListsPassed, Generate
    PROVE  ListsPassed'
<1>1. outcome = "running" /\ stack = <<>> /\ accepts' = accepts
    BY DEF Generate
<1>2. CASE root \in WellKnown
    <2>1. outcome' = "custom"
        BY <1>2 DEF Generate
    <2> QED
        BY <2>1 DEF ListsPassed
<1>3. CASE root \notin WellKnown
    <2>1. stack' = <<Call(root, <<>>)>> /\ outcome' = "running"
        BY <1>1, <1>3 DEF Generate
    <2>2. Len(stack') = 1 /\ stack'[1].next = 1
        BY <2>1 DEF Call
    <2>3. ASSUME NEW p \in Path, NEW name
          PROVE  Shown(p, name)' <=> Given(p, name)' /\ Passed(stack', p)
        <3>1. ~Shown(p, name)
            <4>1. ~Passed(stack, p)
                BY <1>1 DEF Passed
            <4> QED
                BY <1>1, <4>1 DEF ListsPassed
        <3>2. ~Shown(p, name)'
            BY <1>1, <3>1 DEF Shown
        <3>3. ~Passed(stack', p)
            <4>1. \A i \in 1..Len(p) : p[i] \in Nat /\ p[i] # 0
                BY DEF Path
            <4>2. Len(p) \in Nat
                BY DEF Path
            <4>3. 1 <= Len(p) => ~(p[1] < 1)
                BY <4>1, <4>2
            <4> QED
                BY <2>2, <4>3 DEF Passed
        <3> QED
            BY <3>2, <3>3
    <2> QED
        BY <2>1, <2>3 DEF ListsPassed
<1> QED
    BY <1>2, <1>3

LEMMA ListsDescend ==
    ASSUME TypeOK, Nested(stack), ListsPassed, Descend
    PROVE  ListsPassed'
<1>1. /\ stack # <<>> /\ stack \in Seq(Frame) /\ outcome = "running" /\ accepts' = accepts
      /\ Field(Top).of \in Message
    BY DEF Descend, Readable, AtField, TypeOK
<1>2. CASE Len(stack) = StackLimit
    <2>1. outcome' = "crashed"
        BY <1>2 DEF Descend
    <2> QED
        BY <2>1 DEF ListsPassed
<1>3. CASE Len(stack) # StackLimit
    <2> DEFINE frame == Call(Field(Top).of, Here(Top))
    <2>1. stack' = Append(stack, frame) /\ outcome' = "running"
        BY <1>1, <1>3 DEF Descend
    <2>2. frame \in Frame /\ frame.next = 1
        BY <1>1, TopFacts DEF Call, Frame
    <2> HIDE DEF frame
    <2>3. /\ stack' \in Seq(Frame) /\ stack' # <<>> /\ Len(stack) = Len(stack') - 1
          /\ stack'[Len(stack')] = frame
          /\ \A i \in 1..Len(stack')-1 : stack[i] = stack'[i]
        BY <1>1, <2>1, <2>2
    <2>4. ASSUME NEW p \in Path, NEW name
          PROVE  Shown(p, name)' <=> Given(p, name)' /\ Passed(stack', p)
        <3>1. Shown(p, name)' <=> Shown(p, name)
            BY <1>1 DEF Shown
        <3>2. Given(p, name)' <=> Given(p, name)
            BY SameGiven DEF Next
        <3>3. Passed(stack', p) <=> \/ Passed(stack, p)
                                    \/ /\ Along(stack, p, Len(stack))
                                       /\ Len(stack') <= Len(p)
                                       /\ p[Len(stack')] < stack'[Len(stack')].next
            BY <1>1, <2>3, PassedBelow
        <3>4. ~(Len(stack') <= Len(p) /\ p[Len(stack')] < stack'[Len(stack')].next)
            <4>1. \A i \in 1..Len(p) : p[i] \in Nat /\ p[i] # 0
                BY DEF Path
            <4>2. Len(p) \in Nat /\ Len(stack') \in Nat \ {0}
                BY <2>3 DEF Path
            <4>3. Len(stack') <= Len(p) => ~(p[Len(stack')] < 1)
                BY <4>1, <4>2
            <4> QED
                BY <2>2, <2>3, <4>3
        <3>5. Shown(p, name) <=> Given(p, name) /\ Passed(stack, p)
            BY <1>1 DEF ListsPassed
        <3> QED
            BY <3>1, <3>2, <3>3, <3>4, <3>5
    <2> QED
        BY <2>1, <2>4 DEF ListsPassed
<1> QED
    BY <1>2, <1>3

LEMMA ListsReturn ==
    ASSUME TypeOK, Nested(stack), ListsPassed, Return
    PROVE  ListsPassed'
<1> DEFINE d == Len(stack)
<1>1. /\ stack # <<>> /\ stack \in Seq(Frame) /\ outcome = "running"
      /\ Top.next \notin DOMAIN fields[Top.msg]
    BY DEF Return, TypeOK
<1>2. /\ d \in Nat \ {0} /\ Below \in Seq(Frame) /\ Len(Below) = d - 1
      /\ \A i \in 1..d-1 : Below[i] = stack[i]
    BY <1>1, TopFacts
<1>3. \A p \in Path : \A name : Shown(p, name) <=> Given(p, name) /\ Passed(stack, p)
    BY <1>1 DEF ListsPassed
<1>4. \A p, name : Given(p, name)' <=> Given(p, name)
    BY SameGiven DEF Next
<1>5. CASE d = 1
    <2>1. outcome' = "schema" /\ accepts' = accepts
        BY <1>5 DEF Return
    <2>2. ASSUME NEW p \in Path, NEW name
          PROVE  Shown(p, name)' <=> Given(p, name)'
        <3>1. Shown(p, name)' <=> Shown(p, name)
            BY <2>1 DEF Shown
        <3>2. ASSUME Given(p, name)
              PROVE  Passed(stack, p)
            <4>1. Len(stack) <= Len(p)
                <5>1. p # <<>> /\ p \in Seq(Nat \ {0})
                    BY <3>2 DEF Given, Path
                <5>2. Len(p) \in Nat \ {0}
                    BY <5>1
                <5> QED
                    BY <1>5, <5>2
            <4>2. \A k \in 1..Len(stack)-1 : p[k] = stack[k].next
                BY <1>5
            <4>3. p[Len(stack)] < stack[Len(stack)].next
                BY <1>1, <3>2, <4>1, <4>2, ThroughPassed
            <4>4. Len(stack) \in 1..Len(stack)
                BY <1>5
            <4> QED
                BY <4>1, <4>2, <4>3, <4>4 DEF Passed
        <3> QED
            BY <1>3, <1>4, <3>1, <3>2
    <2> QED
        BY <2>1, <2>2 DEF ListsPassed
<1>6. CASE d # 1
    <2> DEFINE n == d - 1
               caller == stack[n]
    <2>1. /\ accepts' = accepts \cup Names(caller) /\ stack' = Advance(Below)
          /\ outcome' = "running"
        BY <1>1, <1>6 DEF Return
    <2>2. n \in Nat \ {0} /\ Len(Below) = n /\ Below # <<>> /\ n \in 1..d /\ n \in 1..d-1
        BY <1>2, <1>6
    <2>3. /\ caller.next \in DOMAIN fields[caller.msg]
          /\ Field(caller).visibility # "FieldIgnore"
        BY <2>2 DEF Nested
    <2>4. ASSUME NEW p \in Path, NEW name
          PROVE  Shown(p, name)' <=> Given(p, name)' /\ Passed(stack', p)
        <3>1. Shown(p, name)' <=>
                 Shown(p, name) \/ (p = Here(caller) /\ Called(Field(caller), name))
            <4>1. Shown(p, name)' <=>
                     Shown(p, name) \/ \E e \in Names(caller) : e.at = p /\ e.name = name
                BY <2>1 DEF Shown
            <4>2. (\E e \in Names(caller) : e.at = p /\ e.name = name)
                     <=> p = Here(caller) /\ Called(Field(caller), name)
                <5> HIDE DEF caller
                <5> QED
                    BY NamesListed
            <4> QED
                BY <4>1, <4>2
        <3>2. Passed(stack', p) <=> Passed(Below, p) \/ Along(Below, p, n)
            BY <1>2, <2>1, <2>2, PassedAdvance
        <3>3. Passed(stack, p) <=> \/ Passed(Below, p)
                                   \/ /\ Along(Below, p, n)
                                      /\ d <= Len(p) /\ p[d] < stack[d].next
            BY <1>1, <1>2, <2>2, PassedBelow
        <3>4. Along(Below, p, n) <=> Along(stack, p, n)
            BY <1>2, <2>2 DEF Along
        <3>5. ASSUME Given(p, name), Along(stack, p, n)
              PROVE  p = Here(caller) \/ (d <= Len(p) /\ p[d] < stack[d].next)
            <4>1. n <= Len(p) /\ Len(p) \in Nat
                BY <3>5 DEF Along, Path
            <4>2. CASE Len(p) = n
                BY <1>1, <2>2, <3>5, <4>2, HereIs
            <4>3. CASE Len(p) # n
                <5>1. d <= Len(p)
                    BY <1>2, <4>1, <4>3
                <5>2. \A k \in 1..Len(stack)-1 : p[k] = stack[k].next
                    BY <3>5 DEF Along
                <5>3. p[Len(stack)] < stack[Len(stack)].next
                    BY <1>1, <3>5, <5>1, <5>2, ThroughPassed
                <5> QED
                    BY <5>1, <5>3
            <4> QED
                BY <4>2, <4>3
        <3>6. p = Here(caller) => Along(stack, p, n) /\ ~(d <= Len(p))
            <4>1. Len(Here(caller)) = n /\ \A k \in 1..n : Here(caller)[k] = stack[k].next
                BY <1>1, <2>2, HereIs
            <4>2. n <= n /\ ~(d <= n)
                BY <1>2
            <4> QED
                BY <4>1, <4>2 DEF Along
        <3>7. p = Here(caller) => (Given(p, name) <=> Called(Field(caller), name))
            BY <2>2, <2>3, HereGiven
        <3>8. Shown(p, name) <=> Given(p, name) /\ Passed(stack, p)
            BY <1>3
        <3>9. Given(p, name)' <=> Given(p, name)
            BY <1>4
        <3> HIDE DEF n, d, caller
        <3> QED
            BY <3>1, <3>2, <3>3, <3>4, <3>5, <3>6, <3>7, <3>8, <3>9
    <2> QED
        BY <2>1, <2>4 DEF ListsPassed
<1> QED
    BY <1>5, <1>6

LEMMA ListsPassedStep ==
    TypeOK /\ Nested(stack) /\ ListsPassed /\ [Next]_vars => ListsPassed'
<1> SUFFICES ASSUME TypeOK, Nested(stack), ListsPassed, [Next]_vars
             PROVE  ListsPassed'
    OBVIOUS
<1>1. CASE Unreadable
    <2>1. outcome' = "empty"
        BY <1>1 DEF Unreadable
    <2> QED
        BY <2>1 DEF ListsPassed
<1>2. CASE UNCHANGED vars
    <2>1. stack' = stack /\ accepts' = accepts /\ outcome' = outcome
        BY <1>2 DEF vars
    <2>2. \A p, name : Given(p, name)' <=> Given(p, name)
        BY SameGiven
    <2>3. \A p, name : Shown(p, name)' <=> Shown(p, name)
        BY <2>1 DEF Shown
    <2> QED
        BY <2>1, <2>2, <2>3 DEF ListsPassed
<1> QED
    BY <1>1, <1>2, ListsGenerate, ListsIgnore, ListsAddScalar, ListsDescend, ListsReturn
    DEF Next

LEMMA NestedStep == TypeOK /\ Nested(stack) /\ [Next]_vars => Nested(stack)'
<1> SUFFICES ASSUME TypeOK, Nested(stack), [Next]_vars
             PROVE  Nested(stack)'
    OBVIOUS
<1>1. fields' = fields /\ root' = root
    BY SameInput DEF input
<1> SUFFICES Nested(stack')
    BY <1>1 DEF Nested, Field
<1>2. CASE Generate
    <2>1. stack = <<>>
        BY <1>2 DEF Generate
    <2>2. CASE root \in WellKnown
        BY <1>2, <2>2 DEF Generate
    <2>3. CASE root \notin WellKnown
        <3>1. stack' = <<[msg |-> root, at |-> <<>>, next |-> 1]>>
            BY <1>2, <2>3 DEF Generate, Call
        <3>2. Len(stack') = 1 /\ stack'[1].msg = root /\ stack'[1].at = <<>>
            BY <3>1
        <3>3. \A i \in 1..1 : i = 1 /\ 1..i-1 = {}
            OBVIOUS
        <3>4. 1..1-1 = {} /\ Len(<<>>) = 1 - 1
            OBVIOUS
        <3> QED
            BY <3>2, <3>3, <3>4 DEF Nested
    <2> QED
        BY <2>2, <2>3
<1>3. CASE Ignore \/ AddScalar
    <2>1. stack # <<>> /\ stack \in Seq(Frame) /\ stack' = Advance(stack)
        BY <1>3 DEF Ignore, AddScalar, Readable, AtField, TypeOK
    <2> QED
        BY <2>1, NestedAdvance
<1>4. CASE Descend
    <2>1. CASE Len(stack) = StackLimit
        BY <1>4, <2>1 DEF Descend
    <2>2. CASE Len(stack) # StackLimit
        <3>1. /\ stack # <<>> /\ stack \in Seq(Frame) /\ Top = stack[Len(stack)]
              /\ Top.next \in DOMAIN fields[Top.msg]
              /\ Field(Top).visibility # "FieldIgnore"
              /\ Field(Top).of \in Message
              /\ stack' = Append(stack, Call(Field(Top).of, Here(Top)))
            BY <1>4, <2>2, TopFacts DEF Descend, Readable, AtField, TypeOK
        <3> QED
            BY <3>1, NestedCall
    <2> QED
        BY <2>1, <2>2
<1>5. CASE Return
    <2>1. /\ stack # <<>> /\ stack \in Seq(Frame) /\ Below \in Seq(Frame)
          /\ Len(stack) \in Nat \ {0} /\ Len(Below) = Len(stack) - 1
          /\ \A i \in 1..Len(stack)-1 : Below[i] = stack[i]
        BY <1>5, TopFacts DEF Return, TypeOK
    <2>2. Nested(Below)
        BY <2>1, NestedBelow
    <2>3. CASE Len(stack) = 1
        BY <1>5, <2>2, <2>3 DEF Return
    <2>4. CASE Len(stack) # 1
        <3>1. stack' = Advance(Below) /\ Below # <<>>
            BY <1>5, <2>1, <2>4 DEF Return
        <3> QED
            BY <2>1, <2>2, <3>1, NestedAdvance
    <2> QED
        BY <2>3, <2>4
<1>6. CASE Unreadable \/ UNCHANGED vars
    BY <1>6 DEF Unreadable, vars
<1> QED
    BY <1>2, <1>3, <1>4, <1>5, <1>6 DEF Next

\* The names that are added are of fields no deeper than the calls are.
LEMMA NamesShallow ==
    ASSUME Nested(stack), stack \in Seq(Frame), Len(stack) <= StackLimit,
           NEW d \in 1..Len(stack), NEW e \in Names(stack[d])
    PROVE  Len(e.at) <= StackLimit
<1>1. e.at = Here(stack[d])
    BY NamesListed
<1>2. Len(e.at) = d
    BY <1>1, HereIs
<1>3. Len(stack) \in Nat /\ StackLimit \in Nat
    BY StackLimitAssumption
<1> QED
    BY <1>2, <1>3

LEMMA WithinStackStep ==
    TypeOK /\ Nested(stack) /\ WithinStack /\ [Next]_vars => WithinStack'
<1> SUFFICES ASSUME TypeOK, Nested(stack), WithinStack, [Next]_vars
             PROVE  WithinStack'
    OBVIOUS
<1>1. /\ stack \in Seq(Frame) /\ Len(stack) \in Nat /\ Len(stack) <= StackLimit
      /\ StackLimit \in Nat \ {0}
      /\ \A e \in accepts : Len(e.at) <= StackLimit
    BY StackLimitAssumption DEF TypeOK, WithinStack
<1>2. CASE Generate
    <2>1. accepts' = accepts /\ (stack' = stack \/ stack' = <<Call(root, <<>>)>>)
        BY <1>2 DEF Generate
    <2>2. CASE stack' = stack
        BY <1>1, <2>1, <2>2 DEF WithinStack
    <2>3. CASE stack' = <<Call(root, <<>>)>>
        <3>1. Len(stack') = 1
            BY <2>3
        <3> QED
            BY <1>1, <2>1, <3>1 DEF WithinStack
    <2> QED
        BY <2>1, <2>2, <2>3
<1>3. CASE Ignore
    <2>1. Len(stack') = Len(stack) /\ accepts' = accepts
        BY <1>1, <1>3, AdvanceFacts DEF Ignore, AtField
    <2> QED
        BY <1>1, <2>1 DEF WithinStack
<1>4. CASE AddScalar
    <2>1. /\ stack # <<>> /\ Top = stack[Len(stack)] /\ Len(stack) \in 1..Len(stack)
          /\ stack' = Advance(stack) /\ accepts' = accepts \cup Names(Top)
        BY <1>4, TopFacts DEF AddScalar, Readable, AtField
    <2>2. Len(stack') = Len(stack)
        BY <1>1, <2>1, AdvanceFacts
    <2>3. \A e \in Names(Top) : Len(e.at) <= StackLimit
        BY <1>1, <2>1, NamesShallow
    <2> QED
        BY <1>1, <2>1, <2>2, <2>3 DEF WithinStack
<1>5. CASE Descend
    <2>1. accepts' = accepts
        BY <1>5 DEF Descend
    <2>2. CASE Len(stack) = StackLimit
        BY <1>1, <1>5, <2>1, <2>2 DEF Descend, WithinStack
    <2>3. CASE Len(stack) # StackLimit
        <3>1. stack' = Append(stack, Call(Field(Top).of, Here(Top)))
            BY <1>5, <2>3 DEF Descend
        <3>2. Len(stack') = Len(stack) + 1
            BY <1>1, <3>1
        <3> QED
            BY <1>1, <2>1, <2>3, <3>2 DEF WithinStack
    <2> QED
        BY <2>2, <2>3
<1>6. CASE Return
    <2>1. /\ stack # <<>> /\ Below \in Seq(Frame) /\ Len(stack) \in Nat \ {0}
          /\ Len(Below) = Len(stack) - 1
        BY <1>6, TopFacts DEF Return
    <2>2. CASE Len(stack) = 1
        <3>1. stack' = Below /\ accepts' = accepts
            BY <1>6, <2>2 DEF Return
        <3> QED
            BY <1>1, <2>1, <3>1 DEF WithinStack
    <2>3. CASE Len(stack) # 1
        <3>1. /\ stack' = Advance(Below) /\ accepts' = accepts \cup Names(stack[Len(stack) - 1])
              /\ Below # <<>> /\ Len(stack) - 1 \in 1..Len(stack)
            BY <1>6, <2>1, <2>3 DEF Return
        <3>2. Len(stack') = Len(stack) - 1
            BY <2>1, <3>1, AdvanceFacts
        <3>3. \A e \in Names(stack[Len(stack) - 1]) : Len(e.at) <= StackLimit
            BY <1>1, <3>1, NamesShallow
        <3> QED
            BY <1>1, <3>1, <3>2, <3>3 DEF WithinStack
    <2> QED
        BY <2>2, <2>3
<1>7. CASE Unreadable \/ UNCHANGED vars
    BY <1>7 DEF Unreadable, vars, WithinStack
<1> QED
    BY <1>2, <1>3, <1>4, <1>5, <1>6, <1>7 DEF Next

LEMMA ListInvInit == Init => ListInv
<1> SUFFICES ASSUME Init
             PROVE  ListInv
    OBVIOUS
<1>1. stack = <<>> /\ accepts = {} /\ outcome = "running" /\ Len(stack) = 0
    BY DEF Init
<1>2. Nested(stack)
    BY <1>1 DEF Nested
<1>3. WithinStack
    BY <1>1, StackLimitAssumption DEF WithinStack
<1>4. ListsPassed
    BY <1>1 DEF ListsPassed, Shown, Passed
<1> QED
    BY <1>2, <1>3, <1>4, IInvInit DEF ListInv

LEMMA ListInvStep == ListInv /\ [Next]_vars => ListInv'
    BY IInvStep, NestedStep, WithinStackStep, ListsPassedStep DEF ListInv, IInv

-----------------------------------------------------------------------------
\* There is such a path, of so many fields.
Leads(p) == p # <<>> /\ \E types \in [DOMAIN p -> Message] : Described(p, types)

\* A path that comes through a type twice can go round once more, so a longest one is
\* no longer than there are types.
LEMMA GoesRound ==
    ASSUME NEW p \in Path, NEW types \in [DOMAIN p -> Message], Described(p, types),
           NEW i \in DOMAIN p, NEW j \in DOMAIN p, i < j, types[i] = types[j]
    PROVE  \E q \in Path : Leads(q) /\ Len(q) > Len(p)
<1> DEFINE n == Len(p)
           r == j - i
           q == [k \in 1..n + r |-> IF k < j THEN p[k] ELSE p[k - r]]
           trail == [k \in 1..n + r |-> IF k < j THEN types[k] ELSE types[k - r]]
<1>1. /\ n \in Nat /\ i \in 1..n /\ j \in 1..n /\ DOMAIN p = 1..n
      /\ \A k \in 1..n : p[k] \in Nat \ {0} /\ types[k] \in Message
    BY DEF Path
<1>2. r \in Nat \ {0} /\ j - r = i
    BY <1>1
<1>3. /\ types[1] = root
      /\ \A k \in 1..n :
            /\ p[k] \in DOMAIN fields[types[k]]
            /\ fields[types[k]][p[k]].visibility # "FieldIgnore"
            /\ k < n => fields[types[k]][p[k]].of = types[k + 1]
    BY <1>1 DEF Described, Follows
<1> HIDE DEF n, r
<1>4. ASSUME NEW k \in 1..n + r
      PROVE  /\ k < j => k \in 1..n
             /\ ~(k < j) => k - r \in 1..n
    BY <1>1, <1>2, <1>4
<1>5. \A k \in 1..n + r : q[k] \in Nat \ {0} /\ trail[k] \in Message
    BY <1>1, <1>4
<1>6. n + r \in Nat /\ n + r > n /\ n + r > 0
    BY <1>1, <1>2
<1>7. q \in Path /\ Len(q) = n + r /\ DOMAIN q = 1..n + r /\ q # <<>>
    <2> DEFINE l == n + r
    <2>1. l \in Nat /\ l > 0 /\ \A k \in 1..l : q[k] \in Nat \ {0}
        BY <1>5, <1>6
    <2>2. q = [k \in 1..l |-> q[k]]
        OBVIOUS
    <2> HIDE DEF q, l
    <2>3. q \in Path /\ Len(q) = l /\ DOMAIN q = 1..l
        <3>1. q \in [1..l -> Nat \ {0}]
            BY <2>1, <2>2, Zenon
        <3>2. q \in Seq(Nat \ {0})
            BY <2>1, <3>1
        <3>3. DOMAIN q = 1..l
            BY <3>1
        <3>4. Len(q) = l
            BY <2>1, <3>2, <3>3
        <3> QED
            BY <3>2, <3>3, <3>4 DEF Path
    <2>4. q # <<>>
        BY <2>1, <2>3
    <2> QED
        BY <2>3, <2>4 DEF l
<1>8. trail \in [1..n + r -> Message]
    BY <1>5
<1>9. trail[1] = root
    BY <1>1, <1>3, <1>6
<1>10. ASSUME NEW k \in 1..n + r
       PROVE  /\ q[k] \in DOMAIN fields[trail[k]]
              /\ fields[trail[k]][q[k]].visibility # "FieldIgnore"
              /\ k < n + r => fields[trail[k]][q[k]].of = trail[k + 1]
    <2>1. CASE k < j
        <3>1. q[k] = p[k] /\ trail[k] = types[k] /\ k \in 1..n /\ k < n
            BY <1>1, <1>4, <2>1
        <3>2. trail[k + 1] = types[k + 1]
            <4>1. k + 1 \in 1..n + r
                BY <1>1, <1>2, <2>1
            <4>2. CASE k + 1 < j
                BY <4>1, <4>2
            <4>3. CASE k + 1 = j
                <5>1. trail[j] = types[j - r]
                    BY <4>1, <4>3
                <5> QED
                    BY <1>2, <4>3, <5>1
            <4> QED
                BY <1>1, <2>1, <4>2, <4>3
        <3> QED
            BY <1>3, <3>1, <3>2
    <2>2. CASE ~(k < j)
        <3>1. q[k] = p[k - r] /\ trail[k] = types[k - r] /\ k - r \in 1..n
            BY <1>4, <2>2
        <3>2. k < n + r => trail[k + 1] = types[(k - r) + 1] /\ k - r < n
            <4>1. ASSUME k < n + r
                  PROVE  /\ k + 1 \in 1..n + r /\ ~(k + 1 < j)
                         /\ (k + 1) - r = (k - r) + 1 /\ k - r < n
                BY <1>1, <1>2, <2>2, <4>1
            <4> QED
                BY <4>1
        <3> HIDE DEF q, trail
        <3> QED
            BY <1>3, <3>1, <3>2
    <2> QED
        BY <2>1, <2>2
<1> HIDE DEF q, trail
<1>11. Described(q, trail)
    BY <1>7, <1>9, <1>10 DEF Described, Follows
<1>12. Leads(q)
    BY <1>7, <1>8, <1>11 DEF Leads
<1> QED
    BY <1>6, <1>7, <1>12 DEF n

LEMMA NoLongPath ==
    ASSUME \A p \in Path : Leads(p) => Len(p) <= StackLimit,
           NEW p \in Path, Leads(p)
    PROVE  Len(p) <= Cardinality(Message)
<1> DEFINE all == {q \in Path : Leads(q)}
           S == {StackLimit - Len(q) : q \in all}
<1>1. StackLimit \in Nat /\ Cardinality(Message) \in Nat /\ \A q \in Path : Len(q) \in Nat
    BY StackLimitAssumption, MessageAssumption, FS_CardinalityType DEF Path
<1>2. S \in SUBSET Nat /\ S # {}
    BY <1>1
<1>3. PICK least \in S : \A m \in S : least <= m
    <2> HIDE DEF S
    <2> QED
        BY <1>2, LeastNatural
<1>4. PICK q \in all : least = StackLimit - Len(q)
    BY <1>3
<1>5. \A o \in all : Len(o) <= Len(q)
    <2>1. \A o \in all : StackLimit - Len(q) <= StackLimit - Len(o)
        BY <1>3, <1>4
    <2> QED
        BY <1>1, <1>4, <2>1
<1>6. CASE Len(q) <= Cardinality(Message)
    <2>1. Len(p) <= Len(q)
        BY <1>5
    <2> QED
        BY <1>1, <1>4, <1>6, <2>1
<1>7. CASE Cardinality(Message) < Len(q)
    <2>1. PICK types \in [DOMAIN q -> Message] : Described(q, types)
        BY <1>4 DEF Leads
    <2>2. DOMAIN q = 1..Len(q) /\ Len(q) \in Nat
        BY <1>4 DEF Path
    <2>3. IsFiniteSet(DOMAIN q) /\ Cardinality(DOMAIN q) = Len(q)
        <3> DEFINE n == Len(q)
        <3>1. n \in Nat /\ DOMAIN q = 1..n
            BY <2>2
        <3> HIDE DEF n
        <3>2. IsFiniteSet(1..n) /\ Cardinality(1..n) = n
            BY <3>1, FS_Interval
        <3> QED
            BY <3>1, <3>2 DEF n
    <2>4. PICK i \in DOMAIN q, j \in DOMAIN q : i # j /\ types[i] = types[j]
        BY <1>7, <2>3, MessageAssumption, FS_PigeonHole
    <2>5. i \in Nat /\ j \in Nat
        BY <2>2
    <2>6. \E o \in Path : Leads(o) /\ Len(o) > Len(q)
        <3>1. CASE i < j
            BY <1>4, <2>1, <2>4, <3>1, GoesRound
        <3>2. CASE j < i
            BY <1>4, <2>1, <2>4, <3>2, GoesRound
        <3> QED
            BY <2>4, <2>5, <3>1, <3>2
    <2> QED
        BY <1>1, <1>4, <1>5, <2>6
<1> QED
    BY <1>1, <1>4, <1>6, <1>7

\* A path goes through one row of messages only.
LEMMA OneWay ==
    ASSUME NEW p \in Path,
           NEW types \in [DOMAIN p -> Message], Follows(p, types),
           NEW others \in [DOMAIN p -> Message], Follows(p, others)
    PROVE  types = others
<1> DEFINE Bad == {i \in DOMAIN p : types[i] # others[i]}
<1>1. Len(p) \in Nat /\ DOMAIN p = 1..Len(p)
    BY DEF Path
<1>2. Bad = {}
    <2> SUFFICES ASSUME Bad # {}
                 PROVE  FALSE
        OBVIOUS
    <2>1. Bad \in SUBSET Nat
        BY <1>1
    <2>2. PICK i \in Bad : \A j \in Bad : i <= j
        <3> HIDE DEF Bad
        <3> QED
            BY <2>1, LeastNatural
    <2>3. i \in 1..Len(p) /\ types[i] # others[i] /\ i # 1
        BY <1>1, <2>2 DEF Follows
    <2>4. /\ i - 1 \in DOMAIN p /\ i - 1 < Len(p) /\ (i - 1) + 1 = i
          /\ i - 1 \in Nat /\ i \in Nat /\ i - 1 < i
        BY <1>1, <2>3
    <2>5. types[i - 1] = others[i - 1]
        <3>1. i - 1 \notin Bad
            <4> HIDE DEF Bad
            <4> QED
                BY <2>2, <2>4
        <3> QED
            BY <2>4, <3>1
    <2>6. types[i] = others[i]
        BY <2>4, <2>5 DEF Follows
    <2> QED
        BY <2>3, <2>6
<1>3. \A i \in DOMAIN p : types[i] = others[i]
    BY <1>2
<1> QED
    BY <1>3

\* What is described, well-known types aside, is what protojson takes and no comment
\* leaves out.
LEMMA GivenTaken ==
    ASSUME NEW p \in Path, p # <<>>, NEW name
    PROVE  Given(p, name) /\ ~InWellKnown(p)
              <=> name \in {"proto", "json"} /\ Reads(p, name) /\ ~LeftOut(p)
<1>1. ASSUME Given(p, name), ~InWellKnown(p)
      PROVE  name \in {"proto", "json"} /\ Reads(p, name) /\ ~LeftOut(p)
    <2>1. PICK types \in [DOMAIN p -> Message] :
              Described(p, types) /\ Called(fields[types[Len(p)]][p[Len(p)]], name)
        BY <1>1 DEF Given
    <2>2. Follows(p, types)
        BY <2>1 DEF Described
    <2>3. \A i \in DOMAIN p : types[i] \notin WellKnown
        BY <1>1, <2>2 DEF InWellKnown
    <2>4. name \in {"proto", "json"} /\ Reads(p, name)
        BY <2>1, <2>2, <2>3 DEF Reads, Called
    <2>5. ~LeftOut(p)
        <3> SUFFICES ASSUME NEW others \in [DOMAIN p -> Message], Follows(p, others),
                            NEW i \in DOMAIN p,
                            fields[others[i]][p[i]].visibility = "FieldIgnore"
                     PROVE  FALSE
            BY DEF LeftOut
        <3>1. others = types
            BY <2>2, OneWay
        <3> QED
            BY <2>1, <3>1 DEF Described
    <2> QED
        BY <2>4, <2>5
<1>2. ASSUME name \in {"proto", "json"}, Reads(p, name), ~LeftOut(p)
      PROVE  Given(p, name) /\ ~InWellKnown(p)
    <2>1. PICK types \in [DOMAIN p -> Message] :
              /\ Follows(p, types)
              /\ \A i \in DOMAIN p : types[i] \notin WellKnown
              /\ name = "json" => fields[types[Len(p)]][p[Len(p)]].aliased
        BY <1>2 DEF Reads
    <2>2. Described(p, types)
        BY <1>2, <2>1 DEF Described, LeftOut
    <2>3. Given(p, name)
        BY <1>2, <2>1, <2>2 DEF Given, Called
    <2>4. ~InWellKnown(p)
        <3> SUFFICES ASSUME NEW others \in [DOMAIN p -> Message], Follows(p, others),
                            NEW i \in DOMAIN p, others[i] \in WellKnown
                     PROVE  FALSE
            BY DEF InWellKnown
        <3>1. others = types
            BY <2>1, OneWay
        <3> QED
            BY <2>1, <3>1
    <2> QED
        BY <2>3, <2>4
<1> QED
    BY <1>1, <1>2

\* The paths of InputNames are those of that length.
LEMMA ShortPaths ==
    ASSUME TypeOK
    PROVE  LET indexes == UNION {DOMAIN fields[m] : m \in Message}
               paths == UNION {[1..n -> indexes] : n \in 1..Cardinality(Message)}
           IN  /\ \A p \in paths : p \in Path /\ p # <<>>
               /\ \A p \in Path : Leads(p) /\ Len(p) <= Cardinality(Message) => p \in paths
<1> DEFINE indexes == UNION {DOMAIN fields[m] : m \in Message}
           paths == UNION {[1..n -> indexes] : n \in 1..Cardinality(Message)}
<1>1. Cardinality(Message) \in Nat
    BY MessageAssumption, FS_CardinalityType
<1>2. indexes \subseteq Nat \ {0}
    <2>1. \A m \in Message : fields[m] \in Seq(FieldDecl)
        BY DeclarationsAssumption DEF TypeOK
    <2>2. \A m \in Message : DOMAIN fields[m] \subseteq Nat \ {0}
        BY <2>1
    <2> QED
        BY <2>2
<1>3. ASSUME NEW p \in paths
      PROVE  p \in Path /\ p # <<>>
    <2>1. PICK n \in 1..Cardinality(Message) : p \in [1..n -> indexes]
        OBVIOUS
    <2> HIDE DEF indexes, paths
    <2>2. n \in Nat \ {0} /\ p \in [1..n -> Nat \ {0}]
        <3>1. n \in Nat \ {0}
            BY <1>1
        <3>2. \A k \in 1..n : p[k] \in Nat \ {0}
            BY <1>2, <2>1
        <3>3. p = [k \in 1..n |-> p[k]]
            BY <2>1
        <3> QED
            BY <3>1, <3>2, <3>3, Zenon
    <2>3. p \in Seq(Nat \ {0})
        BY <2>2
    <2>4. Len(p) = n
        BY <2>2, <2>3
    <2> QED
        BY <2>2, <2>3, <2>4 DEF Path
<1>4. ASSUME NEW p \in Path, Leads(p), Len(p) <= Cardinality(Message)
      PROVE  p \in paths
    <2>1. PICK types \in [DOMAIN p -> Message] : Described(p, types)
        BY <1>4 DEF Leads
    <2>2. Len(p) \in Nat \ {0} /\ DOMAIN p = 1..Len(p)
        <3>1. p # <<>>
            BY <1>4 DEF Leads
        <3> QED
            BY <3>1 DEF Path
    <2>3. \A k \in DOMAIN p : p[k] \in indexes
        BY <2>1 DEF Described, Follows
    <2>4. p = [k \in DOMAIN p |-> p[k]]
        BY DEF Path
    <2>5. p \in [1..Len(p) -> indexes]
        <3> HIDE DEF indexes
        <3> QED
            BY <2>2, <2>3, <2>4, Zenon
    <2>6. Len(p) \in 1..Cardinality(Message)
        BY <1>1, <1>4, <2>2
    <2> QED
        BY <2>5, <2>6
<1> QED
    BY <1>3, <1>4

\* A finished schema describes no path that is longer than there are types.
LEMMA NoneLonger ==
    ASSUME ListInv, outcome = "schema", NEW p \in Path, Leads(p)
    PROVE  Len(p) <= Cardinality(Message)
<1>1. ASSUME NEW q \in Path, Leads(q)
      PROVE  Len(q) <= StackLimit
    <2>1. Given(q, "proto")
        BY <1>1 DEF Given, Leads, Called
    <2>2. PICK e \in accepts : e.at = q
        BY <2>1 DEF Shown, ListInv, ListsPassed
    <2> QED
        BY <2>2 DEF ListInv, WithinStack
<1> QED
    BY <1>1, NoLongPath

LEMMA GivenLeads ==
    ASSUME NEW p, NEW name, Given(p, name)
    PROVE  Leads(p)
BY DEF Given, Leads

LEMMA ListInvListsEveryName ==
    ASSUME ListInv
    PROVE  ListsEveryName
<1> DEFINE listed == {<<e.at, e.name>> : e \in accepts}
           indexes == UNION {DOMAIN fields[m] : m \in Message}
           paths == UNION {[1..n -> indexes] : n \in 1..Cardinality(Message)}
<1> SUFFICES ASSUME outcome = "schema"
             PROVE  {x \in listed : ~InWellKnown(x[1])} = {x \in InputNames : ~LeftOut(x[1])}
    BY DEF ListsEveryName
<1>1. TypeOK /\ \A p \in Path : \A name : Shown(p, name) <=> Given(p, name)
    BY DEF ListInv, IInv, ListsPassed
<1>2. /\ \A p \in paths : p \in Path /\ p # <<>>
      /\ \A p \in Path : Leads(p) /\ Len(p) <= Cardinality(Message) => p \in paths
    BY <1>1, ShortPaths
<1>3. InputNames = {x \in paths \X {"proto", "json"} : Reads(x[1], x[2])}
    BY DEF InputNames
<1> HIDE DEF paths
<1>4. ASSUME NEW x \in listed, ~InWellKnown(x[1])
      PROVE  x \in InputNames /\ ~LeftOut(x[1])
    <2>1. PICK e \in accepts : x = <<e.at, e.name>>
        OBVIOUS
    <2>2. e.at \in Path /\ Shown(e.at, e.name)
        BY <1>1 DEF TypeOK, Name, Shown
    <2>3. Given(e.at, e.name)
        BY <1>1, <2>2
    <2>4. e.at # <<>> /\ Leads(e.at)
        BY <2>3, GivenLeads DEF Given
    <2>5. e.at \in paths
        BY <1>2, <2>2, <2>4, NoneLonger
    <2>6. e.name \in {"proto", "json"} /\ Reads(e.at, e.name) /\ ~LeftOut(e.at)
        BY <1>4, <2>1, <2>2, <2>3, <2>4, GivenTaken
    <2> QED
        BY <1>3, <2>1, <2>5, <2>6
<1>5. ASSUME NEW x \in InputNames, ~LeftOut(x[1])
      PROVE  x \in listed /\ ~InWellKnown(x[1])
    <2>1. PICK p \in paths, name \in {"proto", "json"} : x = <<p, name>> /\ Reads(p, name)
        BY <1>3
    <2>2. p \in Path /\ p # <<>> /\ ~LeftOut(p)
        BY <1>2, <1>5, <2>1
    <2>3. Given(p, name) /\ ~InWellKnown(p)
        BY <2>1, <2>2, GivenTaken
    <2>4. PICK e \in accepts : e.at = p /\ e.name = name
        BY <1>1, <2>2, <2>3 DEF Shown
    <2> QED
        BY <2>1, <2>3, <2>4
<1> HIDE DEF listed
<1> QED
    BY <1>4, <1>5

\* A finished schema lists the names that protojson takes for the fields that no
\* comment leaves out, and no others but for those inside well-known types
\* (addFieldProperties), for any message types whatever.
THEOREM ListsEveryNameCorrect == Spec => []ListsEveryName
<1>1. ListInv => ListsEveryName
    BY ListInvListsEveryName
<1> QED
    BY <1>1, ListInvInit, ListInvStep, PTL DEF Spec

\* The same of every path, however long: outside well-known types a finished schema
\* takes a name exactly where protojson does and no comment leaves the field out.
THEOREM ListsAtEveryDepth ==
    Spec => [](outcome = "schema" =>
                  \A p \in Path \ {<<>>}, name \in {"proto", "json"} : ~InWellKnown(p) =>
                      ((\E e \in accepts : e.at = p /\ e.name = name)
                          <=> Reads(p, name) /\ ~LeftOut(p)))
<1> DEFINE Exact == outcome = "schema" =>
               \A p \in Path \ {<<>>}, name \in {"proto", "json"} : ~InWellKnown(p) =>
                   ((\E e \in accepts : e.at = p /\ e.name = name)
                       <=> Reads(p, name) /\ ~LeftOut(p))
<1>1. ListInv => Exact
    <2> SUFFICES ASSUME ListInv, outcome = "schema", NEW p \in Path \ {<<>>},
                        NEW name \in {"proto", "json"}, ~InWellKnown(p)
                 PROVE  (\E e \in accepts : e.at = p /\ e.name = name)
                            <=> Reads(p, name) /\ ~LeftOut(p)
        OBVIOUS
    <2>1. Shown(p, name) <=> Given(p, name)
        BY DEF ListInv, ListsPassed
    <2> QED
        BY <2>1, GivenTaken DEF Shown
<1> HIDE DEF Exact
<1>2. Spec => []Exact
    BY <1>1, ListInvInit, ListInvStep, PTL DEF Spec
<1> QED
    BY <1>2 DEF Exact

-----------------------------------------------------------------------------
\* What the keywords on numbers say of n, given or left out.
Obeys(n, keywords) == \A k \in keywords : Holds(k, n)

LEMMA KeywordsSay ==
    ASSUME NEW n \in Int, NEW val \in Int, NEW given \in BOOLEAN
    PROVE  /\ Obeys(n, Keyword("minimum", val, given)) <=> (given => n >= val)
           /\ Obeys(n, Keyword("maximum", val, given)) <=> (given => n <= val)
           /\ Obeys(n, Keyword("exclusiveMinimum", val, given)) <=> (given => n > val)
           /\ Obeys(n, Keyword("exclusiveMaximum", val, given)) <=> (given => n < val)
<1>1. \A word : Obeys(n, Keyword(word, val, given)) <=>
                   (given => Holds([word |-> word, val |-> val], n))
    BY DEF Obeys, Keyword
<1>2. /\ Holds([word |-> "minimum", val |-> val], n) <=> n >= val
      /\ Holds([word |-> "maximum", val |-> val], n) <=> n <= val
      /\ Holds([word |-> "exclusiveMinimum", val |-> val], n) <=> n > val
      /\ Holds([word |-> "exclusiveMaximum", val |-> val], n) <=> n < val
    BY DEF Holds
<1> QED
    BY <1>1, <1>2

LEMMA KeywordSaysAlways ==
    ASSUME NEW n \in Int, NEW val \in Int
    PROVE  /\ Obeys(n, Keyword("minimum", val, TRUE)) <=> n >= val
           /\ Obeys(n, Keyword("maximum", val, TRUE)) <=> n <= val
           /\ Obeys(n, Keyword("exclusiveMinimum", val, TRUE)) <=> n > val
           /\ Obeys(n, Keyword("exclusiveMaximum", val, TRUE)) <=> n < val
<1> DEFINE always == TRUE
<1>1. always /\ always \in BOOLEAN
    OBVIOUS
<1> HIDE DEF always
<1>2. /\ Obeys(n, Keyword("minimum", val, always)) <=> n >= val
      /\ Obeys(n, Keyword("maximum", val, always)) <=> n <= val
      /\ Obeys(n, Keyword("exclusiveMinimum", val, always)) <=> n > val
      /\ Obeys(n, Keyword("exclusiveMaximum", val, always)) <=> n < val
    BY <1>1, KeywordsSay
<1> QED
    BY <1>2, Zenon DEF always

LEMMA ObeysBoth ==
    ASSUME NEW n, NEW K, NEW L
    PROVE  Obeys(n, K \cup L) <=> Obeys(n, K) /\ Obeys(n, L)
BY DEF Obeys

LEMMA TakesOne ==
    ASSUME NEW n, NEW V, NEW K
    PROVE  TakesNumber({Branch(V, K)}, n) <=> (V = {} \/ n \in V) /\ Obeys(n, K)
BY DEF TakesNumber, Branch, Obeys

LEMMA TakesAny ==
    ASSUME NEW n, NEW K
    PROVE  TakesNumber({Branch({}, K)}, n) <=> Obeys(n, K)
BY DEF TakesNumber, Branch, Obeys

LEMMA TakesEither ==
    ASSUME NEW n, NEW V, NEW K, NEW W, NEW L
    PROVE  TakesNumber({Branch(V, K), Branch(W, L)}, n) <=>
              \/ (V = {} \/ n \in V) /\ Obeys(n, K)
              \/ (W = {} \/ n \in W) /\ Obeys(n, L)
BY DEF TakesNumber, Branch, Obeys

\* Bounds that some number lies between: as the rules define it and as the code tells.
LEMMA BetweenUnlessOr ==
    ASSUME NEW numbers \in SUBSET Int, NEW r,
           r.lower \in Bound({"gt", "gte"}, numbers),
           r.upper \in Bound({"lt", "lte"}, numbers),
           r.lower # None, r.upper # None
    PROVE  Between(r, numbers) <=> ~IsOr(r)
<1>1. /\ r.lower.val \in numbers /\ r.lower.kind \in {"gt", "gte"}
      /\ r.upper.val \in numbers /\ r.upper.kind \in {"lt", "lte"}
    BY DEF Bound
<1> DEFINE a == r.lower.val
           b == r.upper.val
<1>2. a \in Int /\ b \in Int
    BY <1>1
<1>3. ASSUME NEW x \in Int
      PROVE  /\ AboveLower(r, x) <=> IF r.lower.kind = "gt" THEN x > 2 * a ELSE x >= 2 * a
             /\ BelowUpper(r, x) <=> IF r.upper.kind = "lt" THEN x < 2 * b ELSE x <= 2 * b
    BY <1>1 DEF AboveLower, BelowUpper
<1>4. IsOr(r) <=> IF r.lower.kind = "gte" /\ r.upper.kind = "lte" THEN b < a ELSE b <= a
    BY DEF IsOr
<1> HIDE DEF a, b
<1>5. ASSUME Between(r, numbers) PROVE ~IsOr(r)
    <2>1. PICK n \in numbers, d \in {0, 1} :
              AboveLower(r, 2 * n + d) /\ BelowUpper(r, 2 * n + d)
        BY <1>5 DEF Between
    <2>2. 2 * n + d \in Int
        OBVIOUS
    <2> QED
        BY <1>1, <1>2, <1>3, <1>4, <2>1, <2>2
<1>6. ASSUME ~IsOr(r) PROVE Between(r, numbers)
    <2>1. a \in numbers
        BY <1>1 DEF a
    <2>2. \E d \in {0, 1} : AboveLower(r, 2 * a + d) /\ BelowUpper(r, 2 * a + d)
        <3>1. 2 * a + 0 \in Int /\ 2 * a + 1 \in Int
            BY <1>2
        <3>2. CASE r.lower.kind = "gt"
            BY <1>1, <1>2, <1>3, <1>4, <1>6, <3>1, <3>2
        <3>3. CASE r.lower.kind = "gte"
            BY <1>1, <1>2, <1>3, <1>4, <1>6, <3>1, <3>3
        <3> QED
            BY <1>1, <3>2, <3>3
    <2> QED
        BY <2>1, <2>2 DEF Between
<1> QED
    BY <1>5, <1>6

-----------------------------------------------------------------------------
\* A number within a bound.
Over(r, n) ==
    /\ r.lower.kind = "gt" => n > r.lower.val
    /\ r.lower.kind = "gte" => n >= r.lower.val
Under(r, n) ==
    /\ r.upper.kind = "lt" => n < r.upper.val
    /\ r.upper.kind = "lte" => n <= r.upper.val

\* Rules whose bounds are among some integers.
BoundedIn(r, numbers) ==
    /\ r.lower \in Bound({"gt", "gte"}, numbers)
    /\ r.upper \in Bound({"lt", "lte"}, numbers)

LEMMA OneBound ==
    ASSUME NEW numbers \in SUBSET Int, NEW kinds, "none" \notin kinds,
           NEW b \in Bound(kinds, numbers)
    PROVE  /\ b.val \in Int /\ b.kind \in {"none"} \cup kinds
           /\ b = None <=> b.kind = "none"
           /\ b # None => b.val \in numbers
<1>1. CASE b = None
    <2>1. b.kind = "none" /\ b.val = 0
        BY <1>1 DEF None
    <2> QED
        BY <1>1, <2>1
<1>2. CASE b \in [kind : kinds, val : numbers]
    <2>1. b.kind \in kinds /\ b.val \in numbers
        BY <1>2
    <2>2. b.kind # "none"
        BY <2>1
    <2>3. None.kind = "none"
        BY DEF None
    <2>4. b # None
        BY <2>2, <2>3
    <2> QED
        BY <2>1, <2>2, <2>4
<1> QED
    BY <1>1, <1>2 DEF Bound

LEMMA Bounds ==
    ASSUME NEW numbers \in SUBSET Int, NEW r, BoundedIn(r, numbers)
    PROVE  /\ r.lower.val \in Int /\ r.lower.kind \in {"none", "gt", "gte"}
           /\ r.upper.val \in Int /\ r.upper.kind \in {"none", "lt", "lte"}
           /\ r.lower = None <=> r.lower.kind = "none"
           /\ r.upper = None <=> r.upper.kind = "none"
           /\ r.lower # None => r.lower.val \in numbers
           /\ r.upper # None => r.upper.val \in numbers
<1>1. "none" \notin {"gt", "gte"} /\ "none" \notin {"lt", "lte"}
    OBVIOUS
<1> QED
    BY <1>1, OneBound DEF BoundedIn

\* The numbers that rules allow: the halves are gone, and what tells two ranges from
\* one is what the code looks at.
LEMMA AllowedAre ==
    ASSUME NEW numbers \in SUBSET Int, NEW r, BoundedIn(r, numbers), NEW n \in numbers
    PROVE  n \in Allowed(r, numbers) <=>
              /\ r.values = {} \/ n \in r.values
              /\ IF IsOr(r) THEN Over(r, n) \/ Under(r, n) ELSE Over(r, n) /\ Under(r, n)
<1>1. (r.lower # None /\ r.upper # None /\ ~Between(r, numbers)) <=> IsOr(r)
    BY BetweenUnlessOr DEF BoundedIn, IsOr
<1>2. AboveLower(r, 2 * n) <=> Over(r, n)
    BY Bounds DEF AboveLower, Over
<1>3. BelowUpper(r, 2 * n) <=> Under(r, n)
    BY Bounds DEF BelowUpper, Under
<1> QED
    BY <1>1, <1>2, <1>3 DEF Allowed

\* A bound that is set becomes a keyword, where it is not left out.
LEMMA LowerKeyword ==
    ASSUME NEW numbers \in SUBSET Int, NEW r, BoundedIn(r, numbers), r.lower # None,
           NEW given \in BOOLEAN, NEW n \in Int
    PROVE  LET word == IF r.lower.kind = "gt" THEN "exclusiveMinimum" ELSE "minimum"
           IN  Obeys(n, Keyword(word, r.lower.val, given)) <=> (given => Over(r, n))
BY Bounds, KeywordsSay DEF Over

LEMMA UpperKeyword ==
    ASSUME NEW numbers \in SUBSET Int, NEW r, BoundedIn(r, numbers), r.upper # None,
           NEW given \in BOOLEAN, NEW n \in Int
    PROVE  LET word == IF r.upper.kind = "lt" THEN "exclusiveMaximum" ELSE "maximum"
           IN  Obeys(n, Keyword(word, r.upper.val, given)) <=> (given => Under(r, n))
BY Bounds, KeywordsSay DEF Under

-----------------------------------------------------------------------------
\* A width is narrow or wide.
LEMMA Widths ==
    ASSUME NEW half \in {NarrowHalf, WideHalf}
    PROVE  /\ half \in Nat /\ half > 0
           /\ SafeLimit \in Nat /\ maxSafeInteger \in Nat /\ maxSafeInteger = SafeLimit - 1
           /\ IF half = NarrowHalf THEN 2 * half < SafeLimit ELSE SafeLimit < half
BY WidthAssumption DEF maxSafeInteger

LEMMA SafeNumbers ==
    ASSUME NEW n \in Safe
    PROVE  /\ n \in Int
           /\ -maxSafeInteger <= n
           /\ n <= maxSafeInteger
BY WidthAssumption DEF Safe, maxSafeInteger

LEMMA TypeNumbers ==
    ASSUME NEW half \in {NarrowHalf, WideHalf}, NEW signed \in BOOLEAN
    PROVE  /\ Type(signed, half) \subseteq Int
           /\ \A n \in Int : n \in Type(signed, half) <=>
                 IF signed THEN -half <= n /\ n < half ELSE 0 <= n /\ n < 2 * half
<1>1. half \in Nat
    BY Widths
<1> QED
    BY <1>1 DEF Type

\* An upper bound that is left out is beyond all numbers that JSON holds exactly.
LEMMA UpperTakes ==
    ASSUME NEW numbers \in SUBSET Int, NEW r, BoundedIn(r, numbers), NEW otherwise, NEW n \in Safe
    PROVE  Obeys(n, Upper(r, otherwise)) <=>
              IF r.upper = None THEN Obeys(n, otherwise) ELSE Under(r, n)
<1>1. n \in Int /\ n <= maxSafeInteger
    BY SafeNumbers
<1>2. maxSafeInteger \in Int
    BY WidthAssumption DEF maxSafeInteger
<1>3. r.upper.val \in Int
    BY Bounds
<1>4. CASE r.upper.kind = "lt"
    <2> DEFINE given == r.upper.val <= maxSafeInteger
    <2>1. Upper(r, otherwise) = Keyword("exclusiveMaximum", r.upper.val, given)
        BY <1>4 DEF Upper
    <2>2. Obeys(n, Upper(r, otherwise)) <=> (given => n < r.upper.val)
        <3>1. given \in BOOLEAN
            OBVIOUS
        <3> HIDE DEF given
        <3> QED
            BY <1>1, <1>3, <2>1, <3>1, KeywordsSay
    <2> QED
        BY <1>1, <1>2, <1>3, <1>4, <2>2, Bounds DEF Under
<1>5. CASE r.upper.kind = "lte"
    <2> DEFINE given == r.upper.val < maxSafeInteger
    <2>1. Upper(r, otherwise) = Keyword("maximum", r.upper.val, given)
        BY <1>5 DEF Upper
    <2>2. Obeys(n, Upper(r, otherwise)) <=> (given => n <= r.upper.val)
        <3>1. given \in BOOLEAN
            OBVIOUS
        <3> HIDE DEF given
        <3> QED
            BY <1>1, <1>3, <2>1, <3>1, KeywordsSay
    <2> QED
        BY <1>1, <1>2, <1>3, <1>5, <2>2, Bounds DEF Under
<1>6. CASE r.upper.kind = "none"
    BY <1>6, Bounds DEF Upper
<1> QED
    BY <1>4, <1>5, <1>6, Bounds

\* What the schema of a signed integer takes of these numbers.
LEMMA GenerateIntTakes ==
    ASSUME NEW half \in {NarrowHalf, WideHalf}, NEW r, BoundedIn(r, Type(TRUE, half)), NEW n \in Safe
    PROVE  LET listed == r.values = {} \/ n \in r.values
               low == half = NarrowHalf => n >= -half
               high == half = NarrowHalf => n < half
           IN  TakesNumber(GenerateInt(r, half), n) <=>
                  IF IsOr(r) THEN (listed /\ Under(r, n) /\ low) \/ (Over(r, n) /\ high)
                  ELSE /\ listed
                       /\ IF r.lower = None THEN low ELSE Over(r, n)
                       /\ IF r.upper = None THEN high ELSE Under(r, n)
<1> DEFINE listed == r.values = {} \/ n \in r.values
           wide == 2 * half >= SafeLimit
           minVal == IF wide THEN -maxSafeInteger ELSE -half
           maxExclVal == IF wide THEN maxSafeInteger + 1 ELSE half
           gtGiven == r.lower.val >= -maxSafeInteger
           gteGiven == r.lower.val > -maxSafeInteger
           narrow == 2 * half < SafeLimit
           notWide == 2 * half <= SafeLimit
           lower == IF r.lower.kind = "gt"
                      THEN Keyword("exclusiveMinimum", r.lower.val, gtGiven)
                      ELSE Keyword("minimum", r.lower.val, gteGiven)
           atMost == Keyword("exclusiveMaximum", maxExclVal, narrow)
           atLeast == Keyword("minimum", minVal, narrow)
           least == Keyword("minimum", minVal, notWide)
           upper == Upper(r, atMost)
<1>1. GenerateInt(r, half) =
         IF IsOr(r) THEN {Branch(r.values, upper \cup atLeast), Branch({}, lower \cup atMost)}
         ELSE {Branch(r.values, upper \cup IF r.lower = None THEN least ELSE lower)}
    BY DEF GenerateInt
<1>2. /\ half \in Nat /\ half > 0
      /\ SafeLimit \in Nat /\ maxSafeInteger \in Nat /\ maxSafeInteger = SafeLimit - 1
      /\ IF half = NarrowHalf THEN 2 * half < SafeLimit ELSE SafeLimit < half
    BY Widths
<1>3. n \in Int /\ -maxSafeInteger <= n /\ n <= maxSafeInteger
    BY SafeNumbers
<1>4. minVal \in Int /\ maxExclVal \in Int
    BY <1>2
<1>5. /\ Obeys(n, atMost) <=> (half = NarrowHalf => n < half)
      /\ Obeys(n, atLeast) <=> (half = NarrowHalf => n >= -half)
      /\ Obeys(n, least) <=> (half = NarrowHalf => n >= -half)
    <2>1. /\ Obeys(n, atMost) <=> (narrow => n < maxExclVal)
          /\ Obeys(n, atLeast) <=> (narrow => n >= minVal)
          /\ Obeys(n, least) <=> (notWide => n >= minVal)
        <3>1. narrow \in BOOLEAN /\ notWide \in BOOLEAN
            OBVIOUS
        <3> HIDE DEF minVal, maxExclVal, narrow, notWide
        <3> QED
            BY <1>3, <1>4, <3>1, KeywordsSay
    <2>2. half = NarrowHalf => minVal = -half /\ maxExclVal = half
        BY <1>2
    <2> HIDE DEF atMost, atLeast, least, minVal, maxExclVal
    <2> QED
        BY <1>2, <2>1, <2>2
<1>6. Type(TRUE, half) \subseteq Int
    BY TypeNumbers
<1>7. Obeys(n, upper) <=> IF r.upper = None THEN Obeys(n, atMost) ELSE Under(r, n)
    <2> HIDE DEF atMost
    <2> QED
        BY <1>6, UpperTakes
<1>8. r.lower # None => (Obeys(n, lower) <=> Over(r, n))
    <2> SUFFICES ASSUME r.lower # None PROVE Obeys(n, lower) <=> Over(r, n)
        OBVIOUS
    <2>1. r.lower.val \in Int /\ r.lower.kind \in {"gt", "gte"}
        BY <1>6, Bounds
    <2>2. CASE r.lower.kind = "gt"
        <3>1. gtGiven \in BOOLEAN
            OBVIOUS
        <3>2. Obeys(n, lower) <=> (gtGiven => n > r.lower.val)
            <4> HIDE DEF gtGiven
            <4> QED
                BY <1>3, <2>1, <2>2, <3>1, KeywordsSay
        <3> HIDE DEF lower
        <3> QED
            BY <1>2, <1>3, <2>1, <2>2, <3>2 DEF Over
    <2>3. CASE r.lower.kind = "gte"
        <3>1. gteGiven \in BOOLEAN
            OBVIOUS
        <3>2. Obeys(n, lower) <=> (gteGiven => n >= r.lower.val)
            <4> HIDE DEF gteGiven
            <4> QED
                BY <1>3, <2>1, <2>3, <3>1, KeywordsSay
        <3> HIDE DEF lower
        <3> QED
            BY <1>2, <1>3, <2>1, <2>3, <3>2 DEF Over
    <2> QED
        BY <2>1, <2>2, <2>3
<1>9. IsOr(r) => r.lower # None /\ r.upper # None
    BY DEF IsOr
<1> HIDE DEF minVal, maxExclVal, lower, atMost, atLeast, least, upper
<1>10. TakesNumber(GenerateInt(r, half), n) <=>
          IF IsOr(r) THEN \/ listed /\ Obeys(n, upper) /\ Obeys(n, atLeast)
                          \/ Obeys(n, lower) /\ Obeys(n, atMost)
          ELSE listed /\ Obeys(n, upper) /\ IF r.lower = None THEN Obeys(n, least) ELSE Obeys(n, lower)
    <2>1. CASE IsOr(r)
        BY <1>1, <2>1, TakesEither, ObeysBoth
    <2>2. CASE ~IsOr(r)
        BY <1>1, <2>2, TakesOne, ObeysBoth
    <2> QED
        BY <2>1, <2>2
<1> QED
    BY <1>5, <1>7, <1>8, <1>9, <1>10

\* What the schema of an unsigned integer takes of these numbers.
LEMMA GenerateUintTakes ==
    ASSUME NEW half \in {NarrowHalf, WideHalf}, NEW r, BoundedIn(r, Type(FALSE, half)), NEW n \in Safe
    PROVE  LET listed == r.values = {} \/ n \in r.values
               kept == r.lower.kind = "gte" \/ r.lower.val <= maxSafeInteger
               high == half = NarrowHalf => n < 2 * half
           IN  TakesNumber(GenerateUint(r, half), n) <=>
                  IF IsOr(r) THEN (listed /\ Under(r, n) /\ n >= 0) \/ ((kept => Over(r, n)) /\ high)
                  ELSE /\ listed
                       /\ IF r.lower = None THEN n >= 0 ELSE Over(r, n)
                       /\ IF r.upper = None THEN high ELSE Under(r, n)
<1> DEFINE listed == r.values = {} \/ n \in r.values
           kept == r.lower.kind = "gte" \/ r.lower.val <= maxSafeInteger
           narrow == 2 * half < SafeLimit
           word == IF r.lower.kind = "gt" THEN "exclusiveMinimum" ELSE "minimum"
           atMost == Keyword("exclusiveMaximum", 2 * half, narrow)
           zero == Keyword("minimum", 0, TRUE)
           lower == Keyword(word, r.lower.val, TRUE)
           either == Keyword(word, r.lower.val, kept)
           upper == Upper(r, atMost)
<1>1. GenerateUint(r, half) =
         IF IsOr(r) THEN {Branch(r.values, upper \cup zero), Branch({}, atMost \cup either)}
         ELSE {Branch(r.values, upper \cup IF r.lower = None THEN zero ELSE lower)}
    BY DEF GenerateUint
<1>2. /\ half \in Nat /\ half > 0
      /\ SafeLimit \in Nat /\ maxSafeInteger \in Nat /\ maxSafeInteger = SafeLimit - 1
      /\ IF half = NarrowHalf THEN 2 * half < SafeLimit ELSE SafeLimit < half
    BY Widths
<1>3. n \in Int /\ -maxSafeInteger <= n /\ n <= maxSafeInteger
    BY SafeNumbers
<1>4. Type(FALSE, half) \subseteq Int
    BY TypeNumbers
<1>5. Obeys(n, atMost) <=> (half = NarrowHalf => n < 2 * half)
    <2>1. narrow \in BOOLEAN /\ 2 * half \in Int
        BY <1>2
    <2>2. Obeys(n, atMost) <=> (narrow => n < 2 * half)
        <3> HIDE DEF narrow
        <3> QED
            BY <1>3, <2>1, KeywordsSay
    <2> HIDE DEF atMost
    <2> QED
        BY <1>2, <2>2
<1>6. Obeys(n, zero) <=> n >= 0
    <2>1. 0 \in Int
        OBVIOUS
    <2> QED
        BY <1>3, <2>1, KeywordSaysAlways, Zenon
<1>7. Obeys(n, upper) <=> IF r.upper = None THEN Obeys(n, atMost) ELSE Under(r, n)
    <2> HIDE DEF atMost
    <2> QED
        BY <1>4, UpperTakes
<1>8. r.lower # None => /\ Obeys(n, lower) <=> Over(r, n)
                        /\ Obeys(n, either) <=> (kept => Over(r, n))
    <2> SUFFICES ASSUME r.lower # None
                 PROVE  /\ Obeys(n, lower) <=> Over(r, n)
                        /\ Obeys(n, either) <=> (kept => Over(r, n))
        OBVIOUS
    <2>1. kept \in BOOLEAN
        OBVIOUS
    <2> HIDE DEF kept
    <2>2. r.lower.val \in Int /\ r.lower.kind \in {"gt", "gte"}
        BY <1>4, Bounds
    <2>3. CASE r.lower.kind = "gt"
        BY <1>3, <2>1, <2>2, <2>3, KeywordsSay DEF Over
    <2>4. CASE r.lower.kind = "gte"
        BY <1>3, <2>1, <2>2, <2>4, KeywordsSay DEF Over
    <2> QED
        BY <2>2, <2>3, <2>4
<1>9. IsOr(r) => r.lower # None /\ r.upper # None
    BY DEF IsOr
<1> HIDE DEF lower, either, zero, atMost, upper, kept
<1>10. TakesNumber(GenerateUint(r, half), n) <=>
          IF IsOr(r) THEN \/ listed /\ Obeys(n, upper) /\ Obeys(n, zero)
                          \/ Obeys(n, atMost) /\ Obeys(n, either)
          ELSE listed /\ Obeys(n, upper) /\ IF r.lower = None THEN Obeys(n, zero) ELSE Obeys(n, lower)
    <2>1. CASE IsOr(r)
        BY <1>1, <2>1, TakesEither, ObeysBoth
    <2>2. CASE ~IsOr(r)
        BY <1>1, <2>2, TakesOne, ObeysBoth
    <2> QED
        BY <2>1, <2>2
<1> QED
    BY <1>5, <1>6, <1>7, <1>8, <1>9, <1>10 DEF kept

\* Without rules an integer has the range of its type, as far as JSON holds it exactly.
LEMMA UnruledTakes ==
    ASSUME NEW half \in {NarrowHalf, WideHalf}, NEW signed \in BOOLEAN, NEW n \in Safe
    PROVE  TakesNumber(Unruled(signed, half), n) <=> n \in Type(signed, half)
<1> DEFINE most == IF 2 * half < SafeLimit
                     THEN IF signed THEN half - 1 ELSE 2 * half - 1
                     ELSE maxSafeInteger
           least == IF ~signed THEN 0
                    ELSE IF 2 * half < SafeLimit THEN -half ELSE -maxSafeInteger
<1>1. Unruled(signed, half) =
         {Branch({}, Keyword("minimum", least, TRUE) \cup Keyword("maximum", most, TRUE))}
    BY DEF Unruled
<1>2. /\ half \in Nat /\ half > 0
      /\ SafeLimit \in Nat /\ maxSafeInteger \in Nat /\ maxSafeInteger = SafeLimit - 1
      /\ IF half = NarrowHalf THEN 2 * half < SafeLimit ELSE SafeLimit < half
    BY Widths
<1>3. n \in Int /\ -maxSafeInteger <= n /\ n <= maxSafeInteger
    BY SafeNumbers
<1>4. least \in Int /\ most \in Int
    BY <1>2
<1>5. TakesNumber(Unruled(signed, half), n) <=> n >= least /\ n <= most
    <2> DEFINE low == Keyword("minimum", least, TRUE)
               high == Keyword("maximum", most, TRUE)
    <2>1. Obeys(n, low) <=> n >= least
        <3> HIDE DEF least
        <3> QED
            BY <1>3, <1>4, KeywordSaysAlways
    <2>2. Obeys(n, high) <=> n <= most
        <3> HIDE DEF most
        <3> QED
            BY <1>3, <1>4, KeywordSaysAlways
    <2>3. TakesNumber(Unruled(signed, half), n) <=> Obeys(n, low \cup high)
        <3>1. Unruled(signed, half) = {Branch({}, low \cup high)}
            BY <1>1
        <3> HIDE DEF least, most, low, high
        <3> QED
            BY <3>1, TakesAny, Zenon
    <2> HIDE DEF least, most, low, high
    <2> QED
        BY <2>1, <2>2, <2>3, ObeysBoth
<1>6. n \in Type(signed, half) <=>
         IF signed THEN -half <= n /\ n < half ELSE 0 <= n /\ n < 2 * half
    BY <1>3, TypeNumbers
<1>7. CASE half = NarrowHalf
    <2>1. least = (IF signed THEN -half ELSE 0) /\ most = IF signed THEN half - 1 ELSE 2 * half - 1
        BY <1>2, <1>7
    <2> HIDE DEF least, most
    <2> QED
        BY <1>2, <1>3, <1>5, <1>6, <2>1
<1>8. CASE half # NarrowHalf
    <2>1. least = (IF signed THEN -maxSafeInteger ELSE 0) /\ most = maxSafeInteger
        BY <1>2, <1>8
    <2> HIDE DEF least, most
    <2> QED
        BY <1>2, <1>3, <1>5, <1>6, <1>8, <2>1
<1> QED
    BY <1>7, <1>8

LEMMA NoRulesBound ==
    ASSUME NEW numbers
    PROVE  /\ BoundedIn(NoRules, numbers)
           /\ NoRules.values = {}
           /\ ~IsOr(NoRules)
           /\ \A n : Over(NoRules, n) /\ Under(NoRules, n)
<1>1. NoRules.lower = None /\ NoRules.upper = None /\ NoRules.values = {}
    BY DEF NoRules
<1>2. None.kind = "none"
    BY DEF None
<1> QED
    BY <1>1, <1>2 DEF BoundedIn, Bound, IsOr, Over, Under

LEMMA IntegerRules ==
    ASSUME NEW f, IntegerField(f)
    PROVE  BoundedIn(f.rules, Type(f.signed, f.half))
<1>1. CASE f.ruled
    BY <1>1 DEF IntegerField, Rules, BoundedIn
<1>2. CASE ~f.ruled
    <2>1. f.rules = NoRules
        BY <1>2 DEF IntegerField
    <2> QED
        BY <2>1, NoRulesBound
<1> QED
    BY <1>1, <1>2 DEF IntegerField

\* The numbers that JSON holds exactly and the number schemas of an integer field.
LEMMA IntegerNumbersExact ==
    ASSUME NEW f, IntegerField(f), ~(f.half = WideHalf /\ f.string64), NEW n \in Safe
    PROVE  LET allowed == n \in Allowed(f.rules, Type(f.signed, f.half))
               takes == TakesNumber(IntegerNumbers(f), n)
           IN  /\ allowed => takes
               /\ ~Loosened(f) /\ takes => allowed
<1> DEFINE r == f.rules
           half == f.half
           numbers == Type(f.signed, half)
           listed == r.values = {} \/ n \in r.values
           allowed == n \in Allowed(r, numbers)
           takes == TakesNumber(IntegerNumbers(f), n)
<1> SUFFICES (allowed => takes) /\ (~Loosened(f) /\ takes => allowed)
    OBVIOUS
<1>1. /\ f.signed \in BOOLEAN /\ f.ruled \in BOOLEAN
      /\ half \in {NarrowHalf, WideHalf}
      /\ BoundedIn(r, numbers)
    BY IntegerRules DEF IntegerField
<1>2. /\ half \in Nat /\ half > 0
      /\ SafeLimit \in Nat /\ maxSafeInteger \in Nat /\ maxSafeInteger = SafeLimit - 1
      /\ IF half = NarrowHalf THEN 2 * half < SafeLimit ELSE SafeLimit < half
    BY <1>1, Widths
<1>3. n \in Int /\ -maxSafeInteger <= n /\ n <= maxSafeInteger
    BY SafeNumbers
<1>4. /\ numbers \subseteq Int
      /\ \A k \in Int : k \in numbers <=>
            IF f.signed THEN -half <= k /\ k < half ELSE 0 <= k /\ k < 2 * half
    BY <1>1, TypeNumbers
<1>5. allowed <=>
         /\ n \in numbers
         /\ listed
         /\ IF IsOr(r) THEN Over(r, n) \/ Under(r, n) ELSE Over(r, n) /\ Under(r, n)
    <2>1. n \in Allowed(r, numbers) => n \in numbers
        BY DEF Allowed
    <2> HIDE DEF r, numbers
    <2> QED
        BY <1>1, <1>4, <2>1, AllowedAre
<1>6. /\ r.lower.val \in Int /\ r.lower.kind \in {"none", "gt", "gte"}
      /\ r.upper.val \in Int /\ r.upper.kind \in {"none", "lt", "lte"}
      /\ r.lower = None <=> r.lower.kind = "none"
      /\ r.upper = None <=> r.upper.kind = "none"
      /\ r.lower # None => r.lower.val \in numbers
      /\ r.upper # None => r.upper.val \in numbers
    <2> HIDE DEF r, numbers
    <2> QED
        BY <1>1, <1>4, Bounds
<1>7. IsOr(r) => r.lower # None /\ r.upper # None
    BY DEF IsOr
<1>8. /\ r.lower # None /\ Over(r, n) => n >= r.lower.val
      /\ r.lower # None /\ ~Over(r, n) => n <= r.lower.val
      /\ r.lower = None => Over(r, n)
      /\ r.upper # None /\ Under(r, n) => n <= r.upper.val
      /\ r.upper # None /\ ~Under(r, n) => n >= r.upper.val
      /\ r.upper = None => Under(r, n)
    <2> HIDE DEF r, numbers
    <2> QED
        BY <1>3, <1>6 DEF Over, Under
<1>9. CASE ~f.ruled
    <2>1. r = NoRules
        BY <1>9 DEF IntegerField
    <2>2. n \in Allowed(r, numbers) <=> n \in numbers
        BY <1>5, <2>1, NoRulesBound
    <2>3. IntegerNumbers(f) = Unruled(f.signed, half)
        BY <1>9 DEF IntegerNumbers
    <2>4. takes <=> n \in numbers
        BY <1>1, <2>3, UnruledTakes
    <2> QED
        BY <2>2, <2>4
<1>10. CASE f.ruled /\ f.signed
    <2>1. IntegerNumbers(f) = GenerateInt(r, half)
        BY <1>10 DEF IntegerNumbers
    <2>2. BoundedIn(r, Type(TRUE, half))
        BY <1>1, <1>10
    <2> DEFINE low == half = NarrowHalf => n >= -half
               high == half = NarrowHalf => n < half
    <2>3. takes <=>
              IF IsOr(r) THEN (listed /\ Under(r, n) /\ low) \/ (Over(r, n) /\ high)
              ELSE /\ listed
                   /\ IF r.lower = None THEN low ELSE Over(r, n)
                   /\ IF r.upper = None THEN high ELSE Under(r, n)
        <3> HIDE DEF r, half
        <3> QED
            BY <1>1, <2>1, <2>2, GenerateIntTakes
    <2>4. Loosened(f) <=> IsOr(r) /\ r.values # {}
        BY <1>10 DEF Loosened
    <2>5. /\ n \in numbers <=> -half <= n /\ n < half
          /\ r.lower # None => -half <= r.lower.val
          /\ r.upper # None => r.upper.val < half
        BY <1>3, <1>4, <1>6, <1>10
    <2> HIDE DEF r, half, numbers, listed, allowed, takes
    <2>6. CASE half = NarrowHalf
        BY <1>2, <1>3, <1>5, <1>6, <1>7, <1>8, <2>3, <2>4, <2>5, <2>6 DEF listed
    <2>7. CASE half # NarrowHalf
        BY <1>2, <1>3, <1>5, <1>6, <1>7, <1>8, <2>3, <2>4, <2>5, <2>7 DEF listed
    <2> QED
        BY <2>6, <2>7
<1>11. CASE f.ruled /\ ~f.signed
    <2>1. IntegerNumbers(f) = GenerateUint(r, half)
        BY <1>11 DEF IntegerNumbers
    <2>2. BoundedIn(r, Type(FALSE, half))
        BY <1>1, <1>11
    <2> DEFINE kept == r.lower.kind = "gte" \/ r.lower.val <= maxSafeInteger
               high == half = NarrowHalf => n < 2 * half
    <2>3. takes <=>
              IF IsOr(r) THEN (listed /\ Under(r, n) /\ n >= 0) \/ ((kept => Over(r, n)) /\ high)
              ELSE /\ listed
                   /\ IF r.lower = None THEN n >= 0 ELSE Over(r, n)
                   /\ IF r.upper = None THEN high ELSE Under(r, n)
        <3> HIDE DEF r, half
        <3> QED
            BY <1>1, <2>1, <2>2, GenerateUintTakes
    <2>4. Loosened(f) <=> IsOr(r) /\ (r.values # {} \/ r.lower.val > maxSafeInteger)
        BY <1>11 DEF Loosened
    <2>5. /\ n \in numbers <=> 0 <= n /\ n < 2 * half
          /\ r.lower # None => 0 <= r.lower.val
          /\ r.upper # None => r.upper.val < 2 * half
        BY <1>3, <1>4, <1>6, <1>11
    <2> HIDE DEF r, half, numbers, listed, allowed, takes
    <2>6. CASE half = NarrowHalf
        BY <1>2, <1>3, <1>5, <1>6, <1>7, <1>8, <2>3, <2>4, <2>5, <2>6 DEF listed
    <2>7. CASE half # NarrowHalf
        BY <1>2, <1>3, <1>5, <1>6, <1>7, <1>8, <2>3, <2>4, <2>5, <2>7 DEF listed
    <2> QED
        BY <2>6, <2>7
<1> QED
    BY <1>1, <1>9, <1>10, <1>11

-----------------------------------------------------------------------------
\* Which parts of a schema are made for the field.
FieldInv ==
    /\ \E kind \in DOMAIN ScalarField : field \in ScalarField[kind]
    /\ schema = IF done THEN [SchemaOf(field) EXCEPT !.default = Defaults(field)] ELSE NoSchema

LEMMA FieldInvariance == FieldSpec => []FieldInv
<1>1. FieldInit => FieldInv
    BY DEF FieldInit, FieldInv
<1>2. ASSUME FieldInv, [GenerateField]_fieldVars PROVE FieldInv'
    <2>1. PICK f : f = field
        OBVIOUS
    <2> DEFINE made == [SchemaOf(f) EXCEPT !.default = Defaults(f)]
    <2>2. /\ \E kind \in DOMAIN ScalarField : f \in ScalarField[kind]
          /\ schema = IF done THEN made ELSE NoSchema
        BY <1>2, <2>1 DEF FieldInv
    <2>3. field' = f /\ schema' = IF done' THEN made ELSE NoSchema
        <3>1. CASE GenerateField
            BY <2>1, <3>1 DEF GenerateField
        <3>2. CASE UNCHANGED fieldVars
            BY <2>1, <2>2, <3>2 DEF fieldVars
        <3> QED
            BY <1>2, <3>1, <3>2
    <2> QED
        BY <2>2, <2>3 DEF FieldInv
<1> QED
    BY <1>1, <1>2, PTL DEF FieldSpec

LEMMA SchemaParts ==
    ASSUME FieldInv, done
    PROVE  /\ field.kind = "integer" =>
                 schema.numbers = IntegerNumbers(field) /\ schema.texts = IntegerTexts(field)
           /\ field.kind = "float" =>
                 schema.numbers = FloatNumbers(field) /\ schema.texts = FloatTexts(field)
           /\ field.kind = "string" => schema.texts = StringTexts(field)
           /\ field.kind = "bytes" => schema.texts = BytesTexts(field)
           /\ field.kind = "bool" => schema.truths = BoolTruths(field)
           /\ field.kind = "enum" =>
                 schema.numbers = EnumNumbers(field) /\ schema.texts = EnumTexts(field)
           /\ schema.default = Defaults(field)
BY DEF FieldInv, SchemaOf, NoSchema

\* The texts of the numbers that the rules of an integer allow are taken.
LEMMA IntegerTextsTaken ==
    ASSUME NEW f, IntegerField(f), NEW n \in Allowed(f.rules, Type(f.signed, f.half))
    PROVE  TakesNumeral(IntegerTexts(f), n)
<1>1. n \in Type(f.signed, f.half)
    BY DEF Allowed
<1>2. ~f.signed => n >= 0
    BY <1>1, Widths DEF IntegerField, Type
<1> QED
    BY <1>2 DEF IntegerTexts, Matching, TakesNumeral, IntegerField

LEMMA FieldOfItsKind ==
    ASSUME FieldInv
    PROVE  /\ field.kind = "integer" => IntegerField(field)
           /\ field.kind = "float" => FloatField(field)
           /\ field.kind = "string" => StringField(field)
           /\ field.kind = "bytes" => BytesField(field)
           /\ field.kind = "bool" => BoolField(field)
           /\ field.kind = "enum" => EnumField(field)
BY FieldAssumption DEF FieldInv

\* The schema of an integer takes what its rules allow, as a text and, where JSON holds
\* it exactly, as a number, and of these numbers no others: for widths and a limit of
\* any size, and so for 32 and 64 bits and 2^53.
THEOREM IntegersExactCorrect == FieldSpec => []IntegersExact
<1>1. ASSUME FieldInv PROVE IntegersExact
    <2> SUFFICES ASSUME done, field.kind = "integer"
                 PROVE  LET allowed == Allowed(field.rules, Type(field.signed, field.half))
                        IN  /\ \A n \in allowed : TakesNumeral(schema.texts, n)
                            /\ IF field.half = WideHalf /\ field.string64 THEN schema.numbers = {}
                               ELSE \A n \in allowed \cap Safe : TakesNumber(schema.numbers, n)
                            /\ ~Loosened(field) =>
                                  \A n \in Safe : TakesNumber(schema.numbers, n) => n \in allowed
        BY DEF IntegersExact
    <2> DEFINE allowed == Allowed(field.rules, Type(field.signed, field.half))
    <2>1. schema.numbers = IntegerNumbers(field) /\ schema.texts = IntegerTexts(field)
        BY <1>1, SchemaParts
    <2>2. IntegerField(field)
        BY <1>1, FieldOfItsKind
    <2>3. \A n \in allowed : TakesNumeral(schema.texts, n)
        BY <2>1, <2>2, IntegerTextsTaken
    <2>4. CASE field.half = WideHalf /\ field.string64
        <3>1. schema.numbers = {}
            BY <2>1, <2>4 DEF IntegerNumbers
        <3>2. \A n : ~TakesNumber(schema.numbers, n)
            BY <3>1 DEF TakesNumber
        <3> QED
            BY <2>3, <2>4, <3>1, <3>2
    <2>5. CASE ~(field.half = WideHalf /\ field.string64)
        <3>1. \A n \in Safe : /\ n \in allowed => TakesNumber(schema.numbers, n)
                              /\ ~Loosened(field) /\ TakesNumber(schema.numbers, n) => n \in allowed
            BY <2>1, <2>2, <2>5, IntegerNumbersExact
        <3> QED
            BY <2>3, <2>5, <3>1
    <2> QED
        BY <2>4, <2>5
<1> QED
    BY <1>1, FieldInvariance, PTL

-----------------------------------------------------------------------------
LEMMA FloatRulesBound ==
    ASSUME NEW f, FloatField(f)
    PROVE  BoundedIn(f.rules, FloatType(f.single) \cup {Inf, -Inf})
BY DEF FloatField, BoundedIn

LEMMA FloatSizes ==
    /\ FloatMax \in Nat /\ DoubleMax \in Nat /\ FloatMax < DoubleMax
    /\ Inf \in Int /\ -Inf \in Int /\ NaN \in Int
    /\ \A x \in Extremes : x > DoubleMax \/ x < -DoubleMax
    /\ Inf > DoubleMax /\ -Inf < -DoubleMax /\ NaN # Inf /\ NaN # -Inf /\ Inf # -Inf
BY FloatAssumption DEF Inf, NaN, Extremes

LEMMA FloatTypes ==
    ASSUME NEW single \in BOOLEAN
    PROVE  /\ FloatType(single) \subseteq Int
           /\ \A x \in Int : x \in FloatType(single) <=>
                 IF single THEN -FloatMax <= x /\ x <= FloatMax ELSE -DoubleMax <= x /\ x <= DoubleMax
           /\ \A x \in FloatType(single) : x \in FloatType(FALSE) /\ x \notin Extremes
BY FloatSizes DEF FloatType

\* The number schemas of a float, as those of an integer.
LEMMA FloatNumbersTake ==
    ASSUME NEW f, FloatField(f), NEW x \in Int
    PROVE  LET r == f.rules
               listed == r.values = {} \/ x \in r.values
           IN  TakesNumber(FloatNumbers(f), x) <=>
                  IF IsOr(r) THEN (listed /\ Under(r, x)) \/ Over(r, x)
                  ELSE /\ listed /\ Over(r, x) /\ Under(r, x)
                       /\ f.single /\ r.lower = None => x >= -FloatMax
                       /\ f.single /\ r.upper = None => x <= FloatMax
<1> DEFINE r == f.rules
           listed == r.values = {} \/ x \in r.values
           hasLower == r.lower # None
           hasUpper == r.upper # None
           noLower == f.single /\ r.lower = None
           noUpper == f.single /\ r.upper = None
           lower == Keyword(IF r.lower.kind = "gt" THEN "exclusiveMinimum" ELSE "minimum",
                            r.lower.val, hasLower)
           upper == Keyword(IF r.upper.kind = "lt" THEN "exclusiveMaximum" ELSE "maximum",
                            r.upper.val, hasUpper)
           least == Keyword("minimum", -FloatMax, noLower)
           most == Keyword("maximum", FloatMax, noUpper)
           numbers == FloatType(f.single) \cup {Inf, -Inf}
<1>1. FloatNumbers(f) =
         IF IsOr(r) THEN {Branch(r.values, upper), Branch({}, lower)}
         ELSE {Branch(r.values, lower \cup least \cup upper \cup most)}
    BY DEF FloatNumbers
<1>2. BoundedIn(r, numbers) /\ numbers \subseteq Int /\ f.single \in BOOLEAN
    BY FloatSizes, FloatTypes, FloatRulesBound DEF FloatField
<1>3. /\ r.lower.val \in Int /\ r.lower.kind \in {"none", "gt", "gte"}
      /\ r.upper.val \in Int /\ r.upper.kind \in {"none", "lt", "lte"}
      /\ r.lower = None <=> r.lower.kind = "none"
      /\ r.upper = None <=> r.upper.kind = "none"
    <2> HIDE DEF r, numbers
    <2> QED
        BY <1>2, Bounds
<1>4. {hasLower, hasUpper, noLower, noUpper} \subseteq BOOLEAN
    OBVIOUS
<1>5. Obeys(x, lower) <=> Over(r, x)
    <2>1. CASE r.lower.kind = "gt"
        <3>1. Obeys(x, lower) <=> (hasLower => x > r.lower.val)
            <4> HIDE DEF hasLower, r
            <4> QED
                BY <1>3, <1>4, <2>1, KeywordsSay
        <3> HIDE DEF lower, r
        <3> QED
            BY <1>3, <2>1, <3>1 DEF Over
    <2>2. CASE r.lower.kind # "gt"
        <3>1. Obeys(x, lower) <=> (hasLower => x >= r.lower.val)
            <4> HIDE DEF hasLower, r
            <4> QED
                BY <1>3, <1>4, <2>2, KeywordsSay
        <3> HIDE DEF lower, r
        <3> QED
            BY <1>3, <2>2, <3>1 DEF Over
    <2> QED
        BY <2>1, <2>2
<1>6. Obeys(x, upper) <=> Under(r, x)
    <2>1. CASE r.upper.kind = "lt"
        <3>1. Obeys(x, upper) <=> (hasUpper => x < r.upper.val)
            <4> HIDE DEF hasUpper, r
            <4> QED
                BY <1>3, <1>4, <2>1, KeywordsSay
        <3> HIDE DEF upper, r
        <3> QED
            BY <1>3, <2>1, <3>1 DEF Under
    <2>2. CASE r.upper.kind # "lt"
        <3>1. Obeys(x, upper) <=> (hasUpper => x <= r.upper.val)
            <4> HIDE DEF hasUpper, r
            <4> QED
                BY <1>3, <1>4, <2>2, KeywordsSay
        <3> HIDE DEF upper, r
        <3> QED
            BY <1>3, <2>2, <3>1 DEF Under
    <2> QED
        BY <2>1, <2>2
<1>7. /\ Obeys(x, least) <=> (noLower => x >= -FloatMax)
      /\ Obeys(x, most) <=> (noUpper => x <= FloatMax)
    <2>1. FloatMax \in Int /\ -FloatMax \in Int
        BY FloatSizes
    <2> HIDE DEF noLower, noUpper
    <2> QED
        BY <1>4, <2>1, KeywordsSay
<1> HIDE DEF r, lower, upper, least, most
<1>8. CASE IsOr(r)
    <2>1. TakesNumber(FloatNumbers(f), x) <=> (listed /\ Obeys(x, upper)) \/ Obeys(x, lower)
        BY <1>1, <1>8, TakesEither
    <2> QED
        BY <1>5, <1>6, <1>8, <2>1 DEF r
<1>9. CASE ~IsOr(r)
    <2>1. TakesNumber(FloatNumbers(f), x) <=>
              /\ listed /\ Obeys(x, lower) /\ Obeys(x, least)
              /\ Obeys(x, upper) /\ Obeys(x, most)
        <3> DEFINE keywords == lower \cup least \cup upper \cup most
        <3>1. Obeys(x, keywords) <=>
                 Obeys(x, lower) /\ Obeys(x, least) /\ Obeys(x, upper) /\ Obeys(x, most)
            BY DEF Obeys
        <3>2. FloatNumbers(f) = {Branch(r.values, keywords)}
            BY <1>1, <1>9
        <3> HIDE DEF keywords
        <3>3. TakesNumber({Branch(r.values, keywords)}, x) <=> listed /\ Obeys(x, keywords)
            BY TakesOne
        <3> QED
            BY <3>1, <3>2, <3>3
    <2> QED
        BY <1>5, <1>6, <1>7, <1>9, <2>1 DEF r
<1> QED
    BY <1>8, <1>9

\* The floats that the rules allow.
LEMMA AllowedFloatsAre ==
    ASSUME NEW f, FloatField(f), NEW x \in Int
    PROVE  LET r == f.rules
               listed == r.values = {} \/ x \in r.values
           IN  x \in AllowedFloats(r, f.single) <=>
                  /\ x \in FloatType(f.single) \cup Extremes
                  /\ listed
                  /\ IF IsOr(r) THEN Over(r, x) \/ Under(r, x) ELSE Over(r, x) /\ Under(r, x)
                  /\ r.finite => x \notin Extremes
                  /\ x = NaN => IncludeNaN(r)
<1> DEFINE r == f.rules
           q == [lower |-> r.lower, upper |-> r.upper, values |-> r.values]
           numbers == FloatType(f.single) \cup Extremes
<1>1. numbers \subseteq Int /\ f.single \in BOOLEAN
    BY FloatSizes, FloatTypes DEF Extremes, FloatField
<1>2. BoundedIn(q, numbers)
    <2>1. BoundedIn(r, FloatType(f.single) \cup {Inf, -Inf})
        BY FloatRulesBound
    <2>2. FloatType(f.single) \cup {Inf, -Inf} \subseteq numbers
        BY DEF Extremes
    <2>3. \A kinds : Bound(kinds, FloatType(f.single) \cup {Inf, -Inf}) \subseteq Bound(kinds, numbers)
        <3> HIDE DEF numbers
        <3> QED
            BY <2>2 DEF Bound
    <2>4. q.lower = r.lower /\ q.upper = r.upper
        OBVIOUS
    <2> HIDE DEF q, r, numbers
    <2> QED
        BY <2>1, <2>3, <2>4 DEF BoundedIn
<1>3. /\ IsOr(q) <=> IsOr(r)
      /\ Over(q, x) <=> Over(r, x)
      /\ Under(q, x) <=> Under(r, x)
      /\ q.values = r.values
    <2>1. q.lower = r.lower /\ q.upper = r.upper /\ q.values = r.values
        OBVIOUS
    <2> HIDE DEF q, r
    <2> QED
        BY <2>1 DEF IsOr, Over, Under
<1>4. x \in Allowed(q, numbers) <=>
         /\ x \in numbers
         /\ q.values = {} \/ x \in q.values
         /\ IF IsOr(q) THEN Over(q, x) \/ Under(q, x) ELSE Over(q, x) /\ Under(q, x)
    <2>1. x \in Allowed(q, numbers) => x \in numbers
        BY DEF Allowed
    <2> HIDE DEF q, numbers
    <2> QED
        BY <1>1, <1>2, <2>1, AllowedAre
<1>5. x \in AllowedFloats(r, f.single) <=>
         /\ x \in Allowed(q, numbers)
         /\ r.finite => x \notin Extremes
         /\ x = NaN => IncludeNaN(r)
    BY DEF AllowedFloats
<1> HIDE DEF q, numbers
<1> QED
    BY <1>3, <1>4, <1>5 DEF numbers

LEMMA PlainKeyword ==
    ASSUME NEW word, NEW val, NEW given \in BOOLEAN
    PROVE  (\A k \in Keyword(word, val, given) : k.val \notin Extremes) <=>
              (given => val \notin Extremes)
<1> DEFINE entry == [word |-> word, val |-> val]
<1>1. entry.val = val
    OBVIOUS
<1>2. Keyword(word, val, given) = IF given THEN {entry} ELSE {}
    BY DEF Keyword
<1> HIDE DEF entry
<1> QED
    BY <1>1, <1>2

\* No rule that names an infinity or NaN can be written, and all others can.
LEMMA WritableUnlessExtreme ==
    ASSUME NEW f, FloatField(f)
    PROVE  Writable(FloatNumbers(f)) <=> ~NamesExtreme(f.rules)
<1> DEFINE r == f.rules
           hasLower == r.lower # None
           hasUpper == r.upper # None
           noLower == f.single /\ r.lower = None
           noUpper == f.single /\ r.upper = None
           lower == Keyword(IF r.lower.kind = "gt" THEN "exclusiveMinimum" ELSE "minimum",
                            r.lower.val, hasLower)
           upper == Keyword(IF r.upper.kind = "lt" THEN "exclusiveMaximum" ELSE "maximum",
                            r.upper.val, hasUpper)
           least == Keyword("minimum", -FloatMax, noLower)
           most == Keyword("maximum", FloatMax, noUpper)
           Plain(K) == \A k \in K : k.val \notin Extremes
<1>1. FloatNumbers(f) =
         IF IsOr(r) THEN {Branch(r.values, upper), Branch({}, lower)}
         ELSE {Branch(r.values, lower \cup least \cup upper \cup most)}
    BY DEF FloatNumbers
<1>2. {hasLower, hasUpper, noLower, noUpper} \subseteq BOOLEAN
    OBVIOUS
<1>3. /\ Plain(lower) <=> (hasLower => r.lower.val \notin Extremes)
      /\ Plain(upper) <=> (hasUpper => r.upper.val \notin Extremes)
    <2> HIDE DEF hasLower, hasUpper
    <2> QED
        BY <1>2, PlainKeyword
<1>4. Plain(least) /\ Plain(most)
    <2>1. -FloatMax \notin Extremes /\ FloatMax \notin Extremes
        BY FloatSizes DEF Extremes
    <2> HIDE DEF noLower, noUpper
    <2> QED
        BY <1>2, <2>1, PlainKeyword
<1>5. \A V, K : Branch(V, K).values = V /\ Branch(V, K).keywords = K
    BY DEF Branch
<1> HIDE DEF lower, upper, least, most, r
<1>6. Writable(FloatNumbers(f)) <=> r.values \cap Extremes = {} /\ Plain(lower) /\ Plain(upper)
    <2>1. CASE IsOr(r)
        BY <1>1, <1>5, <2>1 DEF Writable
    <2>2. CASE ~IsOr(r)
        BY <1>1, <1>4, <1>5, <2>2 DEF Writable
    <2> QED
        BY <2>1, <2>2
<1> QED
    BY <1>3, <1>6 DEF NamesExtreme, r

\* The extremes that a float schema lists, if no rule names one, are the allowed ones.
LEMMA ExtremesListed ==
    ASSUME NEW f, FloatField(f), ~NamesExtreme(f.rules), NEW x \in Extremes
    PROVE  Lists(FloatTexts(f), x) <=> x \in AllowedFloats(f.rules, f.single)
<1> DEFINE r == f.rules
<1>1. f.single \in BOOLEAN /\ BoundedIn(r, FloatType(f.single) \cup {Inf, -Inf})
    BY FloatRulesBound DEF FloatField
<1>2. Lists(FloatTexts(f), x) <=> x \in Included(r)
    <2>1. \A words, pattern : Listing(words).values = words /\ Matching(pattern).values = {}
        BY DEF Listing, Matching
    <2>2. FloatTexts(f) = IF Included(r) = {} THEN {Matching("numeral")}
                          ELSE {Listing(Included(r)), Matching("any")}
        BY DEF FloatTexts
    <2> HIDE DEF r
    <2>3. CASE Included(r) = {}
        BY <2>1, <2>2, <2>3 DEF Lists
    <2>4. CASE Included(r) # {}
        BY <2>1, <2>2, <2>4 DEF Lists
    <2> QED
        BY <2>3, <2>4
<1>3. x \in Int /\ x \notin FloatType(f.single)
    BY <1>1, FloatSizes, FloatTypes DEF Extremes
<1>4. x \in AllowedFloats(r, f.single) <=>
         /\ r.values = {}
         /\ IF IsOr(r) THEN Over(r, x) \/ Under(r, x) ELSE Over(r, x) /\ Under(r, x)
         /\ ~r.finite
         /\ x = NaN => IncludeNaN(r)
    <2>1. x \notin r.values
        BY DEF NamesExtreme
    <2> QED
        BY <1>3, <2>1, AllowedFloatsAre
<1>5. x \in Included(r) <=>
         /\ r.values = {}
         /\ ~r.finite
         /\ x = Inf => IncludePosInf(r)
         /\ x = -Inf => IncludeNegInf(r)
         /\ x = NaN => IncludeNaN(r)
    BY DEF Included, NamesExtreme
<1>6. /\ r.lower.val \in Int /\ r.lower.kind \in {"none", "gt", "gte"}
      /\ r.upper.val \in Int /\ r.upper.kind \in {"none", "lt", "lte"}
      /\ r.lower = None <=> r.lower.kind = "none"
      /\ r.upper = None <=> r.upper.kind = "none"
      /\ r.lower # None => r.lower.val \in FloatType(f.single)
      /\ r.upper # None => r.upper.val \in FloatType(f.single)
    <2>1. FloatType(f.single) \cup {Inf, -Inf} \subseteq Int
        BY <1>1, FloatSizes, FloatTypes
    <2>2. /\ r.lower # None => r.lower.val \in FloatType(f.single) \cup {Inf, -Inf}
          /\ r.upper # None => r.upper.val \in FloatType(f.single) \cup {Inf, -Inf}
        BY <1>1, <2>1, Bounds
    <2>3. /\ r.lower # None => r.lower.val \notin Extremes
          /\ r.upper # None => r.upper.val \notin Extremes
        BY DEF NamesExtreme
    <2> QED
        BY <1>1, <2>1, <2>2, <2>3, Bounds DEF Extremes
<1>7. /\ r.lower # None => -DoubleMax <= r.lower.val /\ r.lower.val <= DoubleMax
      /\ r.upper # None => -DoubleMax <= r.upper.val /\ r.upper.val <= DoubleMax
    BY <1>1, <1>6, FloatTypes, FloatSizes
<1>8. IsOr(r) => r.lower # None /\ r.upper # None
    BY DEF IsOr
<1> HIDE DEF r
<1>9. CASE x = Inf
    <2>1. Over(r, x) /\ (Under(r, x) <=> r.upper = None)
        BY <1>6, <1>7, <1>9, FloatSizes DEF Over, Under
    <2>2. IncludePosInf(r) <=> r.upper = None \/ IsOr(r)
        BY <1>7, FloatSizes DEF IncludePosInf
    <2> QED
        BY <1>2, <1>4, <1>5, <1>8, <1>9, <2>1, <2>2, FloatSizes DEF r
<1>10. CASE x = -Inf
    <2>1. Under(r, x) /\ (Over(r, x) <=> r.lower = None)
        BY <1>6, <1>7, <1>10, FloatSizes DEF Over, Under
    <2>2. IncludeNegInf(r) <=> r.lower = None \/ IsOr(r)
        BY <1>7, FloatSizes DEF IncludeNegInf
    <2> QED
        BY <1>2, <1>4, <1>5, <1>8, <1>10, <2>1, <2>2, FloatSizes DEF r
<1>11. CASE x = NaN
    <2>1. IncludeNaN(r) => Over(r, x) /\ Under(r, x) /\ ~IsOr(r)
        BY <1>6, <1>8 DEF IncludeNaN, Over, Under
    <2> QED
        BY <1>2, <1>4, <1>5, <1>11, <2>1, FloatSizes DEF r
<1> QED
    BY <1>9, <1>10, <1>11 DEF Extremes

\* A finite number that the rules allow is taken, whatever they name.
LEMMA AllowedFiniteTaken ==
    ASSUME NEW f, FloatField(f), NEW x \in AllowedFloats(f.rules, f.single) \ Extremes
    PROVE  TakesNumber(FloatNumbers(f), x)
<1> DEFINE r == f.rules
           allowed == AllowedFloats(r, f.single)
<1>0. f.single \in BOOLEAN
    BY DEF FloatField
<1>1. x \in FloatType(f.single) \cup Extremes
    BY DEF AllowedFloats, Allowed
<1>2. x \in FloatType(f.single) /\ x \in Int
    BY <1>0, <1>1, FloatTypes
<1>3. f.single => -FloatMax <= x /\ x <= FloatMax
    BY <1>0, <1>2, FloatTypes
<1>4. /\ r.values = {} \/ x \in r.values
      /\ IF IsOr(r) THEN Over(r, x) \/ Under(r, x) ELSE Over(r, x) /\ Under(r, x)
    BY <1>2, AllowedFloatsAre
<1>5. TakesNumber(FloatNumbers(f), x) <=>
         IF IsOr(r) THEN ((r.values = {} \/ x \in r.values) /\ Under(r, x)) \/ Over(r, x)
         ELSE /\ (r.values = {} \/ x \in r.values) /\ Over(r, x) /\ Under(r, x)
              /\ f.single /\ r.lower = None => x >= -FloatMax
              /\ f.single /\ r.upper = None => x <= FloatMax
    BY <1>2, FloatNumbersTake
<1> HIDE DEF r
<1> QED
    BY <1>2, <1>3, <1>4, <1>5, FloatSizes

\* The finite numbers that a float schema takes.
LEMMA FiniteTaken ==
    ASSUME NEW f, FloatField(f), ~NamesExtreme(f.rules)
    PROVE  LET allowed == AllowedFloats(f.rules, f.single)
           IN  /\ \A x \in allowed \ Extremes : TakesNumber(FloatNumbers(f), x)
               /\ \A x \in FloatType(FALSE) :
                     TakesNumber(FloatNumbers(f), x) => x \in allowed \/ FloatLoosened(f)
<1> DEFINE r == f.rules
           allowed == AllowedFloats(r, f.single)
<1>1. f.single \in BOOLEAN /\ BoundedIn(r, FloatType(f.single) \cup {Inf, -Inf})
    BY FloatRulesBound DEF FloatField
<1>2. ASSUME NEW x \in allowed \ Extremes
      PROVE  TakesNumber(FloatNumbers(f), x)
    BY AllowedFiniteTaken
<1>3. ASSUME NEW x \in FloatType(FALSE), TakesNumber(FloatNumbers(f), x), ~FloatLoosened(f)
      PROVE  x \in allowed
    <2>1. x \in Int /\ -DoubleMax <= x /\ x <= DoubleMax
        BY FloatTypes
    <2>2. x \notin Extremes /\ x # NaN
        BY FloatTypes DEF Extremes
    <2>3. IF IsOr(r) THEN ((r.values = {} \/ x \in r.values) /\ Under(r, x)) \/ Over(r, x)
          ELSE /\ (r.values = {} \/ x \in r.values) /\ Over(r, x) /\ Under(r, x)
               /\ f.single /\ r.lower = None => x >= -FloatMax
               /\ f.single /\ r.upper = None => x <= FloatMax
        BY <1>3, <2>1, FloatNumbersTake
    <2>4. IsOr(r) => ~f.single /\ r.values = {}
        BY <1>3 DEF FloatLoosened
    <2>5. /\ r.lower # None /\ Over(r, x) => x >= r.lower.val
          /\ r.upper # None /\ Under(r, x) => x <= r.upper.val
          /\ r.lower # None => r.lower.val \in FloatType(f.single)
          /\ r.upper # None => r.upper.val \in FloatType(f.single)
        <3>1. FloatType(f.single) \cup {Inf, -Inf} \subseteq Int
            BY <1>1, FloatSizes, FloatTypes
        <3>2. /\ r.lower.val \in Int /\ r.lower.kind \in {"none", "gt", "gte"}
              /\ r.upper.val \in Int /\ r.upper.kind \in {"none", "lt", "lte"}
              /\ r.lower = None <=> r.lower.kind = "none"
              /\ r.upper = None <=> r.upper.kind = "none"
              /\ r.lower # None => r.lower.val \in FloatType(f.single) \cup {Inf, -Inf}
              /\ r.upper # None => r.upper.val \in FloatType(f.single) \cup {Inf, -Inf}
            BY <1>1, <3>1, Bounds
        <3>3. /\ r.lower # None => r.lower.val \notin Extremes
              /\ r.upper # None => r.upper.val \notin Extremes
            BY DEF NamesExtreme
        <3>4. /\ r.lower # None => r.lower.val \in FloatType(f.single)
              /\ r.upper # None => r.upper.val \in FloatType(f.single)
            BY <3>2, <3>3 DEF Extremes
        <3> HIDE DEF r
        <3> QED
            BY <2>1, <3>2, <3>4 DEF Over, Under
    <2>6. x \in FloatType(f.single)
        <3>1. CASE ~f.single
            BY <1>1, <3>1
        <3>2. CASE f.single
            <4>1. ~IsOr(r)
                BY <2>4, <3>2
            <4>2. /\ r.lower # None => -FloatMax <= r.lower.val /\ r.lower.val \in Int
                  /\ r.upper # None => r.upper.val <= FloatMax /\ r.upper.val \in Int
                BY <1>1, <2>5, <3>2, FloatTypes
            <4> HIDE DEF r
            <4>3. -FloatMax <= x /\ x <= FloatMax
                BY <2>1, <2>3, <2>5, <3>2, <4>1, <4>2, FloatSizes
            <4> QED
                BY <1>1, <2>1, <3>2, <4>3, FloatTypes
        <3> QED
            BY <3>1, <3>2
    <2>7. /\ r.values = {} \/ x \in r.values
          /\ IF IsOr(r) THEN Over(r, x) \/ Under(r, x) ELSE Over(r, x) /\ Under(r, x)
        BY <2>3, <2>4
    <2> QED
        BY <2>1, <2>2, <2>6, <2>7, AllowedFloatsAre
<1> HIDE DEF r, allowed
<1> QED
    BY <1>2, <1>3 DEF r, allowed

\* The schema of a float can be written unless a rule names an infinity or NaN, and then
\* takes what the rules allow and no more, but for the named cases: for a float and a
\* double of any sizes.
THEOREM FloatsExactCorrect == FieldSpec => []FloatsExact
<1>1. ASSUME FieldInv PROVE FloatsExact
    <2> DEFINE allowed == AllowedFloats(field.rules, field.single)
    <2> SUFFICES ASSUME done, field.kind = "float"
                 PROVE  /\ ~Writable(schema.numbers) => NamesExtreme(field.rules)
                        /\ Writable(schema.numbers) =>
                              /\ \A x \in allowed \ Extremes :
                                    TakesNumber(schema.numbers, x) /\ TakesNumeral(schema.texts, x)
                              /\ \A x \in FloatType(FALSE) :
                                    TakesNumber(schema.numbers, x) => x \in allowed \/ FloatLoosened(field)
                              /\ \A x \in Extremes : Lists(schema.texts, x) <=> x \in allowed
        BY DEF FloatsExact
    <2>1. schema.numbers = FloatNumbers(field) /\ schema.texts = FloatTexts(field)
        BY <1>1, SchemaParts
    <2>2. FloatField(field)
        BY <1>1, FieldOfItsKind
    <2>3. Writable(schema.numbers) <=> ~NamesExtreme(field.rules)
        BY <2>1, <2>2, WritableUnlessExtreme
    <2>4. ASSUME NEW x PROVE TakesNumeral(schema.texts, x)
        <3>1. PICK pattern \in {"numeral", "any"} : Matching(pattern) \in schema.texts
            BY <2>1 DEF FloatTexts
        <3>2. Matching(pattern).values = {} /\ Matching(pattern).pattern \in {"any", "numeral"}
            BY DEF Matching
        <3> QED
            BY <3>1, <3>2 DEF TakesNumeral
    <2>5. ASSUME ~NamesExtreme(field.rules)
          PROVE  /\ \A x \in allowed \ Extremes : TakesNumber(schema.numbers, x)
                 /\ \A x \in FloatType(FALSE) :
                       TakesNumber(schema.numbers, x) => x \in allowed \/ FloatLoosened(field)
        BY <2>1, <2>2, <2>5, FiniteTaken
    <2>6. ASSUME ~NamesExtreme(field.rules)
          PROVE  \A x \in Extremes : Lists(schema.texts, x) <=> x \in allowed
        BY <2>1, <2>2, <2>6, ExtremesListed
    <2> QED
        BY <2>3, <2>4, <2>5, <2>6
<1> QED
    BY <1>1, FieldInvariance, PTL

-----------------------------------------------------------------------------
\* The keywords on the number of characters of a text.
LEMMA LengthsSay ==
    ASSUME NEW low, NEW high, NEW c
    PROVE  Obeys(c, Lengths(low, high)) <=> (\A n \in low : c >= n) /\ (\A n \in high : c <= n)
<1> DEFINE lows == {[word |-> "minLength", val |-> n] : n \in low}
           highs == {[word |-> "maxLength", val |-> n] : n \in high}
<1>1. Lengths(low, high) = lows \cup highs
    BY DEF Lengths
<1>2. \A n : /\ Holds([word |-> "minLength", val |-> n], c) <=> c >= n
             /\ Holds([word |-> "maxLength", val |-> n], c) <=> c <= n
    BY DEF Holds
<1>3. Obeys(c, lows) <=> \A n \in low : c >= n
    BY <1>2 DEF Obeys
<1>4. Obeys(c, highs) <=> \A n \in high : c <= n
    BY <1>2 DEF Obeys
<1> HIDE DEF lows, highs
<1> QED
    BY <1>1, <1>3, <1>4, ObeysBoth

LEMMA TakesTextIf ==
    ASSUME NEW pattern, NEW values, NEW keywords, NEW t
    PROVE  TakesText({[pattern |-> pattern, values |-> values, keywords |-> keywords]}, t) <=>
              /\ values = {} \/ t \in values
              /\ pattern \in {"any", "base64"} \cup t.fits
              /\ Obeys(t.chars, keywords)
<1> DEFINE b == [pattern |-> pattern, values |-> values, keywords |-> keywords]
<1>1. b.pattern = pattern /\ b.values = values /\ b.keywords = keywords
    OBVIOUS
<1>2. TakesText({b}, t) <=>
         /\ b.values = {} \/ t \in b.values
         /\ b.pattern \in {"any", "base64"} \cup t.fits
         /\ \A k \in b.keywords : Holds(k, t.chars)
    <2> HIDE DEF b
    <2> QED
        BY DEF TakesText
<1> HIDE DEF b
<1>3. TakesText({b}, t) <=>
         /\ values = {} \/ t \in values
         /\ pattern \in {"any", "base64"} \cup t.fits
         /\ Obeys(t.chars, keywords)
    BY <1>1, <1>2 DEF Obeys
<1> QED
    BY <1>3 DEF b

\* The rules that bound the characters of a string are those that its schema repeats.
LEMMA StringExact ==
    ASSUME NEW f,
           StringField(f), f.kind = "string", f.ruled, Sensible(f.rules),
           NEW t, t.chars \in Nat, t.size \in Nat, t.chars <= t.size
    PROVE  LET r == f.rules
               takes == TakesText(StringTexts(f), t)
           IN  /\ AllowsString(r, t) /\ (MustNotBeEmpty(f) => t.chars > 0) =>
                     takes \/ Narrowed(f, t.chars)
               /\ takes =>
                     /\ MeetsLengths(r, t.chars)
                     /\ r.values = {} \/ t \in r.values
                     /\ Pattern(r) \in t.fits \cup {"any"}
<1> DEFINE r == f.rules
           c == t.chars
           low == MinLength(r, f.required)
           high == MaxLength(r)
           listed == r.values = {} \/ t \in r.values
           takes == TakesText(StringTexts(f), t)
<1> SUFFICES /\ AllowsString(r, t) /\ (MustNotBeEmpty(f) => c > 0) =>
                   takes \/ Narrowed(f, c)
             /\ takes => MeetsLengths(r, c) /\ listed /\ Pattern(r) \in t.fits \cup {"any"}
    OBVIOUS
<1>1. takes <=> /\ listed
                /\ Pattern(r) \in {"any", "base64"} \cup t.fits
                /\ \A n \in low : c >= n
                /\ \A n \in high : c <= n
    <2>1. StringTexts(f) = {[pattern |-> Pattern(r), values |-> r.values, keywords |-> Lengths(low, high)]}
        BY DEF StringTexts
    <2> HIDE DEF r, low, high, c
    <2>2. Obeys(c, Lengths(low, high)) <=> (\A n \in low : c >= n) /\ (\A n \in high : c <= n)
        BY LengthsSay
    <2> DEFINE keywords == Lengths(low, high)
               pattern == Pattern(r)
               values == r.values
               texts == {[pattern |-> pattern, values |-> values, keywords |-> keywords]}
    <2>3. TakesText(texts, t) <=>
             /\ values = {} \/ t \in values
             /\ pattern \in {"any", "base64"} \cup t.fits
             /\ Obeys(t.chars, keywords)
        <3> HIDE DEF keywords, pattern, values
        <3> QED
            BY TakesTextIf
    <2>4. StringTexts(f) = texts
        BY <2>1
    <2> HIDE DEF texts
    <2> QED
        BY <2>2, <2>3, <2>4 DEF c
<1>2. /\ r.len \subseteq Nat /\ r.minLen \subseteq Nat
      /\ r.maxLen \subseteq Nat /\ r.maxBytes \subseteq Nat
      /\ c \in Nat /\ t.size \in Nat /\ c <= t.size
    BY DEF StringField
<1>3. Pattern(r) \in {"any"} \cup Shapes /\ Pattern(r) # "base64"
      /\ (r.shapes \subseteq t.fits => Pattern(r) \in {"any"} \cup t.fits)
    BY DEF Pattern, Shapes
<1>4. PICK k \in Sizes : MeetsLengths(r, k)
    BY DEF Sensible
<1> HIDE DEF r, c, low, high, listed, takes
<1>5. ASSUME AllowsString(r, t), MustNotBeEmpty(f) => c > 0, ~Narrowed(f, c)
      PROVE  takes
    <2>1. /\ listed
          /\ \A n \in r.len : c = n
          /\ \A n \in r.minLen : c >= n
          /\ \A n \in r.maxLen : c <= n
          /\ \A n \in r.maxBytes : t.size <= n
          /\ r.shapes \subseteq t.fits
        BY <1>5 DEF AllowsString, Meets, c, listed
    <2>2. \A n \in low : c >= n
        <3>1. f.required => c >= 1
            <4>1. f.required /\ ~(Implicit(f) /\ Demanded(f)) => c # 0
                BY <1>5 DEF Narrowed
            <4>2. Implicit(f) /\ Demanded(f) => c > 0
                BY <1>5 DEF MustNotBeEmpty
            <4> QED
                BY <1>2, <4>1, <4>2
        <3> QED
            BY <1>2, <2>1, <3>1 DEF low, MinLength
    <2>3. \A n \in high : c <= n
        <3>1. r.lenBytes # {} => r.maxBytes # {}
            BY <1>5 DEF Narrowed, r
        <3> QED
            BY <1>2, <2>1, <3>1 DEF high, MaxLength
    <2> QED
        BY <1>1, <1>3, <2>1, <2>2, <2>3
<1>6. ASSUME takes
      PROVE  MeetsLengths(r, c) /\ listed /\ Pattern(r) \in t.fits \cup {"any"}
    <2>1. /\ \A n \in r.len : k = n
          /\ \A n \in r.minLen : k >= n
          /\ \A n \in r.maxLen : k <= n
        BY <1>4 DEF MeetsLengths, Meets
    <2>2. CASE r.len # {}
        <3>1. low = r.len /\ high = r.len
            BY <2>2 DEF low, high, MinLength, MaxLength
        <3>2. PICK n \in r.len : c >= n /\ c <= n
            BY <1>1, <1>6, <2>2, <3>1
        <3>3. c = k
            BY <1>2, <2>1, <3>2
        <3> QED
            BY <1>1, <1>3, <1>4, <1>6, <3>3
    <2>3. CASE r.len = {}
        <3>1. \A n \in r.minLen : c >= n
            BY <1>1, <1>2, <1>6, <2>3 DEF low, MinLength
        <3>2. \A n \in r.maxLen : c <= n
            BY <1>1, <1>6, <2>3 DEF high, MaxLength
        <3> QED
            BY <1>1, <1>3, <1>6, <2>3, <3>1, <3>2 DEF MeetsLengths, Meets
    <2> QED
        BY <2>2, <2>3
<1> QED
    BY <1>5, <1>6

-----------------------------------------------------------------------------
\* base64EncodedLength is what base64 takes, while four times the length fits.
LEMMA EncodedLength ==
    ASSUME NEW n \in Nat, 4 * n < Modulus
    PROVE  Characters(n) = Unpadded(n) /\ Characters(n) + Padding(n) = Padded(n)
<1>1. (n * 4) % Modulus = 4 * n
    BY ModulusAssumption
<1>2. PICK q \in Nat, s \in 0..2 : n = 3 * q + s /\ n \div 3 = q /\ n % 3 = s
    OBVIOUS
<1>3. (4 * n) \div 3 = 4 * q + s
    BY <1>2
<1>4. Characters(n) = 4 * q + IF s = 0 THEN 0 ELSE s + 1
    BY <1>1, <1>2, <1>3 DEF Characters
<1>5. Unpadded(n) = 4 * q + IF s = 0 THEN 0 ELSE s + 1
    BY <1>2 DEF Unpadded
<1>6. Padded(n) = IF s = 0 THEN 4 * q ELSE 4 * q + 4
    BY <1>2 DEF Padded
<1>7. Padding(n) = IF s = 0 THEN 0 ELSE 3 - s
    <2>1. Characters(n) % 4 = IF s = 0 THEN 0 ELSE s + 1
        BY <1>4
    <2> QED
        BY <2>1 DEF Padding
<1> QED
    BY <1>4, <1>5, <1>6, <1>7

\* Base64 grows with what it encodes, and lengths that share a number of characters
\* fill the same groups.
LEMMA Encoding ==
    ASSUME NEW n \in Nat, NEW m \in Nat
    PROVE  /\ Unpadded(n) \in Nat /\ Padded(n) \in Nat
           /\ Unpadded(n) <= Padded(n)
           /\ n > 0 => Unpadded(n) >= 1
           /\ n <= m => Unpadded(n) <= Unpadded(m) /\ Padded(n) <= Padded(m)
           /\ n <= m /\ Unpadded(m) <= Padded(n) => Padded(n) = Padded(m)
<1>1. PICK q \in Nat, s \in 0..2 : n = 3 * q + s /\ n \div 3 = q /\ n % 3 = s
    OBVIOUS
<1>2. PICK p \in Nat, u \in 0..2 : m = 3 * p + u /\ m \div 3 = p /\ m % 3 = u
    OBVIOUS
<1>3. /\ Unpadded(n) = 4 * q + IF s = 0 THEN 0 ELSE s + 1
      /\ Unpadded(m) = 4 * p + IF u = 0 THEN 0 ELSE u + 1
    BY <1>1, <1>2 DEF Unpadded
<1>4. /\ Padded(n) = IF s = 0 THEN 4 * q ELSE 4 * q + 4
      /\ Padded(m) = IF u = 0 THEN 4 * p ELSE 4 * p + 4
    BY <1>1, <1>2 DEF Padded
<1> QED
    BY <1>1, <1>2, <1>3, <1>4

\* The rules that bound the length of bytes, as their base64 does.
LEMMA BytesExact ==
    ASSUME NEW f,
           BytesField(f), f.ruled, Sensible(f.rules),
           NEW n \in Sizes, NEW t \in Encodings(n)
    PROVE  LET r == f.rules
               takes == TakesText(BytesTexts(f), t)
           IN  /\ MeetsLengths(r, n) /\ (MustNotBeEmpty(f) => n > 0) => takes \/ Narrowed(f, n)
               /\ takes => \E k \in Sizes : Padded(k) = Padded(n) /\ MeetsLengths(r, k)
<1> DEFINE r == f.rules
           c == t.chars
           low == IF r.len # {} THEN r.len ELSE r.minLen
           high == IF r.len # {} THEN r.len ELSE r.maxLen
           least == IF low # {} THEN {Characters(x) : x \in low}
                    ELSE IF f.required THEN {1} ELSE {}
           most == {Characters(x) + Padding(x) : x \in high}
           takes == TakesText(BytesTexts(f), t)
<1> SUFFICES /\ MeetsLengths(r, n) /\ (MustNotBeEmpty(f) => n > 0) => takes \/ Narrowed(f, n)
             /\ takes => \E k \in Sizes : Padded(k) = Padded(n) /\ MeetsLengths(r, k)
    OBVIOUS
<1>1. takes <=> (\A x \in least : c >= x) /\ (\A x \in most : c <= x)
    <2> DEFINE keywords == Lengths(least, most)
               texts == {[pattern |-> "base64", values |-> {}, keywords |-> keywords]}
    <2>1. BytesTexts(f) = texts
        BY DEF BytesTexts
    <2>2. TakesText(texts, t) <=> Obeys(c, keywords)
        <3> HIDE DEF keywords
        <3> QED
            BY TakesTextIf
    <2>3. Obeys(c, keywords) <=> (\A x \in least : c >= x) /\ (\A x \in most : c <= x)
        <3> HIDE DEF least, most, c
        <3> QED
            BY LengthsSay
    <2> HIDE DEF texts, keywords, least, most, c
    <2> QED
        BY <2>1, <2>2, <2>3
<1>2. /\ n \in Nat /\ r.len \subseteq Sizes /\ r.minLen \subseteq Sizes /\ r.maxLen \subseteq Sizes
      /\ Sizes \subseteq Nat
      /\ \A x \in r.len \cup r.minLen \cup r.maxLen : x \in Nat /\ 4 * x < Modulus
    BY TextAssumption DEF BytesField, Sensible
<1>3. c \in {Unpadded(n), Padded(n)} /\ Unpadded(n) <= c /\ c <= Padded(n) /\ c \in Nat
    BY <1>2, Encoding DEF Encodings
<1>4. PICK z \in Sizes : MeetsLengths(r, z)
    BY DEF Sensible
<1>5. /\ \A a, b \in r.len : a = b
      /\ \A a, b \in r.minLen : a = b
      /\ \A a, b \in r.maxLen : a = b
    BY DEF BytesField
<1> HIDE DEF r, c, takes
<1>6. /\ low # {} => ((\A x \in least : c >= x) <=> \A x \in low : Unpadded(x) <= c)
      /\ low = {} => ((\A x \in least : c >= x) <=> (f.required => c >= 1))
      /\ (\A x \in most : c <= x) <=> \A x \in high : c <= Padded(x)
    <2>1. \A x \in low \cup high : Characters(x) = Unpadded(x) /\ Characters(x) + Padding(x) = Padded(x)
        BY <1>2, EncodedLength
    <2>2. \A x \in low \cup high : Unpadded(x) \in Nat /\ Padded(x) \in Nat
        BY <1>2, Encoding
    <2> HIDE DEF low, high
    <2> QED
        BY <1>3, <2>1, <2>2
<1>7. ASSUME MeetsLengths(r, n), MustNotBeEmpty(f) => n > 0, ~Narrowed(f, n)
      PROVE  takes
    <2>1. /\ \A x \in low : x <= n
          /\ \A x \in high : n <= x
        BY <1>2, <1>7 DEF MeetsLengths, Meets
    <2>2. /\ \A x \in low : x \in Nat
          /\ \A x \in high : x \in Nat
        BY <1>2
    <2>3. f.required => c >= 1
        <3>1. f.required => n > 0
            BY <1>2, <1>7 DEF Narrowed, MustNotBeEmpty
        <3> QED
            BY <1>2, <1>3, <3>1, Encoding
    <2>4. ASSUME NEW x \in low PROVE Unpadded(x) <= c
        <3>1. x \in Nat /\ x <= n /\ n \in Nat
            BY <1>2, <2>1, <2>2
        <3>2. Unpadded(x) \in Nat /\ Unpadded(x) <= Unpadded(n) /\ Unpadded(n) \in Nat
            BY <3>1, Encoding
        <3> QED
            BY <1>3, <3>2
    <2>5. ASSUME NEW x \in high PROVE c <= Padded(x)
        <3>1. x \in Nat /\ n <= x /\ n \in Nat
            BY <1>2, <2>1, <2>2
        <3>2. Padded(x) \in Nat /\ Padded(n) <= Padded(x) /\ Padded(n) \in Nat
            BY <3>1, Encoding
        <3> QED
            BY <1>3, <3>2
    <2> HIDE DEF low, high, least, most
    <2> QED
        BY <1>1, <1>6, <2>3, <2>4, <2>5
<1>8. ASSUME takes
      PROVE  \E k \in Sizes : Padded(k) = Padded(n) /\ MeetsLengths(r, k)
    <2>1. /\ \A x \in low : Unpadded(x) <= c
          /\ \A x \in high : c <= Padded(x)
        <3> HIDE DEF low, high, least, most
        <3> QED
            BY <1>1, <1>6, <1>8
    <2>2. ASSUME NEW x \in low, n < x PROVE Padded(x) = Padded(n)
        BY <1>2, <1>3, <2>1, <2>2, Encoding
    <2>3. ASSUME NEW x \in high, x < n PROVE Padded(x) = Padded(n)
        BY <1>2, <1>3, <2>1, <2>3, Encoding
    <2>4. /\ \A x \in r.len : z = x
          /\ \A x \in r.minLen : x <= z
          /\ \A x \in r.maxLen : z <= x
        BY <1>2, <1>4 DEF MeetsLengths, Meets
    <2>5. CASE MeetsLengths(r, n)
        BY <2>5
    <2>6. CASE r.len # {}
        <3>1. z \in low /\ z \in high
            BY <2>4, <2>6
        <3>2. Padded(z) = Padded(n)
            BY <1>2, <2>2, <2>3, <3>1
        <3> QED
            BY <1>4, <3>2
    <2>7. CASE r.len = {} /\ \E x \in r.minLen : n < x
        <3>1. PICK x \in r.minLen : n < x
            BY <2>7
        <3>2. x \in Sizes /\ Padded(x) = Padded(n)
            BY <1>2, <2>2, <2>7, <3>1
        <3>3. MeetsLengths(r, x)
            <4>1. \A y \in r.minLen : x >= y
                BY <1>2, <1>5, <3>1
            <4>2. \A y \in r.maxLen : x <= y
                BY <1>2, <2>4, <3>1
            <4> QED
                BY <2>7, <4>1, <4>2 DEF MeetsLengths, Meets
        <3> QED
            BY <3>2, <3>3
    <2>8. CASE r.len = {} /\ \E x \in r.maxLen : x < n
        <3>1. PICK x \in r.maxLen : x < n
            BY <2>8
        <3>2. x \in Sizes /\ Padded(x) = Padded(n)
            BY <1>2, <2>3, <2>8, <3>1
        <3>3. MeetsLengths(r, x)
            <4>1. \A y \in r.minLen : x >= y
                BY <1>2, <2>4, <3>1
            <4>2. \A y \in r.maxLen : x <= y
                BY <1>2, <1>5, <3>1
            <4> QED
                BY <2>8, <4>1, <4>2 DEF MeetsLengths, Meets
        <3> QED
            BY <3>2, <3>3
    <2>9. \/ MeetsLengths(r, n)
          \/ r.len # {}
          \/ \E x \in r.minLen : n < x
          \/ \E x \in r.maxLen : x < n
        BY <1>2 DEF MeetsLengths, Meets
    <2> QED
        BY <2>5, <2>6, <2>7, <2>8, <2>9
<1> QED
    BY <1>7, <1>8

\* The texts of a field without rules are any, and of bytes those in base64.
LEMMA UnruledTexts ==
    ASSUME NEW f, ~f.ruled, NEW t
    PROVE  TakesText(StringTexts(f), t) /\ TakesText(BytesTexts(f), t)
<1>1. ASSUME NEW pattern \in {"any", "base64"} PROVE TakesText({Matching(pattern)}, t)
    <2>1. /\ Matching(pattern).values = {}
          /\ Matching(pattern).keywords = {}
          /\ Matching(pattern).pattern \in {"any", "base64"}
        BY DEF Matching
    <2> QED
        BY <2>1 DEF TakesText
<1> QED
    BY <1>1 DEF StringTexts, BytesTexts

\* The texts that a schema takes are those that the rules allow, but for the named
\* cases; bytes up to the group that the limit fills. The arithmetic on lengths is that
\* of the code, of any width that the lengths fit.
THEOREM TextsFitCorrect == FieldSpec => []TextsFit
<1>1. ASSUME FieldInv PROVE TextsFit
    <2>1. ASSUME done, field.kind = "string", Sensible(field.rules), NEW t \in Text
          PROVE  /\ AllowsString(field.rules, t) /\ (MustNotBeEmpty(field) => t.chars > 0) =>
                       TakesText(schema.texts, t) \/ Narrowed(field, t.chars)
                 /\ TakesText(schema.texts, t) =>
                       /\ MeetsLengths(field.rules, t.chars)
                       /\ field.rules.values = {} \/ t \in field.rules.values
                       /\ Pattern(field.rules) \in t.fits \cup {"any"}
        <3>1. schema.texts = StringTexts(field)
            BY <1>1, <2>1, SchemaParts
        <3>2. t.chars \in Nat /\ t.size \in Nat /\ t.chars <= t.size
            BY TextAssumption
        <3>3. CASE field.ruled
            <4>1. StringField(field)
                BY <1>1, <2>1, FieldOfItsKind
            <4> QED
                BY <2>1, <3>1, <3>2, <3>3, <4>1, StringExact
        <3>4. CASE ~field.ruled
            <4>1. field.rules = NoStringRules
                BY <1>1, <2>1, <3>4, FieldOfItsKind DEF StringField
            <4>2. TakesText(schema.texts, t)
                BY <3>1, <3>4, UnruledTexts
            <4>3. MeetsLengths(field.rules, t.chars) /\ field.rules.values = {}
                BY <4>1 DEF NoStringRules, MeetsLengths, Meets
            <4>4. Pattern(field.rules) = "any"
                BY <4>1 DEF NoStringRules, Pattern
            <4> QED
                BY <4>2, <4>3, <4>4
        <3> QED
            BY <3>3, <3>4
    <2>2. ASSUME done, field.kind = "bytes", Sensible(field.rules), NEW n \in Sizes, NEW t \in Encodings(n)
          PROVE  /\ MeetsLengths(field.rules, n) /\ (MustNotBeEmpty(field) => n > 0) =>
                       TakesText(schema.texts, t) \/ Narrowed(field, n)
                 /\ TakesText(schema.texts, t) =>
                       \E k \in Sizes : Padded(k) = Padded(n) /\ MeetsLengths(field.rules, k)
        <3>1. schema.texts = BytesTexts(field)
            BY <1>1, <2>2, SchemaParts
        <3>2. CASE field.ruled
            BY <1>1, <2>2, <3>1, <3>2, FieldOfItsKind, BytesExact
        <3>3. CASE ~field.ruled
            <4>1. field.rules = NoBytesRules
                BY <1>1, <2>2, <3>3, FieldOfItsKind DEF BytesField
            <4>2. TakesText(schema.texts, t)
                BY <3>1, <3>3, UnruledTexts
            <4>3. MeetsLengths(field.rules, n)
                BY <4>1 DEF NoBytesRules, MeetsLengths, Meets
            <4> QED
                BY <4>2, <4>3
        <3> QED
            BY <3>2, <3>3
    <2> QED
        BY <2>1, <2>2 DEF TextsFit
<1> QED
    BY <1>1, FieldInvariance, PTL

-----------------------------------------------------------------------------
\* A set of numbers within limits has a least and a greatest one.
LEMMA EndsOf ==
    ASSUME NEW low \in Int, NEW high \in Int, NEW S \in SUBSET (low..high), S # {}
    PROVE  /\ Min(S) \in S /\ \A k \in S : Min(S) <= k
           /\ Max(S) \in S /\ \A k \in S : k <= Max(S)
<1>0. \A k \in S : k \in Int /\ low <= k /\ k <= high
    OBVIOUS
<1>1. \E n \in S : \A k \in S : n <= k
    <2> DEFINE above == {k - low : k \in S}
    <2>1. above \in SUBSET Nat /\ above # {}
        <3>1. \A k \in S : k - low \in Nat
            BY <1>0
        <3> QED
            BY <3>1
    <2> HIDE DEF above
    <2>2. PICK i \in above : \A j \in above : i <= j
        BY <2>1, LeastNatural
    <2>3. PICK n \in S : i = n - low
        BY <2>2 DEF above
    <2>4. ASSUME NEW k \in S PROVE n <= k
        <3>1. k - low \in above
            BY DEF above
        <3>2. i <= k - low
            BY <2>2, <3>1
        <3> QED
            BY <1>0, <2>3, <3>2
    <2> QED
        BY <2>4
<1>2. \E n \in S : \A k \in S : k <= n
    <2> DEFINE below == {high - k : k \in S}
    <2>1. below \in SUBSET Nat /\ below # {}
        <3>1. \A k \in S : high - k \in Nat
            BY <1>0
        <3> QED
            BY <3>1
    <2> HIDE DEF below
    <2>2. PICK i \in below : \A j \in below : i <= j
        BY <2>1, LeastNatural
    <2>3. PICK n \in S : i = high - n
        BY <2>2 DEF below
    <2>4. ASSUME NEW k \in S PROVE k <= n
        <3>1. high - k \in below
            BY DEF below
        <3>2. i <= high - k
            BY <2>2, <3>1
        <3> QED
            BY <1>0, <2>3, <3>2
    <2> QED
        BY <2>4
<1>3. \E n \in S : \A k \in S : n >= k
    BY <1>2
<1>4. Min(S) \in S /\ \A k \in S : Min(S) <= k
    BY <1>1 DEF Min
<1>5. Max(S) \in S /\ \A k \in S : Max(S) >= k
    BY <1>3 DEF Max
<1> QED
    BY <1>4, <1>5

\* The loop of generateEnumInt32Validation, over the numbers of s.
Begun(first) == [start |-> first, last |-> first, ranges |-> {}]

Looped(first, g, s) ==
    IF s = {} THEN Begun(first) ELSE Extend(Max(s), g[s \ {Max(s)}])

Runs(first, rest) == CHOOSE g : g = [s \in SUBSET rest |-> Looped(first, g, s)]

LEMMA RangesAre ==
    ASSUME NEW numbers, numbers # {}
    PROVE  LET first == Min(numbers)
               rest == numbers \ {first}
               end == Runs(first, rest)[rest]
           IN  Ranges(numbers) = end.ranges \cup {Run(end.start, end.last)}
BY Zenon DEF Ranges, MapThenFoldSet, Looped, Begun, Runs

\* There is such a function: for sets of n numbers, if for sets of fewer.
LEMMA RunsDefined ==
    ASSUME NEW low \in Int, NEW high \in Int, NEW rest \in SUBSET (low..high), NEW first
    PROVE  Runs(first, rest) = [s \in SUBSET rest |-> Looped(first, Runs(first, rest), s)]
<1> DEFINE Upto(n) == {s \in SUBSET rest : Cardinality(s) <= n}
           Defined(n) == \E g : g = [s \in Upto(n) |-> Looped(first, g, s)]
           undefined == {n \in Nat : ~Defined(n)}
<1>1. \A s \in SUBSET rest : IsFiniteSet(s) /\ Cardinality(s) \in Nat
    <2>1. IsFiniteSet(low..high)
        BY FS_Interval
    <2> QED
        BY <2>1, FS_Subset, FS_CardinalityType
<1>2. Defined(0)
    <2>1. Upto(0) = {{}}
        BY <1>1, FS_EmptySet
    <2> DEFINE g == [s \in {{}} |-> Begun(first)]
    <2>2. g = [s \in {{}} |-> Looped(first, g, s)]
        BY DEF Looped
    <2> HIDE DEF g, Upto
    <2> QED
        BY <2>1, <2>2
<1>3. ASSUME NEW n \in Nat \ {0}, Defined(n - 1) PROVE Defined(n)
    <2>1. PICK h : h = [s \in Upto(n - 1) |-> Looped(first, h, s)]
        BY <1>3
    <2> DEFINE g == [s \in Upto(n) |-> Looped(first, h, s)]
    <2>2. ASSUME NEW s \in Upto(n) PROVE Looped(first, h, s) = Looped(first, g, s)
        <3>1. CASE s = {}
            BY <3>1 DEF Looped
        <3>2. CASE s # {}
            <4> DEFINE less == s \ {Max(s)}
            <4>1. Max(s) \in s
                BY <3>2, EndsOf
            <4>2. IsFiniteSet(s) /\ Cardinality(s) \in Nat /\ Cardinality(s) <= n
                BY <1>1
            <4>3. Cardinality(less) = Cardinality(s) - 1
                BY <4>1, <4>2, FS_RemoveElement
            <4>4. Cardinality(less) <= n - 1 /\ Cardinality(less) <= n
                <5> HIDE DEF less, Upto
                <5> QED
                    BY <4>2, <4>3
            <4>5. less \in Upto(n - 1) /\ less \in Upto(n)
                BY <4>4
            <4> HIDE DEF Upto
            <4>6. h[less] = g[less]
                BY <2>1, <4>5
            <4> HIDE DEF g
            <4> QED
                BY <3>2, <4>6 DEF Looped
        <3> QED
            BY <3>1, <3>2
    <2>3. g = [s \in Upto(n) |-> Looped(first, g, s)]
        <3> HIDE DEF Upto
        <3>1. g = [s \in Upto(n) |-> Looped(first, h, s)]
            OBVIOUS
        <3> HIDE DEF g
        <3> QED
            BY <2>2, <3>1
    <2> HIDE DEF g, Upto
    <2> QED
        BY <2>3
<1>4. undefined = {}
    <2> SUFFICES ASSUME undefined # {} PROVE FALSE
        OBVIOUS
    <2>1. undefined \in SUBSET Nat
        OBVIOUS
    <2>2. PICK n \in undefined : \A k \in undefined : n <= k
        <3> HIDE DEF undefined
        <3> QED
            BY <2>1, LeastNatural
    <2> HIDE DEF Defined
    <2>3. n \in Nat /\ ~Defined(n)
        BY <2>2
    <2>4. n \in Nat \ {0}
        BY <1>2, <2>3
    <2>5. n - 1 \in Nat /\ n - 1 \notin undefined
        BY <2>2, <2>4
    <2>6. Defined(n - 1)
        BY <2>5
    <2> QED
        BY <1>3, <2>3, <2>4, <2>6
<1>5. Upto(Cardinality(rest)) = SUBSET rest
    <2>1. rest \in SUBSET rest
        OBVIOUS
    <2>2. \A s \in SUBSET rest : Cardinality(s) <= Cardinality(rest)
        BY <1>1, <2>1, FS_Subset
    <2> QED
        BY <2>2
<1>6. Defined(Cardinality(rest))
    <2>1. Cardinality(rest) \in Nat
        BY <1>1
    <2> HIDE DEF Defined
    <2> QED
        BY <1>4, <2>1
<1> HIDE DEF Upto
<1>7. \E g : g = [s \in SUBSET rest |-> Looped(first, g, s)]
    BY <1>5, <1>6
<1> QED
    BY <1>7, Zenon DEF Runs

LEMMA RunTakes ==
    ASSUME NEW low \in Int, NEW high \in Int, NEW n \in Int, NEW R
    PROVE  TakesNumber(R \cup {Run(low, high)}, n) <=>
              TakesNumber(R, n) \/ (low <= n /\ n <= high)
<1> DEFINE K == Keyword("minimum", low, TRUE)
           L == Keyword("maximum", high, TRUE)
<1>1. TakesNumber(R \cup {Run(low, high)}, n) <=>
         TakesNumber(R, n) \/ TakesNumber({Run(low, high)}, n)
    BY DEF TakesNumber
<1>2. TakesNumber({Run(low, high)}, n) <=> Obeys(n, K \cup L)
    BY TakesAny DEF Run
<1>3. Obeys(n, K \cup L) <=> Obeys(n, K) /\ Obeys(n, L)
    BY ObeysBoth
<1>4. /\ Obeys(n, K) <=> n >= low
      /\ Obeys(n, L) <=> n <= high
    BY KeywordSaysAlways
<1> HIDE DEF K, L
<1> QED
    BY <1>1, <1>2, <1>3, <1>4

\* The runs that are ended and the one that is open cover the numbers seen, and the
\* open one ends with the last of these.
Covers(first, run, s) ==
    /\ run = [start |-> run.start, last |-> run.last, ranges |-> run.ranges]
    /\ run.start \in Int /\ run.last \in s \cup {first}
    /\ run.start <= run.last
    /\ \A k \in s \cup {first} : k <= run.last
    /\ \A n \in Int : n \in s \cup {first} <=>
          TakesNumber(run.ranges, n) \/ (run.start <= n /\ n <= run.last)

LEMMA ExtendCovers ==
    ASSUME NEW first \in Int, NEW s \in SUBSET Int, NEW run, Covers(first, run, s),
           NEW next \in Int, \A k \in s \cup {first} : k < next
    PROVE  Covers(first, Extend(next, run), s \cup {next})
<1> DEFINE new == Extend(next, run)
           all == s \cup {first}
<1>1. /\ run = [start |-> run.start, last |-> run.last, ranges |-> run.ranges]
      /\ run.start \in Int /\ run.last \in Int /\ run.last \in all /\ run.last < next
      /\ run.start <= run.last
      /\ \A n \in Int : n \in all <=>
            TakesNumber(run.ranges, n) \/ (run.start <= n /\ n <= run.last)
    BY DEF Covers
<1>2. (s \cup {next}) \cup {first} = all \cup {next}
    OBVIOUS
<1>3. CASE next = run.last + 1
    <2>1. new = [start |-> run.start, last |-> next, ranges |-> run.ranges]
        BY <1>1, <1>3 DEF Extend
    <2>2. new.start = run.start /\ new.last = next /\ new.ranges = run.ranges
        BY <2>1
    <2> HIDE DEF new, all
    <2>3. ASSUME NEW n \in Int
          PROVE  n \in all \cup {next} <=>
                    TakesNumber(new.ranges, n) \/ (new.start <= n /\ n <= new.last)
        <3>1. new.start <= n /\ n <= new.last <=>
                 (run.start <= n /\ n <= run.last) \/ n = next
            BY <1>1, <1>3, <2>2
        <3> QED
            BY <1>1, <2>2, <3>1
    <2>4. new = [start |-> new.start, last |-> new.last, ranges |-> new.ranges]
        BY <2>1, <2>2
    <2>5. new.start \in Int /\ new.last \in all \cup {next} /\ new.start <= new.last
        BY <1>1, <2>2
    <2>6. \A k \in all \cup {next} : k <= new.last
        BY <2>2 DEF all
    <2> QED
        BY <1>2, <2>3, <2>4, <2>5, <2>6 DEF Covers, new
<1>4. CASE next # run.last + 1
    <2>1. new = [start |-> next, last |-> next,
                 ranges |-> run.ranges \cup {Run(run.start, run.last)}]
        BY <1>4 DEF Extend
    <2>2. /\ new.start = next /\ new.last = next
          /\ new.ranges = run.ranges \cup {Run(run.start, run.last)}
        BY <2>1
    <2> HIDE DEF new, all
    <2>3. ASSUME NEW n \in Int
          PROVE  n \in all \cup {next} <=>
                    TakesNumber(new.ranges, n) \/ (new.start <= n /\ n <= new.last)
        <3>1. TakesNumber(new.ranges, n) <=>
                 TakesNumber(run.ranges, n) \/ (run.start <= n /\ n <= run.last)
            BY <1>1, <2>2, RunTakes
        <3> QED
            BY <1>1, <2>2, <3>1
    <2>4. new = [start |-> new.start, last |-> new.last, ranges |-> new.ranges]
        BY <2>1, <2>2
    <2>5. new.start \in Int /\ new.last \in all \cup {next} /\ new.start <= new.last
        BY <2>2
    <2>6. \A k \in all \cup {next} : k <= new.last
        BY <2>2 DEF all
    <2> QED
        BY <1>2, <2>3, <2>4, <2>5, <2>6 DEF Covers, new
<1> QED
    BY <1>3, <1>4

LEMMA RunsCover ==
    ASSUME NEW low \in Int, NEW high \in Int, NEW first \in low..high,
           NEW rest \in SUBSET (low..high), \A k \in rest : first < k
    PROVE  \A s \in SUBSET rest : Covers(first, Runs(first, rest)[s], s)
<1> DEFINE g == Runs(first, rest)
           wrong == {s \in SUBSET rest : ~Covers(first, g[s], s)}
           sizes == {Cardinality(s) : s \in wrong}
<1>1. \A s \in SUBSET rest : IsFiniteSet(s) /\ Cardinality(s) \in Nat
    <2>1. IsFiniteSet(low..high)
        BY FS_Interval
    <2> QED
        BY <2>1, FS_Subset, FS_CardinalityType
<1>2. \A s \in SUBSET rest : g[s] = Looped(first, g, s)
    <2>1. g = [s \in SUBSET rest |-> Looped(first, g, s)]
        BY RunsDefined
    <2> HIDE DEF g
    <2> QED
        BY <2>1
<1> HIDE DEF g
<1>3. ASSUME NEW s \in SUBSET rest, \A u \in SUBSET rest :
                Cardinality(u) < Cardinality(s) => Covers(first, g[u], u)
      PROVE  Covers(first, g[s], s)
    <2>1. CASE s = {}
        <3>1. g[s] = [start |-> first, last |-> first, ranges |-> {}]
            BY <1>2, <2>1 DEF Looped, Begun
        <3>2. \A n : ~TakesNumber({}, n)
            BY DEF TakesNumber
        <3> QED
            BY <2>1, <3>1, <3>2 DEF Covers
    <2>2. CASE s # {}
        <3> DEFINE last == Max(s)
                   less == s \ {last}
        <3>1. last \in s /\ \A k \in s : k <= last
            BY <2>2, EndsOf
        <3>2. IsFiniteSet(s) /\ Cardinality(s) \in Nat
            BY <1>1
        <3>3. Cardinality(less) = Cardinality(s) - 1
            BY <3>1, <3>2, FS_RemoveElement
        <3>4. Covers(first, g[less], less)
            <4>1. less \in SUBSET rest
                OBVIOUS
            <4> HIDE DEF less
            <4>2. Cardinality(less) < Cardinality(s)
                BY <3>2, <3>3
            <4> QED
                BY <1>3, <4>1, <4>2
        <3>5. g[s] = Extend(last, g[less])
            BY <1>2, <2>2 DEF Looped
        <3> HIDE DEF last
        <3>6. \A k \in less \cup {first} : k < last
            BY <3>1
        <3>7. s = less \cup {last} /\ less \in SUBSET Int /\ last \in Int
            BY <3>1
        <3> DEFINE run == g[less]
        <3> HIDE DEF less, run
        <3>8. Covers(first, Extend(last, run), less \cup {last})
            BY <3>4, <3>6, <3>7, ExtendCovers DEF run
        <3> QED
            BY <3>5, <3>7, <3>8 DEF run
    <2> QED
        BY <2>1, <2>2
<1>4. wrong = {}
    <2> SUFFICES ASSUME wrong # {} PROVE FALSE
        OBVIOUS
    <2>1. sizes \in SUBSET Nat /\ sizes # {}
        BY <1>1
    <2>2. PICK n \in sizes : \A k \in sizes : n <= k
        <3> HIDE DEF sizes
        <3> QED
            BY <2>1, LeastNatural
    <2>3. PICK s \in wrong : n = Cardinality(s)
        BY <2>2
    <2>4. ASSUME NEW u \in SUBSET rest, Cardinality(u) < Cardinality(s)
          PROVE  Covers(first, g[u], u)
        <3>1. Cardinality(u) \in Nat /\ Cardinality(s) \in Nat
            BY <1>1
        <3>2. Cardinality(u) \notin sizes
            BY <2>2, <2>3, <2>4, <3>1
        <3> QED
            BY <3>2
    <2> QED
        BY <1>3, <2>3, <2>4
<1> QED
    BY <1>4 DEF g

\* Numbers as runs without a gap: the ranges take them all, and no other.
LEMMA RangesTake ==
    ASSUME NEW low \in Int, NEW high \in Int, NEW numbers \in SUBSET (low..high),
           NEW n \in Int
    PROVE  TakesNumber(Ranges(numbers), n) <=> n \in numbers
<1>1. CASE numbers = {}
    <2>1. Ranges(numbers) = {}
        BY <1>1, Zenon DEF Ranges
    <2> QED
        BY <1>1, <2>1 DEF TakesNumber
<1>2. CASE numbers # {}
    <2> DEFINE first == Min(numbers)
               rest == numbers \ {first}
               end == Runs(first, rest)[rest]
    <2>1. first \in numbers /\ \A k \in numbers : first <= k
        BY <1>2, EndsOf
    <2>2. Ranges(numbers) = end.ranges \cup {Run(end.start, end.last)}
        BY <1>2, RangesAre
    <2> HIDE DEF first
    <2>3. first \in low..high /\ rest \in SUBSET (low..high) /\ \A k \in rest : first < k
        BY <2>1
    <2>4. rest \in SUBSET rest /\ rest \cup {first} = numbers
        BY <2>1
    <2> HIDE DEF rest
    <2>5. Covers(first, end, rest)
        BY <2>3, <2>4, RunsCover
    <2> HIDE DEF end
    <2>6. /\ end.start \in Int /\ end.last \in Int
          /\ n \in numbers <=> TakesNumber(end.ranges, n) \/ (end.start <= n /\ n <= end.last)
        BY <2>3, <2>4, <2>5 DEF Covers
    <2> QED
        BY <2>2, <2>6, RunTakes
<1> QED
    BY <1>1, <1>2

-----------------------------------------------------------------------------
\* The limits of the numbers of an enum.
LEMMA Int32Facts ==
    /\ MinInt32 \in Int /\ MaxInt32 \in Int
    /\ Int32 = MinInt32..MaxInt32
BY Int32Assumption

\* A number has a name that is not removed exactly when the rules allow it.
LEMMA SelectedAre ==
    ASSUME NEW f, EnumField(f), NEW v \in f.declared
    PROVE  v \in Selected(f) <=> v.number \in AllowedNumbers(f)
<1>1. v.number \in Int32
    BY DEF EnumField
<1> QED
    BY <1>1 DEF Selected, AllowedNumbers, AllowZero

\* The schema of an enum lists the names of the allowed numbers.
LEMMA EnumNamesListed ==
    ASSUME NEW f, EnumField(f), NEW v \in f.declared
    PROVE  Lists(EnumTexts(f), v.name) <=> v.number \in AllowedNumbers(f)
<1> DEFINE hidden == {w \in Selected(f) : HideZero(f) /\ w.number = 0}
           shown == Selected(f) \ hidden
           texts == {Listing({w.name}) : w \in hidden}
                    \cup IF shown = {} THEN {} ELSE {Listing(NamesOf(shown))}
<1>1. EnumTexts(f) = texts
    BY Zenon DEF EnumTexts
<1>2. Lists(texts, v.name) <=> \E w \in Selected(f) : w.name = v.name
    <2>1. \A words : Listing(words).values = words
        BY DEF Listing
    <2>2. Lists(texts, v.name) <=>
             \/ \E w \in hidden : v.name \in {w.name}
             \/ shown # {} /\ v.name \in NamesOf(shown)
        <3> HIDE DEF hidden, shown
        <3> QED
            BY <2>1 DEF Lists
    <2> QED
        BY <2>2 DEF NamesOf
<1>3. (\E w \in Selected(f) : w.name = v.name) <=> v \in Selected(f)
    <2>1. ASSUME NEW w \in Selected(f), w.name = v.name PROVE v \in Selected(f)
        <3>1. w \in f.declared
            BY DEF Selected
        <3>2. w.number = v.number
            BY <2>1, <3>1 DEF EnumField
        <3> QED
            BY <3>1, <3>2, SelectedAre
    <2> QED
        BY <2>1
<1> HIDE DEF texts
<1> QED
    BY <1>1, <1>2, <1>3, SelectedAre

\* What the number schemas of an enum take.
LEMMA EnumNumbersTake ==
    ASSUME NEW f, EnumField(f), NEW n \in Int
    PROVE  LET named == \E v \in f.declared : v.number = n
               takes == TakesNumber(EnumNumbers(f), n)
           IN  IF Closed(f) THEN takes <=> named /\ n \in AllowedNumbers(f)
               ELSE takes <=> n \in Int32 /\ (n = 0 => AllowZero(f))
<1> DEFINE takes == TakesNumber(EnumNumbers(f), n)
<1>1. CASE Closed(f)
    <2> DEFINE numbers == {v.number : v \in Selected(f)}
    <2>1. numbers \in SUBSET (MinInt32..MaxInt32)
        BY Int32Facts DEF EnumField, Selected
    <2>2. EnumNumbers(f) = Ranges(numbers)
        BY <1>1 DEF EnumNumbers
    <2>3. n \in numbers <=> \E v \in f.declared : v.number = n /\ n \in AllowedNumbers(f)
        <3>1. \A v \in Selected(f) : v \in f.declared
            BY DEF Selected
        <3>2. \A v \in f.declared : v \in Selected(f) <=> v.number \in AllowedNumbers(f)
            BY SelectedAre
        <3> QED
            BY <3>1, <3>2
    <2> HIDE DEF numbers
    <2>4. TakesNumber(Ranges(numbers), n) <=> n \in numbers
        BY <2>1, Int32Facts, RangesTake
    <2> QED
        BY <1>1, <2>2, <2>3, <2>4
<1>2. CASE ~Closed(f) /\ AllowZero(f)
    <2>1. EnumNumbers(f) = {} \cup {Run(MinInt32, MaxInt32)}
        BY <1>2 DEF EnumNumbers
    <2>2. TakesNumber({} \cup {Run(MinInt32, MaxInt32)}, n) <=>
             TakesNumber({}, n) \/ (MinInt32 <= n /\ n <= MaxInt32)
        BY Int32Facts, RunTakes
    <2>3. ~TakesNumber({}, n)
        BY DEF TakesNumber
    <2>4. takes <=> MinInt32 <= n /\ n <= MaxInt32
        BY <2>1, <2>2, <2>3
    <2> QED
        BY <1>2, <2>4, Int32Facts
<1>3. CASE ~Closed(f) /\ ~AllowZero(f)
    <2> DEFINE least == Keyword("minimum", MinInt32, TRUE)
               below == Keyword("exclusiveMaximum", 0, TRUE)
               above == Keyword("exclusiveMinimum", 0, TRUE)
               most == Keyword("maximum", MaxInt32, TRUE)
    <2>1. EnumNumbers(f) = {Branch({}, least \cup below), Branch({}, above \cup most)}
        BY <1>3 DEF EnumNumbers
    <2>2. /\ Obeys(n, least) <=> n >= MinInt32
          /\ Obeys(n, below) <=> n < 0
          /\ Obeys(n, above) <=> n > 0
          /\ Obeys(n, most) <=> n <= MaxInt32
        <3>1. 0 \in Int /\ MinInt32 \in Int /\ MaxInt32 \in Int
            BY Int32Facts
        <3>2. Obeys(n, least) <=> n >= MinInt32
            BY <3>1, KeywordSaysAlways, Zenon
        <3>3. Obeys(n, below) <=> n < 0
            BY <3>1, KeywordSaysAlways, Zenon
        <3>4. Obeys(n, above) <=> n > 0
            BY <3>1, KeywordSaysAlways, Zenon
        <3>5. Obeys(n, most) <=> n <= MaxInt32
            BY <3>1, KeywordSaysAlways, Zenon
        <3> QED
            BY <3>2, <3>3, <3>4, <3>5
    <2> HIDE DEF least, below, above, most
    <2>3. /\ Obeys(n, least \cup below) <=> Obeys(n, least) /\ Obeys(n, below)
          /\ Obeys(n, above \cup most) <=> Obeys(n, above) /\ Obeys(n, most)
        BY ObeysBoth
    <2>4. takes <=> Obeys(n, least \cup below) \/ Obeys(n, above \cup most)
        <3>1. \A K, L : TakesNumber({Branch({}, K), Branch({}, L)}, n) <=> Obeys(n, K) \/ Obeys(n, L)
            BY TakesEither
        <3> QED
            BY <2>1, <3>1
    <2>5. 0 \in Int32
        BY Int32Assumption
    <2> HIDE DEF takes
    <2>6. takes <=> (n >= MinInt32 /\ n < 0) \/ (n > 0 /\ n <= MaxInt32)
        BY <2>2, <2>3, <2>4
    <2>7. takes <=> n \in Int32 /\ n # 0
        BY <2>5, <2>6, Int32Facts
    <2> QED
        BY <1>3, <2>7 DEF takes
<1> QED
    BY <1>1, <1>2, <1>3

\* The schema of a Boolean lists what its rules allow.
LEMMA BoolExact ==
    ASSUME NEW f, BoolField(f), ~BoolDiffers(f)
    PROVE  BoolTruths(f) = AllowedTruths(f)
<1>1. /\ f.presence \in BOOLEAN /\ f.required \in BOOLEAN /\ f.ifZero \in BOOLEAN
      /\ f.const \in {{}, {FALSE}, {TRUE}}
    BY DEF BoolField
<1>2. CASE ~f.presence /\ f.required
    <2>1. Implicit(f) /\ Demanded(f) /\ f.const # {FALSE}
        BY <1>2 DEF BoolDiffers, Demanded
    <2>2. f.const = {} \/ f.const = {TRUE}
        BY <1>1, <2>1
    <2>3. AllowedTruths(f) = {TRUE}
        BY <2>1, <2>2 DEF AllowedTruths
    <2> QED
        BY <1>2, <2>3 DEF BoolTruths
<1>3. CASE ~(~f.presence /\ f.required)
    <2>1. ~(Implicit(f) /\ Demanded(f))
        BY <1>3 DEF Implicit, Demanded
    <2>2. AllowedTruths(f) = {b \in BOOLEAN : f.const = {} \/ b \in f.const}
        BY <2>1 DEF AllowedTruths
    <2>3. BoolTruths(f) = IF f.const # {} THEN f.const ELSE BOOLEAN
        BY <1>3 DEF BoolTruths
    <2> QED
        BY <1>1, <2>2, <2>3
<1> QED
    BY <1>2, <1>3

\* The schemas of Booleans and enums take the values that their rules allow and, but for
\* the named cases, no others: for any declared names and numbers, in the limits of any
\* type.
THEOREM ListedExactCorrect == FieldSpec => []ListedExact
<1>1. ASSUME FieldInv PROVE ListedExact
    <2>1. ASSUME done, field.kind = "bool", ~BoolDiffers(field)
          PROVE  schema.truths = AllowedTruths(field)
        BY <1>1, <2>1, SchemaParts, FieldOfItsKind, BoolExact
    <2>2. ASSUME done, field.kind = "enum"
          PROVE  LET allowed == AllowedNumbers(field)
                     numbers == {v.number : v \in field.declared}
                 IN  /\ \A v \in field.declared :
                           Lists(schema.texts, v.name) <=> v.number \in allowed
                     /\ \A n \in IF Closed(field) THEN allowed \cap numbers ELSE allowed :
                           TakesNumber(schema.numbers, n)
                     /\ \A n \in MinInt32 - 1..MaxInt32 + 1 :
                           TakesNumber(schema.numbers, n) =>
                               n \in allowed \/ (n \in field.notIn /\ ~Closed(field))
        <3> DEFINE allowed == AllowedNumbers(field)
                   numbers == {v.number : v \in field.declared}
        <3>1. /\ EnumField(field)
              /\ schema.numbers = EnumNumbers(field) /\ schema.texts = EnumTexts(field)
            BY <1>1, <2>2, SchemaParts, FieldOfItsKind
        <3>2. \A v \in field.declared :
                 Lists(schema.texts, v.name) <=> v.number \in allowed
            BY <3>1, EnumNamesListed
        <3>3. \A n \in Int :
                 IF Closed(field) THEN TakesNumber(schema.numbers, n) <=> n \in numbers /\ n \in allowed
                 ELSE TakesNumber(schema.numbers, n) <=> n \in Int32 /\ (n = 0 => AllowZero(field))
            BY <3>1, EnumNumbersTake
        <3>4. allowed \subseteq Int32 /\ Int32 \subseteq Int
            BY Int32Facts DEF AllowedNumbers
        <3>5. ASSUME ~Closed(field), NEW n \in Int32
              PROVE  n \in allowed <=> n \notin field.notIn /\ (n = 0 => AllowZero(field))
            BY <3>5 DEF Closed, AllowedNumbers, AllowZero
        <3>6. \A n \in MinInt32 - 1..MaxInt32 + 1 : n \in Int
            BY Int32Facts
        <3> HIDE DEF allowed, numbers
        <3>7. \A n \in IF Closed(field) THEN allowed \cap numbers ELSE allowed :
                 TakesNumber(schema.numbers, n)
            BY <3>3, <3>4, <3>5
        <3>8. \A n \in MinInt32 - 1..MaxInt32 + 1 :
                 TakesNumber(schema.numbers, n) =>
                     n \in allowed \/ (n \in field.notIn /\ ~Closed(field))
            BY <3>3, <3>5, <3>6
        <3> QED
            BY <3>2, <3>7, <3>8 DEF allowed, numbers
    <2> QED
        BY <2>1, <2>2 DEF ListedExact
<1> QED
    BY <1>1, FieldInvariance, PTL

-----------------------------------------------------------------------------
\* The empty text is taken where the rules of a string allow it, unless required.
LEMMA EmptyTaken ==
    ASSUME NEW f, StringField(f), f.kind = "string", ~Demanded(f),
           NEW t, t.chars = 0, t.size = 0, t.fits = {}, AllowsString(f.rules, t)
    PROVE  TakesText(StringTexts(f), t) \/ Narrowed(f, 0)
<1> DEFINE r == f.rules
           low == MinLength(r, f.required)
           high == MaxLength(r)
<1>1. CASE ~f.ruled
    BY <1>1, UnruledTexts
<1>2. CASE f.ruled /\ f.required
    BY <1>2 DEF Narrowed
<1>3. CASE f.ruled /\ ~f.required
    <2>1. r.len \cup r.minLen \cup r.maxLen \cup r.maxBytes \subseteq Nat
        BY DEF StringField
    <2>2. /\ r.values = {} \/ t \in r.values
          /\ \A k \in r.len : 0 = k
          /\ \A k \in r.minLen : 0 >= k
          /\ r.shapes = {}
        BY DEF AllowsString, Meets
    <2>3. \A k \in low : k = 0
        <3>1. r.minLen \subseteq {0}
            BY <2>1, <2>2
        <3>2. r.minLen \in {{}, {0}}
            BY <3>1
        <3>3. low = IF r.len # {} THEN r.len
                    ELSE IF r.minLen \notin {{}, {0}} THEN r.minLen ELSE {}
            BY <1>3 DEF MinLength
        <3>4. CASE r.len # {}
            BY <2>2, <3>3, <3>4
        <3>5. CASE r.len = {}
            <4>1. low = {}
                BY <3>2, <3>3, <3>5
            <4> QED
                BY <4>1
        <3> QED
            BY <3>4, <3>5
    <2>4. high \subseteq Nat
        <3>1. high \in {r.len, r.maxLen, {0}, r.maxBytes}
            BY DEF MaxLength
        <3> HIDE DEF high
        <3> QED
            BY <2>1, <3>1
    <2>5. Pattern(r) = "any"
        <3> HIDE DEF r
        <3> QED
            BY <2>2 DEF Pattern
    <2>6. \A k \in Lengths(low, high) : Holds(k, 0)
        <3> HIDE DEF low, high
        <3>1. \A n \in low : Holds([word |-> "minLength", val |-> n], 0)
            BY <2>3 DEF Holds
        <3>2. \A n \in high : Holds([word |-> "maxLength", val |-> n], 0)
            BY <2>4 DEF Holds
        <3> QED
            BY <3>1, <3>2 DEF Lengths
    <2> DEFINE b == [pattern |-> Pattern(r), values |-> r.values, keywords |-> Lengths(low, high)]
    <2>7. StringTexts(f) = {b}
        BY <1>3 DEF StringTexts
    <2>8. b.pattern = "any" /\ b.values = r.values /\ b.keywords = Lengths(low, high)
        BY <2>5
    <2> HIDE DEF b, r, low, high
    <2> QED
        BY <2>2, <2>6, <2>7, <2>8 DEF TakesText
<1> QED
    BY <1>1, <1>2, <1>3

\* A default excuses no client from a field that is demanded, and is taken where the
\* rules allow zero, in the form in which it is named; that of bytes never is.
THEOREM DefaultFitsCorrect == FieldSpec => []DefaultFits
<1>1. ASSUME FieldInv PROVE DefaultFits
    <2> SUFFICES ASSUME NEW json \in schema.default
                 PROVE  /\ ~Demanded(field)
                        /\ AllowsZero(field) =>
                              \/ Takes(schema, json)
                              \/ field.kind = "string" /\ Narrowed(field, 0)
                              \/ field.kind = "bytes"
        BY DEF DefaultFits
    <2>1. done
        BY <1>1 DEF FieldInv, NoSchema
    <2>2. json \in Default(field) /\ Implicit(field) /\ ~Demanded(field)
          /\ ~(field.kind = "bool" /\ field.required)
        <3>1. json \in Defaults(field)
            BY <1>1, <2>1, SchemaParts
        <3> QED
            BY <3>1 DEF Defaults, HasImplicitDefault
    <2>3. field.kind \in {"bool", "enum", "integer", "float", "string", "bytes"}
        BY <1>1, FieldAssumption DEF FieldInv
    <2> SUFFICES ASSUME AllowsZero(field), field.kind # "bytes",
                        ~(field.kind = "string" /\ Narrowed(field, 0))
                 PROVE  Takes(schema, json)
        BY <2>2
    <2>4. CASE field.kind = "bool"
        <3>1. FALSE \in AllowedTruths(field)
            BY <2>4 DEF AllowsZero
        <3>2. FALSE \in BoolTruths(field)
            BY <2>2, <2>4, <3>1 DEF AllowedTruths, BoolTruths
        <3>3. json = Truth(FALSE) /\ schema.truths = BoolTruths(field)
            BY <1>1, <2>1, <2>2, <2>4, SchemaParts DEF Default
        <3> QED
            BY <3>2, <3>3 DEF Takes, Truth
    <2>5. CASE field.kind = "enum"
        <3>1. 0 \in AllowedNumbers(field) /\ \E v \in field.declared : v.number = 0
            BY <2>5 DEF AllowsZero
        <3>2. /\ json = Number(0) /\ EnumField(field)
              /\ schema.numbers = EnumNumbers(field)
            BY <1>1, <2>1, <2>2, <2>5, SchemaParts, FieldOfItsKind DEF Default
        <3>3. TakesNumber(EnumNumbers(field), 0)
            <4>1. 0 \in Int32 /\ (Closed(field) \/ AllowZero(field))
                BY <2>2, Int32Assumption DEF AllowZero
            <4> QED
                BY <3>1, <3>2, <4>1, EnumNumbersTake
        <3> QED
            BY <3>2, <3>3 DEF Takes, Number
    <2>6. CASE field.kind = "integer"
        <3>1. 0 \in Allowed(field.rules, Type(field.signed, field.half))
            BY <2>6 DEF AllowsZero
        <3>2. /\ IntegerField(field)
              /\ schema.numbers = IntegerNumbers(field) /\ schema.texts = IntegerTexts(field)
            BY <1>1, <2>1, <2>6, SchemaParts, FieldOfItsKind
        <3>3. CASE field.half = WideHalf /\ field.string64
            <4>1. json = Numeral(0)
                BY <2>2, <2>6, <3>3 DEF Default
            <4>2. TakesNumeral(schema.texts, 0)
                BY <3>1, <3>2, IntegerTextsTaken
            <4> QED
                BY <4>1, <4>2 DEF Takes, Numeral
        <3>4. CASE ~(field.half = WideHalf /\ field.string64)
            <4>1. json = Number(0)
                BY <2>2, <2>6, <3>4 DEF Default
            <4>2. 0 \in Safe
                BY WidthAssumption DEF Safe, maxSafeInteger
            <4>3. TakesNumber(IntegerNumbers(field), 0)
                BY <3>1, <3>2, <3>4, <4>2, IntegerNumbersExact
            <4> QED
                BY <3>2, <4>1, <4>3 DEF Takes, Number
        <3> QED
            BY <3>3, <3>4
    <2>7. CASE field.kind = "float"
        <3>1. 0 \in AllowedFloats(field.rules, field.single)
            BY <2>7 DEF AllowsZero
        <3>2. FloatField(field) /\ schema.numbers = FloatNumbers(field) /\ json = Number(0)
            BY <1>1, <2>1, <2>2, <2>7, SchemaParts, FieldOfItsKind DEF Default
        <3>3. 0 \notin Extremes
            BY FloatAssumption DEF Extremes, Inf, NaN
        <3>4. TakesNumber(FloatNumbers(field), 0)
            BY <3>1, <3>2, <3>3, AllowedFiniteTaken
        <3> QED
            BY <3>2, <3>4 DEF Takes, Number
    <2>8. CASE field.kind = "string"
        <3> DEFINE t == [chars |-> 0, size |-> 0, fits |-> {}]
        <3>1. AllowsString(field.rules, t)
            BY <2>8 DEF AllowsZero
        <3>2. StringField(field) /\ schema.texts = StringTexts(field) /\ json = Word(t)
            BY <1>1, <2>1, <2>2, <2>8, SchemaParts, FieldOfItsKind DEF Default
        <3>3. t.chars = 0 /\ t.size = 0 /\ t.fits = {}
            OBVIOUS
        <3> HIDE DEF t
        <3>4. TakesText(schema.texts, t)
            BY <2>2, <2>8, <3>1, <3>2, <3>3, EmptyTaken
        <3> QED
            BY <3>2, <3>4 DEF Takes, Word
    <2> QED
        BY <2>3, <2>4, <2>5, <2>6, <2>7, <2>8
<1> QED
    BY <1>1, FieldInvariance, PTL
=============================================================================
