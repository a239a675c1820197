------------------------- MODULE ServiceRegistryProofs -------------------------
(***************************************************************************)
(* ServiceRegistry, for any set of names and any dependencies: what the    *)
(* search returns is a complete order with dependencies first, and it      *)
(* refuses exactly the services that depend on each other in a circle.     *)
(*                                                                         *)
(* Container, for any containers, scopes and needs without circles: a      *)
(* singleton is made once in its life, a scoped object once in a scope.    *)
(***************************************************************************)
EXTENDS ServiceRegistry, Container, FiniteSetTheorems, SequenceTheorems, TLAPS

(* Facts about sequences.                                                  *)

\* What a sequence holds after an Append.
LEMMA AppendFacts ==
    ASSUME NEW S, NEW q \in Seq(S), NEW x \in S
    PROVE  /\ Append(q, x) \in Seq(S)
           /\ Len(q) \in Nat /\ Len(Append(q, x)) = Len(q) + 1
           /\ DOMAIN q = 1..Len(q)
           /\ DOMAIN Append(q, x) = 1..(Len(q) + 1)
           /\ \A i \in 1..Len(q) : Append(q, x)[i] = q[i]
           /\ Append(q, x)[Len(q) + 1] = x
           /\ \A i \in 1..Len(q) : q[i] \in S
  OBVIOUS

\* The stack below its top.
LEMMA PopFacts ==
    ASSUME NEW S, NEW q \in Seq(S), q # <<>>
    PROVE  /\ Len(q) \in Nat /\ Len(q) >= 1
           /\ DOMAIN q = 1..Len(q)
           /\ \A i \in 1..Len(q) : q[i] \in S
           /\ SubSeq(q, 1, Len(q) - 1) \in Seq(S)
           /\ Len(SubSeq(q, 1, Len(q) - 1)) = Len(q) - 1
           /\ DOMAIN SubSeq(q, 1, Len(q) - 1) = 1..(Len(q) - 1)
           /\ \A i \in 1..(Len(q) - 1) : SubSeq(q, 1, Len(q) - 1)[i] = q[i]
<1>1. /\ Len(q) \in Nat /\ Len(q) >= 1
      /\ DOMAIN q = 1..Len(q)
      /\ \A i \in 1..Len(q) : q[i] \in S
  BY EmptySeq, LenProperties
<1>2. \A i \in 1..(Len(q) - 1) : q[i] \in S
  BY <1>1
<1>3. /\ SubSeq(q, 1, Len(q) - 1) \in Seq(S)
      /\ Len(SubSeq(q, 1, Len(q) - 1)) = IF 1 <= Len(q) - 1 THEN Len(q) - 1 - 1 + 1 ELSE 0
      /\ \A i \in 1..(Len(q) - 1 - 1 + 1) : SubSeq(q, 1, Len(q) - 1)[i] = q[1 + i - 1]
  BY <1>1, <1>2, SubSeqProperties
<1>4. /\ Len(SubSeq(q, 1, Len(q) - 1)) = Len(q) - 1
      /\ \A i \in 1..(Len(q) - 1) : SubSeq(q, 1, Len(q) - 1)[i] = q[i]
  BY <1>1, <1>3
<1>. QED
  BY <1>1, <1>3, <1>4, LenProperties

\* The stack when its top has met the name d.
LEMMA AdvancedFacts ==
    ASSUME TypeOK, stack # <<>>, NEW d \in Names
    PROVE  /\ Len(stack) \in Nat /\ Len(stack) >= 1
           /\ DOMAIN stack = 1..Len(stack)
           /\ \A i \in 1..Len(stack) : stack[i] \in Frames
           /\ Advanced(d) \in Seq(Frames)
           /\ Len(Advanced(d)) = Len(stack)
           /\ DOMAIN Advanced(d) = 1..Len(stack)
           /\ \A i \in 1..Len(stack) :
                /\ Advanced(d)[i].name = stack[i].name
                /\ Advanced(d)[i].rest = IF i = Len(stack) THEN stack[i].rest \ {d}
                                                           ELSE stack[i].rest
<1>1. /\ Len(stack) \in Nat /\ Len(stack) >= 1
      /\ DOMAIN stack = 1..Len(stack)
      /\ \A i \in 1..Len(stack) : stack[i] \in Frames
  BY PopFacts DEF TypeOK
<1>2. Top \in Frames
  BY <1>1 DEF Top
<1>. DEFINE f == [Top EXCEPT !.rest = Rest(d)]
<1>3. f \in Frames /\ f.name = Top.name /\ f.rest = Top.rest \ {d}
  BY <1>2 DEF Frames, Rest
<1>4. Advanced(d) = [stack EXCEPT ![Len(stack)] = f]
  BY <1>1 DEF Advanced, Top
<1>. HIDE DEF f
<1>5. /\ [stack EXCEPT ![Len(stack)] = f] \in Seq(Frames)
      /\ Len([stack EXCEPT ![Len(stack)] = f]) = Len(stack)
      /\ DOMAIN [stack EXCEPT ![Len(stack)] = f] = 1..Len(stack)
      /\ \A i \in 1..Len(stack) :
            [stack EXCEPT ![Len(stack)] = f][i] = IF i = Len(stack) THEN f ELSE stack[i]
  BY <1>1, <1>3 DEF TypeOK
<1>6. ASSUME NEW i \in 1..Len(stack)
      PROVE  /\ Advanced(d)[i].name = stack[i].name
             /\ Advanced(d)[i].rest = IF i = Len(stack) THEN stack[i].rest \ {d}
                                                        ELSE stack[i].rest
  <2>1. CASE i = Len(stack)
    BY <1>3, <1>4, <1>5, <2>1 DEF Top
  <2>2. CASE i # Len(stack)
    BY <1>4, <1>5, <2>2
  <2>. QED  BY <2>1, <2>2
<1>. QED
  BY <1>1, <1>4, <1>5, <1>6

-----------------------------------------------------------------------------
LEMMA InitRegistryInv == Init => RegistryInv
<1>. SUFFICES ASSUME Init PROVE RegistryInv
  OBVIOUS
<1>1. <<>> \in Seq(Frames) /\ <<>> \in Seq(Names) /\ DOMAIN <<>> = {}
  OBVIOUS
<1>2. TypeOK /\ visited = {} /\ services = {} /\ Elements(resolved) = {}
  BY <1>1 DEF Init, TypeOK, Elements
<1>3. \A S \in SUBSET {} : ~Circle(S)
  BY DEF Circle
<1>. QED
  BY <1>1, <1>2, <1>3 DEF Init, RegistryInv, StackInv, VisitedInv, NeedsComeFirst,
       OrderIsComplete, RefusesExactlyCircles

\* A change of the registry happens between two searches and ends in a state
\* without a result.
LEMMA ForgetInv ==
    ASSUME RegistryInv, Idle, Forget,
           services' \subseteq Names, deps' \in [Names -> SUBSET Names],
           \A n \in Names \ services' : deps'[n] = {}
    PROVE  RegistryInv'
<1>1. stack = <<>> /\ stack' = <<>> /\ DOMAIN stack' = {}
  BY DEF RegistryInv, StackInv, Idle, Forget
<1>2. <<>> \in Seq(Names) /\ <<>> \in Seq(Frames) /\ DOMAIN <<>> = {}
  OBVIOUS
<1>3. visited' = {} /\ resolved' = <<>> /\ outcome' = "none" /\ Elements(resolved') = {}
  BY <1>2 DEF Forget, Elements
<1>4. TypeOK'
  BY <1>1, <1>2, <1>3 DEF TypeOK
<1>5. StackInv'
  BY <1>1, <1>3 DEF StackInv
<1>6. (\A S \in SUBSET visited : ~Circle(S))'
  BY <1>3 DEF Circle
<1>7. VisitedInv'
  BY <1>3, <1>6 DEF VisitedInv
<1>8. NeedsComeFirst' /\ OrderIsComplete' /\ RefusesExactlyCircles'
  BY <1>2, <1>3 DEF NeedsComeFirst, OrderIsComplete, RefusesExactlyCircles
<1>. QED
  BY <1>4, <1>5, <1>7, <1>8 DEF RegistryInv

LEMMA RegisterInv ==
    ASSUME RegistryInv, NEW n \in Names, NEW D \in SUBSET Names, Register(n, D)
    PROVE  RegistryInv'
<1>1. services' \subseteq Names /\ deps' \in [Names -> SUBSET Names]
  BY DEF Register, RegistryInv, TypeOK
<1>2. \A m \in Names \ services' : deps'[m] = {}
  BY DEF Register, RegistryInv, VisitedInv, TypeOK
<1>. QED
  BY <1>1, <1>2, ForgetInv DEF Register

LEMMA UnregisterInv ==
    ASSUME RegistryInv, NEW n \in Names, Unregister(n)
    PROVE  RegistryInv'
<1>1. services' \subseteq Names /\ deps' \in [Names -> SUBSET Names]
  BY DEF Unregister, RegistryInv, TypeOK
<1>2. \A m \in Names \ services' : deps'[m] = {}
  BY DEF Unregister, RegistryInv, VisitedInv, TypeOK
<1>. QED
  BY <1>1, <1>2, ForgetInv DEF Unregister

\* The search begins with the loop as its only frame.
LEMMA ResolveInv ==
    ASSUME RegistryInv, Resolve
    PROVE  RegistryInv'
<1>1. Frame(Root) \in Frames /\ Frame(Root).name = Root /\ Frame(Root).rest = services
  BY DEF Frame, Needs, Frames, RegistryInv, TypeOK
<1>2. /\ stack' \in Seq(Frames) /\ stack' # <<>>
      /\ Len(stack') = 1 /\ DOMAIN stack' = {1} /\ stack'[1] = Frame(Root)
  <2>. DEFINE f == Frame(Root)
  <2>1. f \in Frames
    BY <1>1
  <2>. HIDE DEF f
  <2>2. /\ <<f>> \in Seq(Frames) /\ <<f>> # <<>>
        /\ Len(<<f>>) = 1 /\ DOMAIN <<f>> = {1} /\ <<f>>[1] = f
    BY <2>1
  <2>. QED  BY <2>2 DEF Resolve, f
<1>3. <<>> \in Seq(Names) /\ DOMAIN <<>> = {}
  OBVIOUS
<1>4. /\ visited' = {} /\ resolved' = <<>> /\ outcome' = "resolving"
      /\ services' = services /\ deps' = deps /\ Elements(resolved') = {}
  BY <1>3 DEF Resolve, Elements
<1>5. TypeOK'
  BY <1>2, <1>3, <1>4 DEF RegistryInv, TypeOK
<1>6. StackInv'
  BY <1>1, <1>2, <1>4 DEF StackInv, Needs
<1>7. (\A S \in SUBSET visited : ~Circle(S))'
  BY <1>4 DEF Circle
<1>8. VisitedInv'
  BY <1>4, <1>7 DEF RegistryInv, VisitedInv
<1>9. NeedsComeFirst' /\ OrderIsComplete' /\ RefusesExactlyCircles'
  BY <1>3, <1>4 DEF NeedsComeFirst, OrderIsComplete, RefusesExactlyCircles
<1>. QED
  BY <1>5, <1>6, <1>8, <1>9 DEF RegistryInv

\* The frames under way.
LEMMA StackFacts ==
    ASSUME RegistryInv, outcome = "resolving"
    PROVE  /\ stack # <<>>
           /\ Len(stack) \in Nat /\ Len(stack) >= 1
           /\ DOMAIN stack = 1..Len(stack)
           /\ \A i \in 1..Len(stack) : stack[i] \in Frames
           /\ Top = stack[Len(stack)] /\ Top \in Frames
<1>1. stack # <<>> /\ stack \in Seq(Frames)
  BY DEF RegistryInv, TypeOK, StackInv
<1>. QED
  BY <1>1, PopFacts DEF Top

\* The search is given up for names of the path that form a circle: those
\* from d on, each of which has called the next one, up to the top that met d.
LEMMA RefuseInv ==
    ASSUME RegistryInv, NEW d \in Names, Refuse(d)
    PROVE  RegistryInv'
<1>1. outcome = "resolving" /\ d \in Top.rest /\ d \in Path
  BY DEF Refuse, Meets
<1>2. /\ Len(stack) \in Nat /\ Len(stack) >= 1 /\ DOMAIN stack = 1..Len(stack)
      /\ \A i \in 1..Len(stack) : stack[i] \in Frames
      /\ Top = stack[Len(stack)]
  BY <1>1, StackFacts
<1>3. PICK k \in 1..Len(stack) : stack[k].name = d
  BY <1>1, <1>2 DEF Path
<1>4. \A i \in k..Len(stack) : stack[i].name \in Names /\ stack[i].name # Root
  <2>1. k # 1
    BY <1>2, <1>3, RegistryAssumption DEF RegistryInv, StackInv
  <2>2. \A i \in 2..Len(stack) : stack[i].name # Root
    BY <1>2 DEF RegistryInv, StackInv
  <2>. QED
    BY <1>2, <2>1, <2>2 DEF Frames
<1>4a. \A i \in k..Len(stack) : i \in 1..Len(stack) /\ (i = Len(stack) \/ i < Len(stack))
  <2>. DEFINE m == Len(stack)
  <2>1. m \in Nat /\ k \in 1..m
    BY <1>2
  <2>. HIDE DEF m
  <2>2. \A i \in k..m : i \in 1..m /\ (i = m \/ i < m)
    BY <2>1
  <2>. QED  BY <2>2 DEF m
<1>. DEFINE S == {stack[i].name : i \in k..Len(stack)}
<1>5. S \in SUBSET Names /\ S # {} /\ d \in S
  BY <1>2, <1>3, <1>4
<1>6. ASSUME NEW n \in S PROVE deps[n] \intersect S # {}
  <2>1. PICK i \in k..Len(stack) : n = stack[i].name
    OBVIOUS
  <2>5. i \in 1..Len(stack) /\ (i = Len(stack) \/ i < Len(stack))
    BY <1>4a
  <2>2. Needs(n) = deps[n]
    BY <1>4, <2>1 DEF Needs
  <2>3. CASE i = Len(stack)
    <3>1. d \in Needs(n)
      BY <1>1, <1>2, <2>1, <2>3 DEF RegistryInv, StackInv
    <3>. QED  BY <1>5, <2>2, <3>1
  <2>4. CASE i < Len(stack)
    <3>1. stack[i + 1].name \in Needs(stack[i].name)
      BY <1>2, <2>4, <2>5 DEF RegistryInv, StackInv
    <3>2. i + 1 \in k..Len(stack)
      BY <1>2, <2>4
    <3>3. stack[i + 1].name \in S
      BY <3>2
    <3>. QED  BY <2>1, <2>2, <3>1, <3>3
  <2>. QED  BY <2>3, <2>4, <2>5
<1>7. Circle(S)
  BY <1>5, <1>6 DEF Circle
<1>8. Cyclic /\ UNCHANGED <<services, deps, visited, resolved>>
  BY <1>5, <1>7 DEF Cyclic, Refuse
<1>9. stack' = <<>> /\ DOMAIN stack' = {} /\ outcome' = "raised" /\ stack' \in Seq(Frames)
  BY DEF Refuse
<1>10. TypeOK' /\ StackInv'
  BY <1>8, <1>9 DEF RegistryInv, TypeOK, StackInv
<1>11. VisitedInv' /\ NeedsComeFirst' /\ OrderIsComplete' /\ RefusesExactlyCircles'
  BY <1>8, <1>9 DEF RegistryInv, VisitedInv, NeedsComeFirst, OrderIsComplete,
       RefusesExactlyCircles, Elements, Circle, Cyclic
<1>. QED
  BY <1>10, <1>11 DEF RegistryInv

\* The steps that only change the stack keep what is said of the result.
LEMMA SameResult ==
    ASSUME RegistryInv, UNCHANGED <<services, deps, visited, resolved, outcome>>
    PROVE  VisitedInv' /\ NeedsComeFirst' /\ OrderIsComplete' /\ RefusesExactlyCircles'
  BY DEF RegistryInv, VisitedInv, NeedsComeFirst, OrderIsComplete,
       RefusesExactlyCircles, Elements, Circle, Cyclic

LEMMA SkipInv ==
    ASSUME RegistryInv, NEW d \in Names, Skip(d)
    PROVE  RegistryInv'
<1>1. /\ outcome = "resolving" /\ stack # <<>> /\ d \in visited
      /\ stack' = Advanced(d)
      /\ UNCHANGED <<services, deps, visited, resolved, outcome>>
  BY DEF Skip, Meets, RegistryInv, StackInv
<1>2. TypeOK /\ StackInv
  BY DEF RegistryInv
<1>3. /\ Len(stack) \in Nat /\ Len(stack) >= 1 /\ DOMAIN stack = 1..Len(stack)
      /\ stack' \in Seq(Frames) /\ Len(stack') = Len(stack) /\ DOMAIN stack' = 1..Len(stack)
      /\ \A i \in 1..Len(stack) :
           /\ stack'[i].name = stack[i].name
           /\ stack'[i].rest \subseteq stack[i].rest
           /\ stack[i].rest \subseteq stack'[i].rest \union {d}
  BY <1>1, <1>2, AdvancedFacts
<1>4. TypeOK' /\ stack' # <<>>
  BY <1>1, <1>2, <1>3 DEF TypeOK
<1>5. \A n \in Names \union {Root} : Needs(n)' = Needs(n)
  BY <1>1 DEF Needs
<1>6. StackInv'
  <2>1. ASSUME NEW i \in 1..Len(stack)
        PROVE  /\ stack'[i].name = Root <=> i = 1
               /\ stack'[i].name \notin visited
               /\ stack'[i].rest \subseteq Needs(stack[i].name)
               /\ \A j \in 1..Len(stack) : stack'[i].name = stack'[j].name => i = j
               /\ i < Len(stack) => stack'[i + 1].name \in Needs(stack[i].name)
               /\ \A e \in Needs(stack[i].name) :
                    \/ e \in stack'[i].rest \union visited
                    \/ i < Len(stack) /\ stack'[i + 1].name = e
    BY <1>1, <1>2, <1>3 DEF StackInv
  <2>2. \A i \in 1..Len(stack) : Needs(stack[i].name)' = Needs(stack[i].name)
    BY <1>1, <1>3 DEF Needs
  <2>3. outcome' = "resolving" <=> stack' # <<>>
    BY <1>1, <1>4
  <2>. QED
    BY <1>1, <1>3, <2>1, <2>2, <2>3 DEF StackInv
<1>. QED
  BY <1>1, <1>4, <1>6, SameResult DEF RegistryInv

LEMMA DescendInv ==
    ASSUME RegistryInv, NEW d \in Names, Descend(d)
    PROVE  RegistryInv'
<1>. DEFINE n == Len(stack)
<1>1. /\ outcome = "resolving" /\ stack # <<>> /\ d \notin Path /\ d \notin visited
      /\ d \in stack[n].rest
      /\ stack' = Append(Advanced(d), Frame(d))
      /\ UNCHANGED <<services, deps, visited, resolved, outcome>>
  BY DEF Descend, Meets, RegistryInv, StackInv, Top
<1>2. TypeOK /\ StackInv
  BY DEF RegistryInv
<1>3. Frame(d) \in Frames /\ Frame(d).name = d /\ Frame(d).rest = deps[d] /\ d # Root
  BY <1>2, RegistryAssumption DEF Frame, Needs, Frames, TypeOK
<1>4. /\ n \in Nat /\ n >= 1 /\ DOMAIN stack = 1..n
      /\ Advanced(d) \in Seq(Frames) /\ Len(Advanced(d)) = n
      /\ \A i \in 1..n :
           /\ Advanced(d)[i].name = stack[i].name
           /\ Advanced(d)[i].rest \subseteq stack[i].rest
           /\ stack[i].rest \subseteq Advanced(d)[i].rest \union (IF i = n THEN {d} ELSE {})
  BY <1>1, <1>2, AdvancedFacts
<1>5. /\ stack' \in Seq(Frames) /\ Len(stack') = n + 1 /\ DOMAIN stack' = 1..(n + 1)
      /\ \A i \in 1..n : stack'[i] = Advanced(d)[i]
      /\ stack'[n + 1] = Frame(d)
  <2>. DEFINE a == Advanced(d)
             f == Frame(d)
  <2>1. a \in Seq(Frames) /\ f \in Frames /\ Len(a) = n /\ stack' = Append(a, f)
    BY <1>1, <1>3, <1>4
  <2>. HIDE DEF a, f
  <2>2. /\ Append(a, f) \in Seq(Frames) /\ Len(Append(a, f)) = Len(a) + 1
        /\ DOMAIN Append(a, f) = 1..(Len(a) + 1)
        /\ \A i \in 1..Len(a) : Append(a, f)[i] = a[i]
        /\ Append(a, f)[Len(a) + 1] = f
    BY <2>1, AppendFacts
  <2>3. /\ stack' \in Seq(Frames) /\ Len(stack') = n + 1 /\ DOMAIN stack' = 1..(n + 1)
        /\ \A i \in 1..n : stack'[i] = a[i]
        /\ stack'[n + 1] = f
    BY <2>1, <2>2
  <2>. QED  BY <2>3 DEF a, f
<1>6. TypeOK' /\ stack' # <<>>
  <2>1. stack' # <<>>
    <3>. HIDE DEF n
    <3>1. Len(stack') >= 1 /\ Len(<<>>) = 0
      BY <1>4, <1>5, EmptySeq
    <3>. QED  BY <3>1
  <2>. QED  BY <1>1, <1>2, <1>5, <2>1 DEF TypeOK
<1>7. \A i \in 1..n : stack[i].name # d
  BY <1>1, <1>4 DEF Path
<1>. HIDE DEF n
<1>8. ASSUME NEW i \in 1..n
      PROVE  /\ stack'[i].name = stack[i].name
             /\ Needs(stack[i].name)' = Needs(stack[i].name)
             /\ stack'[i].name = Root <=> i = 1
             /\ stack'[i].name \notin visited
             /\ stack'[i].rest \subseteq Needs(stack[i].name)
             /\ \A j \in 1..(n + 1) : stack'[i].name = stack'[j].name => i = j
             /\ stack'[i + 1].name \in Needs(stack[i].name)
             /\ \A e \in Needs(stack[i].name) :
                  \/ e \in stack'[i].rest \union visited
                  \/ stack'[i + 1].name = e
  <2>1. stack'[i].name = stack[i].name /\ Needs(stack[i].name)' = Needs(stack[i].name)
    BY <1>1, <1>4, <1>5 DEF Needs
  <2>2. /\ stack[i].name = Root <=> i = 1
        /\ stack[i].name \notin visited
        /\ stack[i].rest \subseteq Needs(stack[i].name)
        /\ \A j \in 1..n : stack[i].name = stack[j].name => i = j
        /\ i < n => stack[i + 1].name \in Needs(stack[i].name)
        /\ \A e \in Needs(stack[i].name) :
             \/ e \in stack[i].rest \union visited
             \/ i < n /\ stack[i + 1].name = e
    BY <1>2, <1>4 DEF StackInv, n
  <2>3. stack'[i].rest \subseteq Needs(stack[i].name)
    BY <1>4, <1>5, <2>2
  <2>4. \A j \in 1..(n + 1) : stack'[i].name = stack'[j].name => i = j
    BY <1>3, <1>4, <1>5, <1>7, <2>1, <2>2
  <2>5. CASE i < n
    <3>1. stack'[i + 1].name = stack[i + 1].name /\ stack[i].rest \subseteq stack'[i].rest
      BY <1>4, <1>5, <2>5
    <3>. QED  BY <2>1, <2>2, <2>3, <2>4, <2>5, <3>1
  <2>6. CASE i = n
    <3>1. stack'[i + 1].name = d /\ stack[i].rest \subseteq stack'[i].rest \union {d}
      BY <1>3, <1>4, <1>5, <2>6
    <3>2. d \in Needs(stack[i].name)
      BY <1>1, <2>2, <2>6 DEF n
    <3>. QED  BY <2>1, <2>2, <2>3, <2>4, <2>6, <3>1, <3>2
  <2>. QED  BY <1>4, <2>5, <2>6
<1>9. /\ stack'[n + 1].name = d /\ d # Root /\ d \notin visited /\ n + 1 # 1
      /\ Needs(d)' = deps[d] /\ stack'[n + 1].rest = deps[d]
      /\ \A j \in 1..(n + 1) : stack'[j].name = d => n + 1 = j
  BY <1>1, <1>3, <1>4, <1>5, <1>7 DEF Needs
<1>10. StackInv'
  <2>1. outcome' = "resolving" <=> stack' # <<>>
    BY <1>1, <1>6
  <2>2. ASSUME NEW i \in 1..(n + 1)
        PROVE  /\ stack'[i].name = Root <=> i = 1
               /\ stack'[i].name \notin visited'
               /\ stack'[i].rest \subseteq Needs(stack[i].name)'
               /\ \A j \in 1..(n + 1) : stack'[i].name = stack'[j].name => i = j
               /\ i < n + 1 => stack'[i + 1].name \in Needs(stack[i].name)'
               /\ \A e \in Needs(stack[i].name)' :
                    \/ e \in stack'[i].rest \union visited'
                    \/ i < n + 1 /\ stack'[i + 1].name = e
    <3>1. CASE i \in 1..n
      <4>1. i < n + 1 /\ visited' = visited
        BY <1>1, <1>4, <3>1
      <4>. QED  BY <1>8, <3>1, <4>1
    <3>2. CASE i = n + 1
      <4>1. Needs(stack[i].name)' = deps[d]
        BY <1>1, <1>9, <3>2 DEF Needs
      <4>2. ~(i < n + 1) /\ visited' = visited
        BY <1>1, <1>4, <3>2
      <4>. QED  BY <1>9, <3>2, <4>1, <4>2
    <3>. QED  BY <1>4, <3>1, <3>2
  <2>. QED
    BY <1>5, <2>1, <2>2 DEF StackInv
<1>. QED
  BY <1>1, <1>6, <1>10, SameResult DEF RegistryInv

\* visit() of the top comes to its end.
LEMMA LeaveInv ==
    ASSUME RegistryInv, Leave
    PROVE  RegistryInv'
<1>. DEFINE n == Len(stack)
            x == stack[Len(stack)].name
<1>1. /\ outcome = "resolving" /\ stack # <<>> /\ n > 1 /\ Top.rest = {}
      /\ visited' = visited \union {x} /\ resolved' = Append(resolved, x)
      /\ stack' = SubSeq(stack, 1, Len(stack) - 1)
      /\ UNCHANGED <<services, deps, outcome>>
  BY DEF Leave, AllMet, Placed, Top, RegistryInv, StackInv
<1>2. TypeOK /\ StackInv /\ VisitedInv /\ NeedsComeFirst /\ OrderIsComplete
  BY DEF RegistryInv
<1>3. stack \in Seq(Frames)
  BY <1>2 DEF TypeOK
<1>4. /\ n \in Nat /\ n > 1 /\ DOMAIN stack = 1..n
      /\ \A i \in 1..n : stack[i] \in Frames
      /\ stack' \in Seq(Frames) /\ Len(stack') = n - 1 /\ DOMAIN stack' = 1..(n - 1)
      /\ \A i \in 1..(n - 1) : stack'[i] = stack[i]
  BY <1>1, <1>3, PopFacts
<1>5. /\ x # Root /\ x \in Names /\ x \notin visited
      /\ deps[x] \subseteq visited
  <2>1. n \in DOMAIN stack /\ n # 1 /\ stack[n] \in Frames /\ ~(n < Len(stack))
    BY <1>4
  <2>2. x # Root /\ x \notin visited
    BY <1>2, <2>1 DEF StackInv
  <2>3. x \in Names /\ Needs(x) = deps[x]
    BY <2>1, <2>2 DEF Frames, Needs
  <2>4. \A e \in Needs(x) : e \in stack[n].rest \union visited
    BY <1>2, <2>1 DEF StackInv
  <2>. QED  BY <1>1, <2>2, <2>3, <2>4 DEF Top
<1>6. x \in services \/ \E m \in services : x \in deps[m]
  <2>1. /\ n - 1 \in DOMAIN stack /\ n - 1 < Len(stack) /\ stack[n - 1] \in Frames
        /\ (n - 1) + 1 = n
    BY <1>4
  <2>2. x \in Needs(stack[n - 1].name)
    BY <1>2, <2>1 DEF StackInv
  <2>3. stack[n - 1].name \in Names \union {Root}
    BY <2>1 DEF Frames
  <2>. QED  BY <1>2, <2>2, <2>3 DEF Needs, VisitedInv
<1>7. \A i \in 1..(n - 1) : stack'[i].name # x
  BY <1>2, <1>4 DEF StackInv
<1>. HIDE DEF n, x
<1>8. /\ resolved \in Seq(Names) /\ resolved' \in Seq(Names)
      /\ Len(resolved) \in Nat /\ DOMAIN resolved = 1..Len(resolved)
      /\ DOMAIN resolved' = 1..(Len(resolved) + 1)
      /\ \A i \in 1..Len(resolved) : resolved'[i] = resolved[i]
      /\ resolved'[Len(resolved) + 1] = x
  BY <1>1, <1>2, <1>5, AppendFacts DEF TypeOK
<1>9. TypeOK'
  BY <1>1, <1>2, <1>4, <1>5, <1>8 DEF TypeOK
<1>10. StackInv'
  <2>1. outcome' = "resolving" /\ stack' # <<>>
    <3>1. Len(stack') >= 1 /\ Len(<<>>) = 0
      BY <1>4, EmptySeq
    <3>. QED  BY <1>1, <3>1
  <2>2. ASSUME NEW i \in 1..(n - 1)
        PROVE  /\ stack'[i].name = Root <=> i = 1
               /\ stack'[i].name \notin visited'
               /\ stack'[i].rest \subseteq Needs(stack[i].name)'
               /\ \A j \in 1..(n - 1) : stack'[i].name = stack'[j].name => i = j
               /\ i < n - 1 => stack'[i + 1].name \in Needs(stack[i].name)'
               /\ \A e \in Needs(stack[i].name)' :
                    \/ e \in stack'[i].rest \union visited'
                    \/ i < n - 1 /\ stack'[i + 1].name = e
    <3>1. Needs(stack[i].name)' = Needs(stack[i].name)
      BY <1>1, <1>4 DEF Needs
    <3>2. i \in 1..n /\ i < n
      BY <1>4
    <3>3. /\ stack[i].name = Root <=> i = 1
          /\ stack[i].name \notin visited
          /\ stack[i].rest \subseteq Needs(stack[i].name)
          /\ \A j \in 1..n : stack[i].name = stack[j].name => i = j
          /\ stack[i + 1].name \in Needs(stack[i].name)
          /\ \A e \in Needs(stack[i].name) :
               e \in stack[i].rest \union visited \/ stack[i + 1].name = e
      BY <1>2, <1>4, <3>2 DEF StackInv, n
    <3>4. stack'[i].name \notin visited'
      BY <1>1, <1>4, <1>7, <3>3
    <3>5. CASE i < n - 1
      <4>1. stack'[i + 1] = stack[i + 1]
        BY <1>4, <3>5
      <4>. QED  BY <1>1, <1>4, <3>1, <3>3, <3>4, <3>5, <4>1
    <3>6. CASE i = n - 1
      <4>1. stack[i + 1].name = x /\ ~(i < n - 1)
        BY <1>4, <3>6 DEF n, x
      <4>. QED  BY <1>1, <1>4, <3>1, <3>3, <3>4, <4>1
    <3>. QED  BY <1>4, <3>2, <3>5, <3>6
  <2>. QED
    BY <1>4, <2>1, <2>2 DEF StackInv
<1>11. Elements(resolved') = Elements(resolved) \union {x}
  BY <1>8 DEF Elements
<1>12. NeedsComeFirst'
  <2>1. \A y \in visited : \E j \in 1..Len(resolved) : resolved[j] = y
    BY <1>2, <1>8 DEF VisitedInv, Elements
  <2>2. ASSUME NEW i \in 1..(Len(resolved) + 1)
        PROVE  /\ \A j \in 1..(Len(resolved) + 1) : resolved'[i] = resolved'[j] => i = j
               /\ \A e \in deps[resolved'[i]] : \E j \in 1..(i - 1) : resolved'[j] = e
    <3>1. \A j \in 1..Len(resolved) : resolved[j] # x
      BY <1>2, <1>5, <1>8 DEF VisitedInv, Elements
    <3>2. CASE i \in 1..Len(resolved)
      <4>1. /\ \A j \in 1..Len(resolved) : resolved[i] = resolved[j] => i = j
            /\ \A e \in deps[resolved[i]] : \E j \in 1..(i - 1) : resolved[j] = e
        BY <1>2, <1>8, <3>2 DEF NeedsComeFirst
      <4>2. \A j \in 1..(i - 1) : resolved'[j] = resolved[j]
        BY <1>8, <3>2
      <4>. QED  BY <1>8, <3>1, <3>2, <4>1, <4>2
    <3>3. CASE i = Len(resolved) + 1
      <4>1. \A e \in deps[x] : \E j \in 1..(i - 1) : resolved'[j] = e
        BY <1>5, <1>8, <2>1, <3>3
      <4>. QED  BY <1>8, <3>1, <3>3, <4>1
    <3>. QED  BY <1>8, <3>2, <3>3
  <2>. QED
    BY <1>1, <1>8, <2>2 DEF NeedsComeFirst
<1>13. ASSUME NEW S \in SUBSET (visited \union {x})
       PROVE  ~Circle(S)
  <2>. SUFFICES ASSUME Circle(S) PROVE FALSE
    OBVIOUS
  <2>1. \A y \in visited : deps[y] \subseteq visited
    BY <1>2 DEF VisitedInv
  <2>2. PICK y \in S : y # x
    <3>1. CASE x \in S
      <4>1. deps[x] \intersect S # {} /\ x \notin deps[x]
        BY <1>5, <3>1 DEF Circle
      <4>. QED  BY <4>1
    <3>2. CASE x \notin S
      BY <3>2 DEF Circle
    <3>. QED  BY <3>1, <3>2
  <2>3. S \ {x} \in SUBSET visited /\ S \ {x} # {}
    BY <2>2
  <2>4. \A z \in S \ {x} : deps[z] \intersect (S \ {x}) # {}
    BY <1>5, <2>1, <2>3 DEF Circle
  <2>5. Circle(S \ {x})
    BY <2>3, <2>4 DEF Circle
  <2>. QED  BY <1>2, <2>3, <2>5 DEF VisitedInv
<1>14. VisitedInv'
  <2>1. visited' = Elements(resolved')
    BY <1>1, <1>2, <1>11 DEF VisitedInv
  <2>2. \A y \in visited' : deps'[y] \subseteq visited'
    BY <1>1, <1>2, <1>5 DEF VisitedInv
  <2>3. \A y \in Names \ services' : deps'[y] = {}
    BY <1>1, <1>2 DEF VisitedInv
  <2>4. (\A S \in SUBSET visited : ~Circle(S))'
    BY <1>1, <1>13 DEF Circle
  <2>. QED
    BY <2>1, <2>2, <2>3, <2>4 DEF VisitedInv, Elements
<1>15. OrderIsComplete'
  BY <1>1, <1>2, <1>6, <1>11 DEF OrderIsComplete
<1>16. RefusesExactlyCircles'
  BY <1>1 DEF RefusesExactlyCircles
<1>. QED
  BY <1>9, <1>10, <1>12, <1>14, <1>15, <1>16 DEF RegistryInv

\* The loop comes to its end: the result holds all it has met, and no circle
\* is among the services, as each one of a circle is registered.
LEMMA ReturnInv ==
    ASSUME RegistryInv, Return
    PROVE  RegistryInv'
<1>1. /\ outcome = "resolving" /\ Len(stack) = 1 /\ Top.rest = {}
      /\ stack' = <<>> /\ outcome' = "returned"
      /\ UNCHANGED <<services, deps, visited, resolved>>
  BY DEF Return, AllMet
<1>2. TypeOK /\ StackInv /\ VisitedInv /\ NeedsComeFirst /\ OrderIsComplete
  BY DEF RegistryInv
<1>3. services \subseteq visited
  <2>1. 1 \in DOMAIN stack /\ Top = stack[1] /\ ~(1 < Len(stack))
    BY <1>1, StackFacts
  <2>2. stack[1].name = Root
    BY <1>2, <2>1 DEF StackInv
  <2>3. \A e \in Needs(Root) : e \in stack[1].rest \union visited
    BY <1>2, <2>1, <2>2 DEF StackInv
  <2>. QED  BY <1>1, <2>1, <2>3 DEF Needs
<1>4. ~Cyclic
  <2>. SUFFICES ASSUME NEW S \in SUBSET Names, Circle(S) PROVE FALSE
    BY DEF Cyclic
  <2>1. S \subseteq services
    BY <1>2 DEF Circle, VisitedInv
  <2>. QED  BY <1>2, <1>3, <2>1 DEF VisitedInv
<1>5. stack' \in Seq(Frames) /\ DOMAIN stack' = {}
  BY <1>1
<1>6. TypeOK' /\ StackInv'
  BY <1>1, <1>2, <1>5 DEF TypeOK, StackInv
<1>7. VisitedInv' /\ NeedsComeFirst' /\ OrderIsComplete' /\ RefusesExactlyCircles'
  BY <1>1, <1>2, <1>3, <1>4 DEF VisitedInv, NeedsComeFirst, OrderIsComplete,
       RefusesExactlyCircles, Elements, Circle, Cyclic
<1>. QED
  BY <1>6, <1>7 DEF RegistryInv

LEMMA NextRegistryInv == RegistryInv /\ [Next]_vars => RegistryInv'
<1>. SUFFICES ASSUME RegistryInv, [Next]_vars PROVE RegistryInv'
  OBVIOUS
<1>1. ASSUME NEW n \in Names, Unregister(n) PROVE RegistryInv'
  BY <1>1, UnregisterInv
<1>2. ASSUME NEW n \in Names, NEW D \in SUBSET Names, Register(n, D) PROVE RegistryInv'
  BY <1>2, RegisterInv
<1>3. CASE Resolve
  BY <1>3, ResolveInv
<1>4. ASSUME NEW d \in Names, Refuse(d) \/ Skip(d) \/ Descend(d) PROVE RegistryInv'
  BY <1>4, RefuseInv, SkipInv, DescendInv
<1>5. CASE Leave
  BY <1>5, LeaveInv
<1>6. CASE Return
  BY <1>6, ReturnInv
<1>7. CASE UNCHANGED vars
  <2>1. UNCHANGED <<services, deps, visited, resolved, outcome>> /\ stack' = stack
    BY <1>7 DEF vars
  <2>2. TypeOK' /\ StackInv'
    BY <2>1 DEF RegistryInv, TypeOK, StackInv, Needs
  <2>. QED  BY <2>1, <2>2, SameResult DEF RegistryInv
<1>. QED
  BY <1>1, <1>2, <1>3, <1>4, <1>5, <1>6, <1>7 DEF Next, SearchStep

-----------------------------------------------------------------------------
\* The inductive invariant holds, for any registrations and searches.
THEOREM RegistryInvariance == Spec => []RegistryInv
<1>. QED  BY InitRegistryInv, NextRegistryInv, PTL DEF Spec

\* resolve_dependency_order lists a name once, after all it depends on.
THEOREM OrderIsTopological == Spec => []NeedsComeFirst
<1>1. RegistryInv => NeedsComeFirst
  BY DEF RegistryInv
<1>. QED  BY <1>1, RegistryInvariance, PTL

\* What it returns holds every service, and nothing but them and their needs.
THEOREM OrderIsWhole == Spec => []OrderIsComplete
<1>1. RegistryInv => OrderIsComplete
  BY DEF RegistryInv
<1>. QED  BY <1>1, RegistryInvariance, PTL

\* It raises only if there is a circle, and returns only if there is none.
THEOREM RefusalIsExact == Spec => []RefusesExactlyCircles
<1>1. RegistryInv => RefusesExactlyCircles
  BY DEF RegistryInv
<1>. QED  BY <1>1, RegistryInvariance, PTL

-----------------------------------------------------------------------------
(* Container.  The inductive invariant: what is being made is not there    *)
(* yet, and stays so until its factory returns, since the factories called *)
(* meanwhile are those of other names, lower in the order of the needs.    *)

\* A measure of the names, which falls along their needs.
KeyRank == CHOOSE rank \in [Keys -> 0..Cardinality(Keys)] :
             \A k \in Keys : \A n \in NeedsOf[k] : n \in Keys /\ rank[n] < rank[k]

Calls == [gen : Nat, key : Keys, from : Containers, todo : SUBSET Keys]

NumbersInv ==
    /\ life \in Seq(Lifetimes)
    /\ births \in Seq(Nat) /\ Len(births) = Len(life)
    /\ made \subseteq 1..Len(life)

StoresInv ==
    /\ DOMAIN store = Containers
    /\ \A c \in Containers : DOMAIN store[c] \subseteq Keys
    /\ filled \in [Containers -> [Keys -> Nat]]

\* A number is that of one name only, though several containers may have it.
RegsInv ==
    /\ DOMAIN regs = Containers
    /\ \A c \in Containers :
          /\ DOMAIN regs[c] \subseteq Keys
          /\ \A k \in DOMAIN regs[c] : regs[c][k] \in 1..Len(life)
    /\ \A b, c \in Containers : \A k \in DOMAIN regs[b], l \in DOMAIN regs[c] :
          regs[b][k] = regs[c][l] => k = l

\* A call is of a registration that was found, and makes what is not there.
CallIsNew(f) ==
    /\ \E c \in Containers : f.key \in DOMAIN regs[c] /\ regs[c][f.key] = f.gen
    /\ f.todo \subseteq NeedsOf[f.key]
    /\ life[f.gen] = "singleton" => f.gen \notin made
    /\ life[f.gen] = "scoped" => f.key \notin DOMAIN store[f.from]

CallsInv ==
    /\ calls \in Seq(Calls)
    /\ \A i \in 1..Len(calls) :
          /\ CallIsNew(calls[i])
          /\ \A j \in 1..Len(calls) :
                i < j => KeyRank[calls[j].key] < KeyRank[calls[i].key]

ContainerInv ==
    /\ NumbersInv /\ StoresInv /\ RegsInv /\ CallsInv
    /\ SingletonOnce /\ ScopedOnce

LEMMA KeyRankFalls ==
    \A k \in Keys : KeyRank[k] \in Int /\ \A n \in NeedsOf[k] : n \in Keys /\ KeyRank[n] < KeyRank[k]
<1>1. \E rank \in [Keys -> 0..Cardinality(Keys)] :
        \A k \in Keys : \A n \in NeedsOf[k] : n \in Keys /\ rank[n] < rank[k]
  BY ContainerAssumption DEF ContainerAssumption
<1>2. /\ KeyRank \in [Keys -> 0..Cardinality(Keys)]
      /\ \A k \in Keys : \A n \in NeedsOf[k] : n \in Keys /\ KeyRank[n] < KeyRank[k]
  BY <1>1 DEF KeyRank
<1>3. \A k \in Keys : KeyRank[k] \in 0..Cardinality(Keys)
  BY <1>2
<1>4. Cardinality(Keys) \in Nat
  BY FS_CardinalityType, ContainerAssumption DEF ContainerAssumption
<1>. QED
  BY <1>2, <1>3, <1>4

\* A set of numbers that is not empty has a least one.
LEMMA LeastNumber ==
    ASSUME NEW S, S \subseteq Nat, S # {}
    PROVE  \E i \in S : \A j \in S : i <= j
<1>1. \E x \in S : \A y \in S : ~(<<y, x>> \in OpToRel(<, Nat))
  BY WFMin, NatLessThanWellFounded
<1>2. PICK x \in S : \A y \in S : ~(<<y, x>> \in OpToRel(<, Nat))
  BY <1>1
<1>3. ASSUME NEW y \in S
      PROVE  x <= y
  <2>1. ~(y < x)
    BY <1>2 DEF OpToRel
  <2>. QED
    BY <2>1
<1>. QED
  BY <1>3

\* The search along the chain ends at a registration of the name.
LEMMA FoundFacts ==
    ASSUME NEW c \in Containers, NEW k \in Keys, Having(c, k) # {}
    PROVE  \E b \in Containers : k \in DOMAIN regs[b] /\ regs[b][k] = Found(c, k)
<1>1. Chain[c] \in Seq(Containers)
  BY ContainerAssumption DEF ContainerAssumption
<1>2. Having(c, k) \subseteq Nat
  BY <1>1, LenProperties DEF Having
<1>. DEFINE i == CHOOSE i \in Having(c, k) : \A j \in Having(c, k) : i <= j
<1>3. i \in Having(c, k)
  BY <1>2, LeastNumber
<1>4. /\ Chain[c][i] \in Containers /\ k \in DOMAIN regs[Chain[c][i]]
  BY <1>1, <1>3, LenProperties, ElementOfSeq DEF Having
<1>5. Found(c, k) = regs[Chain[c][i]][k]
  BY DEF Found
<1>. QED
  BY <1>4, <1>5

\* A new call is of a registration whose object is not there.
LEMMA CallOfFacts ==
    ASSUME ContainerInv, NEW c \in Containers, NEW k \in Keys, CallsFactory(c, k)
    PROVE  CallOf(c, k) \in Calls /\ CallOf(c, k).key = k /\ CallIsNew(CallOf(c, k))
<1>1. PICK b \in Containers : k \in DOMAIN regs[b] /\ regs[b][k] = Found(c, k)
  BY FoundFacts DEF CallsFactory
<1>2. Found(c, k) \in 1..Len(life) /\ Len(life) \in Nat
  BY <1>1, LenProperties DEF ContainerInv, RegsInv, NumbersInv
<1>3. /\ CallOf(c, k).gen = Found(c, k) /\ CallOf(c, k).key = k
      /\ CallOf(c, k).from = c /\ CallOf(c, k).todo = NeedsOf[k]
  BY DEF CallOf
<1>4. NeedsOf[k] \subseteq Keys
  BY KeyRankFalls
<1>5. CallOf(c, k) \in Calls
  BY <1>2, <1>4 DEF CallOf, Calls
<1>6. CallIsNew(CallOf(c, k))
  BY <1>1, <1>3 DEF CallIsNew, CallsFactory, AtHand
<1>. QED
  BY <1>3, <1>5, <1>6

\* The calls that are left when some of them end.
LEMMA PrefixFacts ==
    ASSUME NEW S, NEW q \in Seq(S), NEW n \in Nat, n <= Len(q)
    PROVE  /\ SubSeq(q, 1, n) \in Seq(S)
           /\ Len(SubSeq(q, 1, n)) = n
           /\ \A i \in 1..n : SubSeq(q, 1, n)[i] = q[i]
<1>1. Len(q) \in Nat /\ \A i \in 1..Len(q) : q[i] \in S
  BY LenProperties
<1>2. \A i \in 1..n : q[i] \in S
  BY <1>1
<1>3. /\ SubSeq(q, 1, n) \in Seq(S)
      /\ Len(SubSeq(q, 1, n)) = IF 1 <= n THEN n - 1 + 1 ELSE 0
      /\ \A i \in 1..(n - 1 + 1) : SubSeq(q, 1, n)[i] = q[1 + i - 1]
  BY <1>2, SubSeqProperties
<1>4. n - 1 + 1 = n /\ \A i \in 1..n : 1 + i - 1 = i
  OBVIOUS
<1>5. Len(SubSeq(q, 1, n)) = n
  BY <1>3, <1>4
<1>6. \A i \in 1..n : SubSeq(q, 1, n)[i] = q[i]
  BY <1>3, <1>4
<1>. QED
  BY <1>3, <1>5, <1>6

-----------------------------------------------------------------------------
(* The steps of resolve().                                                 *)

\* While factories run, nothing is registered.
LEMMA QuietFacts ==
    ASSUME ContainerInv, UNCHANGED <<regs, life, made, births, store, filled>>
    PROVE  /\ NumbersInv' /\ StoresInv' /\ RegsInv' /\ SingletonOnce' /\ ScopedOnce'
           /\ \A f : CallIsNew(f) =>
                /\ \E c \in Containers : f.key \in DOMAIN regs'[c] /\ regs'[c][f.key] = f.gen
                /\ f.todo \subseteq NeedsOf[f.key]
                /\ life'[f.gen] = "singleton" => f.gen \notin made'
                /\ life'[f.gen] = "scoped" => f.key \notin DOMAIN store'[f.from]
<1>1. NumbersInv' /\ StoresInv' /\ RegsInv'
  BY DEF ContainerInv, NumbersInv, StoresInv, RegsInv
<1>2. SingletonOnce' /\ ScopedOnce'
  BY DEF ContainerInv, SingletonOnce, ScopedOnce, Gens
<1>. QED
  BY <1>1, <1>2 DEF CallIsNew

LEMMA ResolveKeyStep ==
    ASSUME ContainerInv, NEW c \in Containers, NEW k \in Keys, ResolveKey(c, k)
    PROVE  ContainerInv'
<1>1. CallOf(c, k) \in Calls /\ CallIsNew(CallOf(c, k))
  BY CallOfFacts DEF ResolveKey
<1>2. UNCHANGED <<regs, life, made, births, store, filled>>
  BY DEF ResolveKey
<1>. DEFINE f == CallOf(c, k)
<1>3. calls' = <<f>>
  BY DEF ResolveKey
<1>4. f \in Calls /\ CallIsNew(f)
  BY <1>1
<1>. HIDE DEF f
<1>5. calls' \in Seq(Calls) /\ Len(calls') = 1 /\ calls'[1] = f
  BY <1>3, <1>4
<1>6. CallsInv'
  BY <1>2, <1>4, <1>5, QuietFacts DEF CallsInv, CallIsNew
<1>. QED
  BY <1>2, <1>6, QuietFacts DEF ContainerInv

LEMMA FactoryRaisesStep ==
    ASSUME ContainerInv, FactoryRaises
    PROVE  ContainerInv'
<1>1. UNCHANGED <<regs, life, made, births, store, filled>>
  BY DEF FactoryRaises
<1>2. PICK n \in 0..(Len(calls) - 1) : calls' = SubSeq(calls, 1, n)
  BY DEF FactoryRaises
<1>3. calls \in Seq(Calls) /\ Len(calls) \in Nat
  BY LenProperties DEF ContainerInv, CallsInv
<1>4. n \in Nat /\ n <= Len(calls)
  BY <1>3
<1>5. /\ calls' \in Seq(Calls) /\ Len(calls') = n
      /\ \A i \in 1..n : calls'[i] = calls[i] /\ i \in 1..Len(calls)
  BY <1>2, <1>3, <1>4, PrefixFacts
<1>6. \A i \in 1..n : /\ CallIsNew(calls'[i])
                      /\ \A j \in 1..n : i < j => KeyRank[calls'[j].key] < KeyRank[calls'[i].key]
  BY <1>5 DEF CallsInv, ContainerInv
<1>7. CallsInv'
  BY <1>1, <1>5, <1>6, QuietFacts DEF CallsInv, CallIsNew
<1>. QED
  BY <1>1, <1>7, QuietFacts DEF ContainerInv

\* The innermost call goes on with one name less to resolve.
LEMMA MetFacts ==
    ASSUME ContainerInv, calls # << >>, NEW k,
           NEW s, s = Append(Front(calls), [Last(calls) EXCEPT !.todo = @ \ {k}])
    PROVE  /\ s \in Seq(Calls) /\ Len(s) = Len(calls)
           /\ \A i \in 1..Len(calls) :
                s[i].key = calls[i].key /\ (CallIsNew(calls[i]) => CallIsNew(s[i]))
<1>1. /\ calls \in Seq(Calls) /\ Len(calls) \in Nat /\ Len(calls) >= 1
      /\ \A i \in 1..Len(calls) : calls[i] \in Calls
  BY PopFacts DEF ContainerInv, CallsInv
<1>2. /\ Front(calls) \in Seq(Calls) /\ Len(Front(calls)) = Len(calls) - 1
      /\ \A i \in 1..(Len(calls) - 1) : Front(calls)[i] = calls[i]
  BY <1>1, PopFacts DEF Front
<1>. DEFINE f == [Last(calls) EXCEPT !.todo = @ \ {k}]
<1>3. Last(calls) \in Calls /\ Last(calls) = calls[Len(calls)]
  BY <1>1 DEF Last
<1>4. /\ f \in Calls /\ f.gen = Last(calls).gen /\ f.key = Last(calls).key
      /\ f.from = Last(calls).from /\ f.todo \subseteq Last(calls).todo
  BY <1>3 DEF Calls
<1>5. s = Append(Front(calls), f)
  OBVIOUS
<1>. HIDE DEF f
<1>6. /\ s \in Seq(Calls) /\ Len(s) = Len(calls) /\ s[Len(calls)] = f
      /\ \A i \in 1..(Len(calls) - 1) : s[i] = calls[i]
  BY <1>1, <1>2, <1>4, <1>5, AppendFacts
<1>7. CallIsNew(Last(calls)) => CallIsNew(f)
  BY <1>4 DEF CallIsNew
<1>8. ASSUME NEW i \in 1..Len(calls)
      PROVE  s[i].key = calls[i].key /\ (CallIsNew(calls[i]) => CallIsNew(s[i]))
  <2>1. CASE i = Len(calls)
    BY <1>3, <1>4, <1>6, <1>7, <2>1
  <2>2. CASE i # Len(calls)
    <3>1. i \in 1..(Len(calls) - 1)
      BY <1>1, <2>2
    <3>. QED
      BY <1>6, <3>1
  <2>. QED  BY <2>1, <2>2
<1>. QED
  BY <1>6, <1>8

\* A factory calls another one: that is of a name lower in the order.
LEMMA NeedNextStep ==
    ASSUME ContainerInv, NEW c \in Containers, NEW k \in Keys, NeedNext(c, k)
    PROVE  ContainerInv'
<1>1. /\ UNCHANGED <<regs, life, made, births, store, filled>>
      /\ calls # << >> /\ k \in Last(calls).todo
  BY DEF NeedNext, AtRest
<1>. DEFINE s == Append(Front(calls), [Last(calls) EXCEPT !.todo = @ \ {k}])
<1>2. calls' = s \o IF CallsFactory(c, k) THEN <<CallOf(c, k)>> ELSE << >>
  BY DEF NeedNext
<1>3. /\ s \in Seq(Calls) /\ Len(s) = Len(calls)
      /\ \A i \in 1..Len(calls) :
           s[i].key = calls[i].key /\ (CallIsNew(calls[i]) => CallIsNew(s[i]))
  BY <1>1, MetFacts
<1>. HIDE DEF s
<1>4. /\ calls \in Seq(Calls) /\ Len(calls) \in Nat /\ Len(calls) >= 1
      /\ \A i \in 1..Len(calls) : calls[i] \in Calls
  BY <1>1, PopFacts DEF ContainerInv, CallsInv
<1>5. /\ \A i \in 1..Len(calls) : CallIsNew(s[i])
      /\ \A i, j \in 1..Len(calls) : i < j => KeyRank[s[j].key] < KeyRank[s[i].key]
  BY <1>3 DEF ContainerInv, CallsInv
<1>6. CASE ~CallsFactory(c, k)
  <2>1. calls' = s
    BY <1>2, <1>3, <1>6, ConcatEmptySeq
  <2>2. CallsInv'
    BY <1>1, <1>3, <1>5, <2>1, QuietFacts DEF CallsInv, CallIsNew
  <2>. QED
    BY <1>1, <2>2, QuietFacts DEF ContainerInv
<1>7. CASE CallsFactory(c, k)
  <2>. DEFINE f == CallOf(c, k)
  <2>1. f \in Calls /\ f.key = k /\ CallIsNew(f)
    BY <1>7, CallOfFacts
  <2>2. calls' = s \o <<f>>
    BY <1>2, <1>7
  <2>. HIDE DEF f
  <2>3. calls' \in Seq(Calls) /\ Len(calls') = Len(calls) + 1
    BY <1>3, <1>4, <2>1, <2>2
  <2>4. calls'[Len(calls) + 1] = f /\ \A i \in 1..Len(calls) : calls'[i] = s[i]
    BY <1>3, <1>4, <2>1, <2>2
  <2>5. \A i \in 1..Len(calls) : KeyRank[k] < KeyRank[s[i].key]
    <3>1. k \in NeedsOf[Last(calls).key] /\ Last(calls) = calls[Len(calls)]
      BY <1>1, <1>4 DEF Last, ContainerInv, CallsInv, CallIsNew
    <3>2. Last(calls).key \in Keys
      BY <1>4, <3>1 DEF Calls
    <3>3. KeyRank[k] < KeyRank[Last(calls).key]
      BY <3>1, <3>2, KeyRankFalls
    <3>4. ASSUME NEW i \in 1..Len(calls)
          PROVE  KeyRank[k] < KeyRank[s[i].key]
      <4>1. CASE i = Len(calls)
        BY <1>3, <3>1, <3>3, <4>1
      <4>2. CASE i # Len(calls)
        <5>1. i < Len(calls) /\ Len(calls) \in 1..Len(calls)
          BY <1>4, <4>2
        <5>2. KeyRank[s[Len(calls)].key] < KeyRank[s[i].key]
          BY <1>5, <5>1
        <5>3. s[Len(calls)].key = Last(calls).key /\ s[i].key \in Keys
          BY <1>3, <1>4, <3>1, <5>1 DEF Calls
        <5>. QED
          BY <3>2, <3>3, <5>2, <5>3, KeyRankFalls
      <4>. QED  BY <4>1, <4>2
    <3>. QED  BY <3>4
  <2>6. ASSUME NEW i \in 1..Len(calls')
        PROVE  /\ CallIsNew(calls'[i])
               /\ \A j \in 1..Len(calls') : i < j => KeyRank[calls'[j].key] < KeyRank[calls'[i].key]
    <3>1. \A j \in 1..Len(calls') : j \in 1..Len(calls) \/ j = Len(calls) + 1
      BY <1>4, <2>3
    <3>2. CASE i = Len(calls) + 1
      BY <1>4, <2>1, <2>3, <2>4, <3>2
    <3>3. CASE i \in 1..Len(calls)
      BY <1>4, <1>5, <2>1, <2>3, <2>4, <2>5, <3>1, <3>3
    <3>. QED  BY <3>1, <3>2, <3>3
  <2>7. CallsInv'
    BY <1>1, <2>3, <2>6, QuietFacts DEF CallsInv, CallIsNew
  <2>. QED
    BY <1>1, <2>7, QuietFacts DEF ContainerInv
<1>. QED
  BY <1>6, <1>7

\* The innermost call, and the calls that wait for it: they are of other names,
\* and so of other registrations.
LEMMA TopCallFacts ==
    ASSUME ContainerInv, calls # << >>
    PROVE  /\ Len(calls) \in Nat /\ Len(calls) >= 1
           /\ Last(calls) \in Calls /\ CallIsNew(Last(calls))
           /\ Last(calls).gen \in 1..Len(life)
           /\ Front(calls) \in Seq(Calls) /\ Len(Front(calls)) = Len(calls) - 1
           /\ \A i \in 1..(Len(calls) - 1) :
                /\ Front(calls)[i] = calls[i] /\ CallIsNew(calls[i]) /\ calls[i] \in Calls
                /\ calls[i].key # Last(calls).key
                /\ calls[i].gen # Last(calls).gen
                /\ \A j \in 1..(Len(calls) - 1) :
                     i < j => KeyRank[calls[j].key] < KeyRank[calls[i].key]
<1>1. /\ calls \in Seq(Calls) /\ Len(calls) \in Nat /\ Len(calls) >= 1
      /\ \A i \in 1..Len(calls) : calls[i] \in Calls
  BY PopFacts DEF ContainerInv, CallsInv
<1>2. /\ Front(calls) \in Seq(Calls) /\ Len(Front(calls)) = Len(calls) - 1
      /\ \A i \in 1..(Len(calls) - 1) : Front(calls)[i] = calls[i]
  BY <1>1, PopFacts DEF Front
<1>3. /\ Last(calls) \in Calls /\ Last(calls) = calls[Len(calls)] /\ CallIsNew(Last(calls))
      /\ \A i \in 1..(Len(calls) - 1) : i \in 1..Len(calls) /\ i < Len(calls)
      /\ Len(calls) \in 1..Len(calls)
  BY <1>1 DEF Last, ContainerInv, CallsInv
<1>4. PICK b \in Containers : Last(calls).key \in DOMAIN regs[b]
                             /\ regs[b][Last(calls).key] = Last(calls).gen
  BY <1>3 DEF CallIsNew
<1>5. Last(calls).gen \in 1..Len(life)
  BY <1>4 DEF ContainerInv, RegsInv
<1>6. ASSUME NEW i \in 1..(Len(calls) - 1)
      PROVE  /\ CallIsNew(calls[i])
             /\ calls[i].key # Last(calls).key
             /\ calls[i].gen # Last(calls).gen
             /\ \A j \in 1..(Len(calls) - 1) :
                  i < j => KeyRank[calls[j].key] < KeyRank[calls[i].key]
  <2>1. /\ CallIsNew(calls[i]) /\ KeyRank[Last(calls).key] < KeyRank[calls[i].key]
        /\ \A j \in 1..(Len(calls) - 1) :
             i < j => KeyRank[calls[j].key] < KeyRank[calls[i].key]
    BY <1>3 DEF ContainerInv, CallsInv
  <2>2. Last(calls).key \in Keys /\ calls[i].key \in Keys
    BY <1>1, <1>3 DEF Calls
  <2>3. calls[i].key # Last(calls).key
    BY <2>1, <2>2, KeyRankFalls
  <2>4. PICK c \in Containers : calls[i].key \in DOMAIN regs[c] /\ regs[c][calls[i].key] = calls[i].gen
    BY <2>1 DEF CallIsNew
  <2>5. calls[i].gen # Last(calls).gen
    BY <1>4, <2>3, <2>4 DEF ContainerInv, RegsInv
  <2>. QED  BY <2>1, <2>3, <2>5
<1>. QED
  BY <1>1, <1>2, <1>3, <1>5, <1>6

\* The calls that waited are as they were, if what they make is still not there.
LEMMA WaitingCalls ==
    ASSUME ContainerInv, calls # << >>, calls' = Front(calls), UNCHANGED <<regs, life>>,
           \A i \in 1..(Len(calls) - 1) :
              /\ life[calls[i].gen] = "singleton" => calls[i].gen \notin made'
              /\ life[calls[i].gen] = "scoped" => calls[i].key \notin DOMAIN store'[calls[i].from]
    PROVE  CallsInv'
<1>1. /\ Len(calls) \in Nat
      /\ calls' \in Seq(Calls) /\ Len(calls') = Len(calls) - 1
      /\ \A i \in 1..(Len(calls) - 1) : calls'[i] = calls[i] /\ CallIsNew(calls[i])
      /\ \A i, j \in 1..(Len(calls) - 1) :
           i < j => KeyRank[calls[j].key] < KeyRank[calls[i].key]
  BY TopCallFacts
<1>2. ASSUME NEW i \in 1..Len(calls')
      PROVE  /\ \E c \in Containers : calls'[i].key \in DOMAIN regs'[c]
                                    /\ regs'[c][calls'[i].key] = calls'[i].gen
             /\ calls'[i].todo \subseteq NeedsOf[calls'[i].key]
             /\ life'[calls'[i].gen] = "singleton" => calls'[i].gen \notin made'
             /\ life'[calls'[i].gen] = "scoped" => calls'[i].key \notin DOMAIN store'[calls'[i].from]
  <2>1. i \in 1..(Len(calls) - 1) /\ calls'[i] = calls[i] /\ CallIsNew(calls[i])
    BY <1>1
  <2>. QED
    BY <2>1 DEF CallIsNew
<1>3. \A i, j \in 1..Len(calls') : i < j => KeyRank[calls'[j].key] < KeyRank[calls'[i].key]
  BY <1>1
<1>. QED
  BY <1>1, <1>2, <1>3 DEF CallsInv, CallIsNew

LEMMA FactoryReturnsStep ==
    ASSUME ContainerInv, FactoryReturns
    PROVE  ContainerInv'
<1>. DEFINE f == Last(calls)
<1>1. /\ calls # << >> /\ calls' = Front(calls) /\ UNCHANGED <<regs, life>>
  BY DEF FactoryReturns, AtRest
<1>2. /\ Len(calls) \in Nat /\ Len(calls) >= 1
      /\ f \in Calls /\ CallIsNew(f) /\ f.gen \in 1..Len(life)
      /\ Front(calls) \in Seq(Calls) /\ Len(Front(calls)) = Len(calls) - 1
      /\ \A i \in 1..(Len(calls) - 1) :
           /\ Front(calls)[i] = calls[i] /\ CallIsNew(calls[i]) /\ calls[i] \in Calls
           /\ calls[i].key # f.key
           /\ calls[i].gen # f.gen
           /\ \A j \in 1..(Len(calls) - 1) :
                i < j => KeyRank[calls[j].key] < KeyRank[calls[i].key]
  BY <1>1, TopCallFacts
<1>3. /\ f.key \in Keys /\ f.from \in Containers
      /\ life \in Seq(Lifetimes) /\ Len(life) \in Nat /\ DOMAIN life = 1..Len(life)
      /\ births \in Seq(Nat) /\ DOMAIN births = 1..Len(life)
      /\ \A g \in 1..Len(life) : births[g] \in Nat
  BY <1>2, LenProperties DEF Calls, ContainerInv, NumbersInv
<1>4. RegsInv'
  BY <1>1 DEF RegsInv, ContainerInv
<1>5. \/ /\ life[f.gen] = "singleton"
         /\ made' = made \cup {f.gen}
         /\ births' = [births EXCEPT ![f.gen] = @ + 1]
         /\ UNCHANGED <<store, filled>>
      \/ /\ life[f.gen] = "scoped"
         /\ store' = [store EXCEPT ![f.from] = With(@, f.key, f.gen)]
         /\ filled' = [filled EXCEPT ![f.from][f.key] = @ + 1]
         /\ UNCHANGED <<made, births>>
      \/ life[f.gen] = "transient" /\ UNCHANGED <<made, births, store, filled>>
  BY DEF FactoryReturns
<1>. HIDE DEF f
<1>6. CASE life[f.gen] = "singleton" /\ made' = made \cup {f.gen}
           /\ births' = [births EXCEPT ![f.gen] = @ + 1] /\ UNCHANGED <<store, filled>>
  <2>1. f.gen \notin made /\ births[f.gen] = 0
    BY <1>2, <1>3, <1>6 DEF CallIsNew, ContainerInv, SingletonOnce, Gens
  <2>2. /\ births' \in Seq(Nat) /\ Len(births') = Len(births)
        /\ births'[f.gen] = 1
        /\ \A g \in 1..Len(life) : g # f.gen => births'[g] = births[g]
    BY <1>2, <1>3, <1>6, <2>1
  <2>3. NumbersInv'
    BY <1>1, <1>2, <1>6, <2>2 DEF ContainerInv, NumbersInv
  <2>4. SingletonOnce'
    BY <1>1, <1>3, <1>6, <2>2 DEF ContainerInv, SingletonOnce, Gens
  <2>5. StoresInv' /\ ScopedOnce'
    BY <1>6 DEF ContainerInv, StoresInv, ScopedOnce
  <2>6. CallsInv'
    BY <1>1, <1>2, <1>6, WaitingCalls DEF CallIsNew
  <2>. QED
    BY <1>4, <2>3, <2>4, <2>5, <2>6 DEF ContainerInv
<1>7. CASE life[f.gen] = "scoped"
           /\ store' = [store EXCEPT ![f.from] = With(@, f.key, f.gen)]
           /\ filled' = [filled EXCEPT ![f.from][f.key] = @ + 1]
           /\ UNCHANGED <<made, births>>
  <2>1. /\ DOMAIN store = Containers /\ filled \in [Containers -> [Keys -> Nat]]
        /\ \A c \in Containers : DOMAIN store[c] \subseteq Keys
    BY DEF ContainerInv, StoresInv
  <2>2. f.key \notin DOMAIN store[f.from] /\ filled[f.from][f.key] = 0
    BY <1>2, <1>3, <1>7 DEF CallIsNew, ContainerInv, ScopedOnce
  <2>3. /\ DOMAIN store' = Containers
        /\ store'[f.from] = With(store[f.from], f.key, f.gen)
        /\ \A c \in Containers : c # f.from => store'[c] = store[c]
    BY <1>3, <1>7, <2>1
  <2>4. DOMAIN store'[f.from] = DOMAIN store[f.from] \cup {f.key}
    BY <2>3 DEF With
  <2>5. filled' = [filled EXCEPT ![f.from] = [filled[f.from] EXCEPT ![f.key] = 1]]
    BY <1>7, <2>2
  <2>6. filled[f.from] \in [Keys -> Nat]
    BY <1>3, <2>1
  <2>7. /\ [filled[f.from] EXCEPT ![f.key] = 1] \in [Keys -> Nat]
        /\ [filled[f.from] EXCEPT ![f.key] = 1][f.key] = 1
        /\ \A k \in Keys : k # f.key => [filled[f.from] EXCEPT ![f.key] = 1][k] = filled[f.from][k]
    BY <1>3, <2>6
  <2>8. /\ filled' \in [Containers -> [Keys -> Nat]]
        /\ filled'[f.from] = [filled[f.from] EXCEPT ![f.key] = 1]
        /\ \A c \in Containers : c # f.from => filled'[c] = filled[c]
    BY <1>3, <2>1, <2>5, <2>7
  <2>9. StoresInv'
    BY <1>3, <2>1, <2>3, <2>4, <2>8 DEF StoresInv
  <2>10. ScopedOnce'
    <3> SUFFICES ASSUME NEW c \in Containers, NEW k \in Keys
                 PROVE  filled'[c][k] = IF k \in DOMAIN store'[c] THEN 1 ELSE 0
      BY DEF ScopedOnce
    <3>1. filled[c][k] = IF k \in DOMAIN store[c] THEN 1 ELSE 0
      BY DEF ContainerInv, ScopedOnce
    <3>. QED
      BY <2>3, <2>4, <2>7, <2>8, <3>1
  <2>11. NumbersInv' /\ SingletonOnce'
    BY <1>1, <1>7 DEF ContainerInv, NumbersInv, SingletonOnce, Gens
  <2>12. CallsInv'
    <3>1. ASSUME NEW i \in 1..(Len(calls) - 1), life[calls[i].gen] = "scoped"
          PROVE  calls[i].key \notin DOMAIN store'[calls[i].from]
      <4>1. calls[i].key \notin DOMAIN store[calls[i].from] /\ calls[i].key # f.key
        BY <1>2, <3>1 DEF CallIsNew
      <4>2. calls[i].from \in Containers
        BY <1>2 DEF Calls
      <4>. QED
        BY <2>3, <2>4, <4>1, <4>2
    <3>2. \A i \in 1..(Len(calls) - 1) :
             life[calls[i].gen] = "singleton" => calls[i].gen \notin made'
      BY <1>2, <1>7 DEF CallIsNew
    <3>. QED
      BY <1>1, <3>1, <3>2, WaitingCalls
  <2>. QED
    BY <1>4, <2>9, <2>10, <2>11, <2>12 DEF ContainerInv
<1>8. CASE UNCHANGED <<made, births, store, filled>>
  <2>1. CallsInv'
    BY <1>1, <1>2, <1>8 DEF CallsInv, CallIsNew
  <2>. QED
    BY <1>1, <1>8, <2>1, QuietFacts DEF ContainerInv
<1>. QED
  BY <1>5, <1>6, <1>7, <1>8

-----------------------------------------------------------------------------
(* Registration, when no factory runs.                                     *)

LEMMA AtRestFacts ==
    ASSUME AtRest, UNCHANGED calls
    PROVE  CallsInv'
<1>1. calls' = << >> /\ calls' \in Seq(Calls) /\ Len(calls') = 0
  BY DEF AtRest
<1>. QED
  BY <1>1 DEF CallsInv

LEMMA RegisterKeyStep ==
    ASSUME ContainerInv, NEW c \in Containers, NEW k \in Keys, NEW l \in Lifetimes,
           RegisterKey(c, k, l)
    PROVE  ContainerInv'
<1>. DEFINE n == Len(life) + 1
<1>1. /\ life \in Seq(Lifetimes) /\ Len(life) \in Nat /\ DOMAIN life = 1..Len(life)
      /\ births \in Seq(Nat) /\ Len(births) = Len(life) /\ made \subseteq 1..Len(life)
  BY LenProperties DEF ContainerInv, NumbersInv
<1>2. /\ life' = Append(life, l) /\ births' = Append(births, 0)
      /\ regs' = [regs EXCEPT ![c] = With(@, k, Len(life'))]
      /\ UNCHANGED <<made, store, filled, calls>> /\ AtRest
  BY DEF RegisterKey
<1>3. /\ life' \in Seq(Lifetimes) /\ Len(life') = n /\ DOMAIN life' = 1..n
      /\ \A g \in 1..Len(life) : life'[g] = life[g]
  BY <1>1, <1>2, AppendFacts
<1>4. /\ births' \in Seq(Nat) /\ Len(births') = n /\ births'[n] = 0
      /\ \A g \in 1..Len(life) : births'[g] = births[g]
  BY <1>1, <1>2, AppendFacts
<1>5. NumbersInv'
  BY <1>1, <1>2, <1>3, <1>4 DEF NumbersInv
<1>6. SingletonOnce'
  <2>1. \A g \in 1..n : g \in 1..Len(life) \/ (g = n /\ g \notin made)
    BY <1>1
  <2>2. \A g \in 1..Len(life) : life[g] = "singleton" => births[g] = IF g \in made THEN 1 ELSE 0
    BY <1>1 DEF ContainerInv, SingletonOnce, Gens
  <2>. QED
    BY <1>2, <1>3, <1>4, <2>1, <2>2 DEF SingletonOnce, Gens
<1>7. StoresInv' /\ ScopedOnce'
  BY <1>2 DEF ContainerInv, StoresInv, ScopedOnce
<1>8. RegsInv'
  <2>1. /\ DOMAIN regs' = Containers
        /\ \A b \in Containers : b # c => regs'[b] = regs[b]
        /\ DOMAIN regs'[c] = DOMAIN regs[c] \cup {k}
        /\ \A x \in DOMAIN regs'[c] : regs'[c][x] = IF x = k THEN n ELSE regs[c][x]
    BY <1>2, <1>3 DEF With, ContainerInv, RegsInv
  <2>2. \A b \in Containers : \A x \in DOMAIN regs'[b] :
          /\ x \in Keys
          /\ \/ regs'[b][x] = n /\ x = k
             \/ x \in DOMAIN regs[b] /\ regs'[b][x] = regs[b][x] /\ regs[b][x] \in 1..Len(life)
    BY <2>1 DEF ContainerInv, RegsInv
  <2>3. n \in 1..n /\ \A g \in 1..Len(life) : g \in 1..n /\ g # n
    BY <1>1
  <2>4. \A b, d \in Containers : \A x \in DOMAIN regs[b], y \in DOMAIN regs[d] :
          regs[b][x] = regs[d][y] => x = y
    BY DEF ContainerInv, RegsInv
  <2>5. \A b, d \in Containers : \A x \in DOMAIN regs'[b], y \in DOMAIN regs'[d] :
          regs'[b][x] = regs'[d][y] => x = y
    BY <2>2, <2>3, <2>4
  <2>. QED
    BY <1>3, <2>1, <2>2, <2>3, <2>5 DEF RegsInv
<1>. QED
  BY <1>2, <1>5, <1>6, <1>7, <1>8, AtRestFacts DEF ContainerInv

\* remove(), clear_scope() and clear() take away.
LEMMA ForgettingStep ==
    ASSUME ContainerInv, NEW c \in Containers, NEW k,
           RemoveKey(c, k) \/ ClearScope(c) \/ Clear(c)
    PROVE  ContainerInv'
<1>1. AtRest /\ UNCHANGED <<life, made, births, calls>>
  BY DEF RemoveKey, ClearScope, Clear
<1>2. NumbersInv' /\ SingletonOnce'
  BY <1>1 DEF ContainerInv, NumbersInv, SingletonOnce, Gens
<1>3. /\ DOMAIN store = Containers /\ filled \in [Containers -> [Keys -> Nat]]
      /\ \A b \in Containers : DOMAIN store[b] \subseteq Keys
  BY DEF ContainerInv, StoresInv
<1>4. StoresInv' /\ ScopedOnce'
  <2>1. CASE UNCHANGED <<store, filled>>
    BY <2>1 DEF ContainerInv, StoresInv, ScopedOnce
  <2>2. CASE ForgetStore(c)
    <3>1. DOMAIN << >> = {} /\ [x \in Keys |-> 0] \in [Keys -> Nat]
      OBVIOUS
    <3>2. /\ DOMAIN store' = Containers /\ DOMAIN store'[c] = {}
          /\ \A b \in Containers : b # c => store'[b] = store[b]
      BY <1>3, <2>2, <3>1 DEF ForgetStore
    <3>3. /\ filled' \in [Containers -> [Keys -> Nat]]
          /\ \A x \in Keys : filled'[c][x] = 0
          /\ \A b \in Containers : b # c => filled'[b] = filled[b]
      BY <1>3, <2>2, <3>1 DEF ForgetStore
    <3>4. StoresInv'
      BY <1>3, <3>2, <3>3 DEF StoresInv
    <3>5. ScopedOnce'
      BY <3>2, <3>3 DEF ContainerInv, ScopedOnce
    <3>. QED  BY <3>4, <3>5
  <2>. QED
    BY <2>1, <2>2 DEF RemoveKey, ClearScope, Clear
<1>5. RegsInv'
  <2>1. CASE UNCHANGED regs
    BY <1>1, <2>1 DEF ContainerInv, RegsInv
  <2>2. CASE \/ regs' = [regs EXCEPT ![c] = [x \in DOMAIN @ \ {k} |-> @[x]]]
             \/ regs' = [regs EXCEPT ![c] = << >>]
    <3>1. /\ DOMAIN regs' = Containers
          /\ \A b \in Containers : b # c => regs'[b] = regs[b]
          /\ \A x \in DOMAIN regs'[c] : x \in DOMAIN regs[c] /\ regs'[c][x] = regs[c][x]
      BY <2>2 DEF ContainerInv, RegsInv
    <3>2. \A b \in Containers : \A x \in DOMAIN regs'[b] :
            x \in DOMAIN regs[b] /\ regs'[b][x] = regs[b][x]
      BY <3>1
    <3>3. /\ \A b \in Containers :
               /\ DOMAIN regs[b] \subseteq Keys
               /\ \A x \in DOMAIN regs[b] : regs[b][x] \in 1..Len(life)
          /\ \A b, d \in Containers : \A x \in DOMAIN regs[b], y \in DOMAIN regs[d] :
               regs[b][x] = regs[d][y] => x = y
      BY DEF ContainerInv, RegsInv
    <3>4. \A b, d \in Containers : \A x \in DOMAIN regs'[b], y \in DOMAIN regs'[d] :
            regs'[b][x] = regs'[d][y] => x = y
      BY <3>2, <3>3
    <3>5. \A b \in Containers :
             /\ DOMAIN regs'[b] \subseteq Keys
             /\ \A x \in DOMAIN regs'[b] : regs'[b][x] \in 1..Len(life')
      BY <1>1, <3>2, <3>3
    <3>. QED
      BY <3>1, <3>4, <3>5 DEF RegsInv
  <2>. QED
    BY <2>1, <2>2 DEF RemoveKey, ClearScope, Clear
<1>. QED
  BY <1>1, <1>2, <1>4, <1>5, AtRestFacts DEF ContainerInv

\* The parts of the kernel are met in some order, each once.
LEMMA KernelSequence ==
    /\ SetToSeq(KernelKeys) \in Seq(KernelKeys)
    /\ \A k \in KernelKeys : \E i \in DOMAIN SetToSeq(KernelKeys) : SetToSeq(KernelKeys)[i] = k
<1>. DEFINE n == Cardinality(KernelKeys)
<1>1. IsFiniteSet(KernelKeys) /\ n \in Nat /\ ExistsBijection(1..n, KernelKeys)
  BY FS_Subset, FS_CardinalityType, ContainerAssumption DEF ContainerAssumption
<1>2. PICK g \in [1..n -> KernelKeys] : g \in Bijection(1..n, KernelKeys)
  BY <1>1 DEF ExistsBijection, Bijection, Injection
<1>3. IsInjective(g)
  BY <1>2 DEF Bijection, Injection
<1>. DEFINE f == SetToSeq(KernelKeys)
<1>4. f \in [1..n -> KernelKeys] /\ IsInjective(f)
  BY <1>3 DEF SetToSeq
<1>. HIDE DEF f
<1>5. f \in Injection(1..n, KernelKeys)
  BY <1>4 DEF Injection
<1>6. IsFiniteSet(1..n) /\ Cardinality(1..n) = n
  BY <1>1, FS_Interval
<1>. HIDE DEF n
<1>7. f \in Surjection(1..n, KernelKeys)
  BY <1>1, <1>5, <1>6, FS_Injection DEF n
<1>8. \A k \in KernelKeys : \E i \in 1..n : f[i] = k
  BY <1>7 DEF Surjection
<1>9. f \in Seq(KernelKeys) /\ DOMAIN f = 1..n
  BY <1>1, <1>4, SeqDef
<1>. QED
  BY <1>8, <1>9 DEF f

\* What a sequence holds that goes on with one value a number of times.
LEMMA ExtendedFacts ==
    ASSUME NEW S, NEW q \in Seq(S), NEW m \in Nat, NEW x \in S,
           NEW t, t = q \o [i \in 1..m |-> x]
    PROVE  /\ t \in Seq(S) /\ Len(t) = Len(q) + m
           /\ \A i \in 1..Len(q) : t[i] = q[i]
           /\ \A i \in 1..m : t[Len(q) + i] = x
<1>. DEFINE r == [i \in 1..m |-> x]
<1>1. r \in [1..m -> S] /\ \A i \in 1..m : r[i] = x
  OBVIOUS
<1>2. r \in Seq(S) /\ DOMAIN r = 1..m
  BY <1>1, SeqDef
<1>3. Len(r) = m
  BY <1>2, LenProperties
<1>4. t = q \o r
  OBVIOUS
<1>. HIDE DEF r
<1>5. Len(q) \in Nat
  BY LenProperties
<1>6. /\ t \in Seq(S) /\ Len(t) = Len(q) + m
      /\ \A i \in 1..(Len(q) + m) : t[i] = IF i <= Len(q) THEN q[i] ELSE r[i - Len(q)]
  <2>1. /\ q \o r \in Seq(S) /\ Len(q \o r) = Len(q) + Len(r)
        /\ \A i \in 1..(Len(q) + Len(r)) :
              (q \o r)[i] = IF i <= Len(q) THEN q[i] ELSE r[i - Len(q)]
    BY <1>2, ConcatProperties
  <2>. QED
    BY <1>3, <1>4, <2>1, Zenon
<1>7. \A i \in 1..Len(q) : t[i] = q[i]
  BY <1>5, <1>6
<1>8. ASSUME NEW i \in 1..m PROVE t[Len(q) + i] = x
  <2>1. /\ Len(q) + i \in 1..(Len(q) + m) /\ ~(Len(q) + i <= Len(q))
        /\ Len(q) + i - Len(q) = i
    BY <1>5
  <2>. QED
    BY <1>1, <1>6, <2>1 DEF r
<1>. QED
  BY <1>6, <1>7, <1>8

LEMMA InitializeKernelStep ==
    ASSUME ContainerInv, InitializeKernel
    PROVE  ContainerInv'
<1>. DEFINE new == SetToSeq(KernelKeys)
           n == Len(life)
           m == Len(new)
           place(k) == CHOOSE i \in DOMAIN new : new[i] = k
<1>1. /\ AtRest /\ UNCHANGED <<store, filled, calls>>
      /\ life' = life \o [i \in DOMAIN new |-> "singleton"]
      /\ births' = births \o [i \in DOMAIN new |-> 1]
      /\ made' = made \cup {n + i : i \in DOMAIN new}
      /\ regs' = [regs EXCEPT ![Kernel] =
            [k \in DOMAIN @ \cup KernelKeys |-> IF k \in KernelKeys THEN n + place(k) ELSE @[k]]]
  BY DEF InitializeKernel, RegisterInstances
<1>2. m \in Nat /\ DOMAIN new = 1..m
  BY KernelSequence, LenProperties
<1>3. \A k \in KernelKeys : place(k) \in 1..m /\ new[place(k)] = k
  <2> SUFFICES ASSUME NEW k \in KernelKeys
               PROVE  place(k) \in DOMAIN new /\ new[place(k)] = k
    BY <1>2
  <2>1. \E i \in DOMAIN new : new[i] = k
    BY KernelSequence
  <2>. QED
    BY <2>1
<1>4. \A k, l \in KernelKeys : place(k) = place(l) => k = l
  BY <1>3
<1>. HIDE DEF new, m, place
<1>5. /\ life \in Seq(Lifetimes) /\ n \in Nat /\ DOMAIN life = 1..n
      /\ births \in Seq(Nat) /\ Len(births) = n /\ made \subseteq 1..n
  BY LenProperties DEF ContainerInv, NumbersInv
<1>6. /\ life' \in Seq(Lifetimes) /\ Len(life') = n + m
      /\ \A g \in 1..n : life'[g] = life[g]
  <2>1. life' = life \o [i \in 1..m |-> "singleton"] /\ "singleton" \in Lifetimes
    BY <1>1, <1>2 DEF Lifetimes
  <2>. HIDE DEF n
  <2>2. life' \in Seq(Lifetimes) /\ Len(life') = Len(life) + m
        /\ \A i \in 1..Len(life) : life'[i] = life[i]
    BY <1>2, <1>5, <2>1, ExtendedFacts
  <2>. QED
    BY <2>2 DEF n
<1>7. /\ births' \in Seq(Nat) /\ Len(births') = n + m
      /\ \A g \in 1..n : births'[g] = births[g]
      /\ \A i \in 1..m : births'[n + i] = 1
  <2>1. births' = births \o [i \in 1..m |-> 1]
    BY <1>1, <1>2
  <2>. HIDE DEF n
  <2>2. /\ births' \in Seq(Nat) /\ Len(births') = Len(births) + m
        /\ \A i \in 1..Len(births) : births'[i] = births[i]
        /\ \A i \in 1..m : births'[Len(births) + i] = 1
    <3>1. births \in Seq(Nat) /\ m \in Nat /\ 1 \in Nat
      BY <1>2, <1>5
    <3>. QED
      BY ONLY <2>1, <3>1, ExtendedFacts
  <2>. QED
    BY <1>5, <2>2
<1>8. made' = made \cup {n + i : i \in 1..m}
  BY <1>1, <1>2
<1>. HIDE DEF n
<1>9. NumbersInv'
  <2>1. \A i \in 1..m : n + i \in 1..(n + m)
    BY <1>2, <1>5
  <2>2. \A g \in 1..n : g \in 1..(n + m)
    BY <1>2, <1>5
  <2>3. made' \subseteq 1..(n + m)
    BY <1>5, <1>8, <2>1, <2>2
  <2>. QED
    BY <1>6, <1>7, <2>3 DEF NumbersInv
<1>10. SingletonOnce'
  <2> SUFFICES ASSUME NEW g \in 1..(n + m), life'[g] = "singleton"
               PROVE  births'[g] = IF g \in made' THEN 1 ELSE 0
    BY <1>6, LenProperties DEF SingletonOnce, Gens
  <2>1. CASE g \in 1..n
    <3>1. g \in made' <=> g \in made
      BY <1>2, <1>5, <1>8, <2>1
    <3>. QED
      BY <1>5, <1>6, <1>7, <2>1, <3>1 DEF ContainerInv, SingletonOnce, Gens
  <2>2. CASE g \notin 1..n
    <3>1. g - n \in 1..m /\ g = n + (g - n)
      BY <1>2, <1>5, <2>2
    <3>2. g \in made'
      BY <1>8, <3>1
    <3>3. births'[g] = 1
      BY <1>7, <3>1
    <3>. QED
      BY <3>2, <3>3
  <2>. QED
    BY <2>1, <2>2
<1>11. StoresInv' /\ ScopedOnce'
  BY <1>1 DEF ContainerInv, StoresInv, ScopedOnce
<1>12. RegsInv'
  <2>1. /\ DOMAIN regs' = Containers /\ Kernel \in Containers /\ KernelKeys \subseteq Keys
        /\ \A b \in Containers : b # Kernel => regs'[b] = regs[b]
        /\ DOMAIN regs'[Kernel] = DOMAIN regs[Kernel] \cup KernelKeys
        /\ \A x \in DOMAIN regs'[Kernel] :
             regs'[Kernel][x] = IF x \in KernelKeys THEN n + place(x) ELSE regs[Kernel][x]
    BY <1>1, ContainerAssumption DEF ContainerInv, RegsInv, ContainerAssumption
  <2>2. \A b \in Containers : \A x \in DOMAIN regs[b] : x \in Keys /\ regs[b][x] \in 1..n
    BY DEF ContainerInv, RegsInv, n
  <2>3. \A b \in Containers : \A x \in DOMAIN regs'[b] :
          /\ x \in Keys
          /\ \/ x \in KernelKeys /\ regs'[b][x] = n + place(x)
             \/ x \in DOMAIN regs[b] /\ regs'[b][x] = regs[b][x] /\ regs[b][x] \in 1..n
    BY <2>1, <2>2
  <2>4. \A k \in KernelKeys : /\ n + place(k) \in 1..(n + m) /\ n + place(k) \notin 1..n
                              /\ place(k) \in Int
    BY <1>2, <1>3, <1>5
  <2>5. \A k, l \in KernelKeys : n + place(k) = n + place(l) => k = l
    BY <1>4, <1>5, <2>4
  <2>6. \A b, d \in Containers : \A x \in DOMAIN regs[b], y \in DOMAIN regs[d] :
          regs[b][x] = regs[d][y] => x = y
    BY DEF ContainerInv, RegsInv
  <2>7. \A b, d \in Containers : \A x \in DOMAIN regs'[b], y \in DOMAIN regs'[d] :
          regs'[b][x] = regs'[d][y] => x = y
    BY <2>3, <2>4, <2>5, <2>6
  <2>8. \A g \in 1..n : g \in 1..(n + m)
    BY <1>2, <1>5
  <2>. QED
    BY <1>6, <2>1, <2>3, <2>4, <2>7, <2>8 DEF RegsInv
<1>. QED
  BY <1>1, <1>9, <1>10, <1>11, <1>12, AtRestFacts DEF ContainerInv

-----------------------------------------------------------------------------
(* Its theorems.                                                           *)

LEMMA ContainerInvInit == ContainerInit => ContainerInv
<1>. SUFFICES ASSUME ContainerInit PROVE ContainerInv
  OBVIOUS
<1>1. /\ DOMAIN << >> = {} /\ Len(<< >>) = 0 /\ << >> \in Seq(Lifetimes)
      /\ << >> \in Seq(Nat) /\ << >> \in Seq(Calls)
  OBVIOUS
<1>2. NumbersInv /\ CallsInv
  BY <1>1 DEF ContainerInit, NumbersInv, CallsInv
<1>3. StoresInv /\ RegsInv
  BY <1>1 DEF ContainerInit, StoresInv, RegsInv
<1>4. SingletonOnce /\ ScopedOnce
  BY <1>1 DEF ContainerInit, SingletonOnce, ScopedOnce, Gens
<1>. QED
  BY <1>2, <1>3, <1>4 DEF ContainerInv

LEMMA ContainerInvNext == ContainerInv /\ [ContainerNext]_containerVars => ContainerInv'
<1>. SUFFICES ASSUME ContainerInv, [ContainerNext]_containerVars PROVE ContainerInv'
  OBVIOUS
<1>1. ASSUME NEW c \in Containers, NEW k \in Keys, NEW l \in Lifetimes, RegisterKey(c, k, l)
      PROVE  ContainerInv'
  BY <1>1, RegisterKeyStep
<1>2. ASSUME NEW c \in Containers, NEW k \in Keys, RemoveKey(c, k)
      PROVE  ContainerInv'
  BY <1>2, ForgettingStep
<1>3. ASSUME NEW c \in Containers, NEW k \in Keys, ResolveKey(c, k)
      PROVE  ContainerInv'
  BY <1>3, ResolveKeyStep
<1>4. ASSUME NEW c \in Containers, NEW k \in Keys, NeedNext(c, k)
      PROVE  ContainerInv'
  BY <1>4, NeedNextStep
<1>5. ASSUME NEW c \in Containers, ClearScope(c) \/ Clear(c)
      PROVE  ContainerInv'
  BY <1>5, ForgettingStep
<1>6. CASE InitializeKernel
  BY <1>6, InitializeKernelStep
<1>7. CASE FactoryReturns
  BY <1>7, FactoryReturnsStep
<1>8. CASE FactoryRaises
  BY <1>8, FactoryRaisesStep
<1>9. CASE UNCHANGED containerVars
  <2>1. CallsInv'
    BY <1>9 DEF containerVars, ContainerInv, CallsInv, CallIsNew
  <2>. QED
    BY <1>9, <2>1, QuietFacts DEF containerVars, ContainerInv
<1>. QED
  BY <1>1, <1>2, <1>3, <1>4, <1>5, <1>6, <1>7, <1>8, <1>9 DEF ContainerNext

\* Along every run of registrations, resolutions and failures of factories.
THEOREM ContainerInvariance == ContainerSpec => []ContainerInv
<1>. QED  BY ContainerInvInit, ContainerInvNext, PTL DEF ContainerSpec

\* A registration of a singleton makes one object in its life.
THEOREM SingletonIsMadeOnce == ContainerSpec => []SingletonOnce
<1>1. ContainerInv => SingletonOnce
  BY DEF ContainerInv
<1>. QED  BY <1>1, ContainerInvariance, PTL

\* Between two clearings a scope gets one object of a name and keeps it.
THEOREM ScopedIsMadeOnce == ContainerSpec => []ScopedOnce
<1>1. ContainerInv => ScopedOnce
  BY DEF ContainerInv
<1>. QED  BY <1>1, ContainerInvariance, PTL
=============================================================================
