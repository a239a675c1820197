-------------------------- MODULE PluginLoaderProofs --------------------------
(***************************************************************************)
(* PluginLoader, for any set of plugins with any dependencies: on_load is  *)
(* called once per load and after the dependencies, and the recursion of   *)
(* load() stays within its bounds.                                         *)
(*                                                                         *)
(* All three are about the frames of load(): what the one on top may do is *)
(* restricted by those below it, which wait for it.                        *)
(***************************************************************************)
EXTENDS PluginLoader, Integers, SequenceTheorems, TLAPS

\* A measure of the plugins without cyclic dependencies, which falls along
\* them.
Rank == CHOOSE rank \in [Acyclic -> 0..Cardinality(Acyclic)] :
          \A p \in Acyclic : \A i \in 1..Len(Deps[p]) :
             Deps[p][i] \in Acyclic /\ rank[Deps[p][i]] < rank[p]

LEMMA RankFalls ==
    \A p \in Acyclic :
       /\ p \in Plugins
       /\ \A i \in 1..Len(Deps[p]) :
             Deps[p][i] \in Acyclic /\ Rank[Deps[p][i]] < Rank[p]
  BY PluginAssumption DEF PluginAssumption, Rank

LEMMA RankType ==
    \A p \in Acyclic : Rank[p] \in Int
<1>1. Rank \in [Acyclic -> 0..Cardinality(Acyclic)]
  BY PluginAssumption DEF PluginAssumption, Rank
<1> QED
  BY <1>1

-----------------------------------------------------------------------------
(* The inductive invariant.                                                *)

\* load() has nothing to do for q, or has failed for it.
Settled(q) == loaded[q] \/ error[q] \/ q \notin known
SettledNext(q) == loaded'[q] \/ error'[q] \/ q \notin known'

\* Only the frame on top may be before its import.
ImportedInv ==
    \A i \in 1..Len(stack) : stack[i].step = "import" => i = Len(stack)

\* What a frame still has to load are dependencies of its plugin, and all the
\* others are settled, but for the one whose frame is the next.
DepsInv ==
    \A i \in 1..Len(stack) :
       /\ \A n \in 1..Len(stack[i].deps) :
             \E m \in 1..Len(Deps[stack[i].plugin]) :
                stack[i].deps[n] = Deps[stack[i].plugin][m]
       /\ \A m \in 1..Len(Deps[stack[i].plugin]) :
             \/ Settled(Deps[stack[i].plugin][m])
             \/ \E n \in 1..Len(stack[i].deps) :
                   stack[i].deps[n] = Deps[stack[i].plugin][m]
             \/ i < Len(stack) /\ stack[i + 1].plugin = Deps[stack[i].plugin][m]

\* A plugin without cyclic dependencies is not loaded while it has a frame,
\* and has one only: those above are of lower rank.
RankInv ==
    \A i \in 1..Len(stack) : stack[i].plugin \in Acyclic =>
       /\ ~loaded[stack[i].plugin]
       /\ \A j \in (i + 1)..Len(stack) :
             /\ stack[j].plugin \in Acyclic
             /\ Rank[stack[j].plugin] < Rank[stack[i].plugin]

FrameInv == ImportedInv /\ DepsInv /\ RankInv

LoaderInv ==
    /\ TypeOK /\ HookCalledOnce /\ FrameInv

-----------------------------------------------------------------------------
(* The stack.                                                              *)

LEMMA TopFacts ==
    ASSUME TypeOK, ~Idle
    PROVE  /\ Len(stack) \in Nat /\ Len(stack) >= 1
           /\ Top \in Frames
           /\ Top = stack[Len(stack)]
           /\ Top.plugin \in Plugins
           /\ Top.deps \in Seq(Plugins)
           /\ \A i \in 1..Len(stack) : stack[i] \in Frames
<1>1. stack \in Seq(Frames) /\ stack # <<>>
  BY DEF TypeOK, Idle
<1>2. /\ Len(stack) \in Nat /\ Len(stack) >= 1
      /\ \A i \in 1..Len(stack) : stack[i] \in Frames
  BY <1>1
<1>3. Top \in Frames /\ Top = stack[Len(stack)]
  BY <1>2 DEF Top
<1> QED
  BY <1>2, <1>3 DEF Frames

\* A stack without its top.
LEMMA PopFacts ==
    ASSUME NEW S, NEW q \in Seq(S), Len(q) >= 1
    PROVE  /\ SubSeq(q, 1, Len(q) - 1) \in Seq(S)
           /\ Len(SubSeq(q, 1, Len(q) - 1)) = Len(q) - 1
           /\ \A i \in 1..(Len(q) - 1) : SubSeq(q, 1, Len(q) - 1)[i] = q[i]
<1>1. /\ Len(q) \in Nat /\ Len(q) >= 1
      /\ \A i \in 1..Len(q) : q[i] \in S
  BY EmptySeq, LenProperties
<1>2. \A i \in 1..(Len(q) - 1) : q[i] \in S
  BY <1>1
<1>3. /\ SubSeq(q, 1, Len(q) - 1) \in Seq(S)
      /\ Len(SubSeq(q, 1, Len(q) - 1)) = IF 1 <= Len(q) - 1 THEN Len(q) - 1 - 1 + 1 ELSE 0
      /\ \A i \in 1..(Len(q) - 1 - 1 + 1) : SubSeq(q, 1, Len(q) - 1)[i] = q[1 + i - 1]
  BY <1>1, <1>2, SubSeqProperties
<1>4. Len(q) - 1 - 1 + 1 = Len(q) - 1 /\ \A i \in 1..(Len(q) - 1) : 1 + i - 1 = i
  BY <1>1
<1>5. Len(SubSeq(q, 1, Len(q) - 1)) = Len(q) - 1
  BY <1>1, <1>3, <1>4
<1>6. \A i \in 1..(Len(q) - 1) : SubSeq(q, 1, Len(q) - 1)[i] = q[i]
  BY <1>3, <1>4
<1> QED
  BY <1>3, <1>5, <1>6

LEMMA BelowFacts ==
    ASSUME TypeOK, ~Idle
    PROVE  /\ Below \in Seq(Frames)
           /\ Len(Below) = Len(stack) - 1
           /\ \A i \in 1..(Len(stack) - 1) : Below[i] = stack[i]
<1>1. stack \in Seq(Frames) /\ Len(stack) \in Nat /\ Len(stack) >= 1
  BY TopFacts DEF TypeOK
<1>2. /\ SubSeq(stack, 1, Len(stack) - 1) \in Seq(Frames)
      /\ Len(SubSeq(stack, 1, Len(stack) - 1)) = Len(stack) - 1
      /\ \A i \in 1..(Len(stack) - 1) : SubSeq(stack, 1, Len(stack) - 1)[i] = stack[i]
  BY <1>1, PopFacts, EmptySeq
<1> QED
  BY <1>2 DEF Below

\* The frame on top goes on at its next step, or with its next dependency.
LEMMA TopStepFacts ==
    ASSUME TypeOK, ~Idle, stack' = [stack EXCEPT ![Len(stack)].step = "deps"]
    PROVE  /\ stack' \in Seq(Frames)
           /\ Len(stack') = Len(stack)
           /\ \A i \in 1..(Len(stack) - 1) : stack'[i] = stack[i]
           /\ stack'[Len(stack)].plugin = Top.plugin
           /\ stack'[Len(stack)].deps = Top.deps
           /\ stack'[Len(stack)].step = "deps"
<1>1. /\ stack \in Seq(Frames) /\ Len(stack) \in 1..Len(stack)
      /\ Top \in Frames /\ Top = stack[Len(stack)]
  BY TopFacts DEF TypeOK
<1>2. stack' = [stack EXCEPT ![Len(stack)] = [Top EXCEPT !.step = "deps"]]
  BY <1>1
<1>3. [Top EXCEPT !.step = "deps"] \in Frames
  BY <1>1 DEF Frames
<1> QED
  BY <1>1, <1>2, <1>3 DEF Frames

LEMMA TopDepsFacts ==
    ASSUME TypeOK, ~Idle, NEW s, s = [stack EXCEPT ![Len(stack)].deps = NextDeps],
           Top.deps # <<>>
    PROVE  /\ s \in Seq(Frames)
           /\ Len(s) = Len(stack)
           /\ \A i \in 1..(Len(stack) - 1) : s[i] = stack[i]
           /\ s[Len(stack)].plugin = Top.plugin
           /\ s[Len(stack)].step = Top.step
           /\ s[Len(stack)].deps = Tail(Top.deps)
<1>1. /\ stack \in Seq(Frames) /\ Len(stack) \in 1..Len(stack)
      /\ Top \in Frames /\ Top = stack[Len(stack)] /\ Top.deps \in Seq(Plugins)
  BY TopFacts DEF TypeOK
<1>2. s = [stack EXCEPT ![Len(stack)] = [Top EXCEPT !.deps = Tail(Top.deps)]]
  BY <1>1 DEF NextDeps
<1>3. Tail(Top.deps) \in Seq(Plugins)
  BY <1>1
<1>4. [Top EXCEPT !.deps = Tail(Top.deps)] \in Frames
  BY <1>1, <1>3 DEF Frames
<1>5. /\ [Top EXCEPT !.deps = Tail(Top.deps)].plugin = Top.plugin
      /\ [Top EXCEPT !.deps = Tail(Top.deps)].step = Top.step
      /\ [Top EXCEPT !.deps = Tail(Top.deps)].deps = Tail(Top.deps)
  BY <1>1 DEF Frames
<1>6. ASSUME NEW f \in Frames, s = [stack EXCEPT ![Len(stack)] = f]
      PROVE  /\ s \in Seq(Frames) /\ Len(s) = Len(stack) /\ s[Len(stack)] = f
             /\ \A i \in 1..(Len(stack) - 1) : s[i] = stack[i]
  BY <1>1, <1>6
<1>7. /\ s \in Seq(Frames) /\ Len(s) = Len(stack)
      /\ s[Len(stack)] = [Top EXCEPT !.deps = Tail(Top.deps)]
      /\ \A i \in 1..(Len(stack) - 1) : s[i] = stack[i]
  BY <1>2, <1>4, <1>6
<1> QED
  BY <1>5, <1>7

\* The elements of a sequence are its head and those of its tail.
LEMMA TailElements ==
    ASSUME NEW S, NEW q \in Seq(S), q # <<>>
    PROVE  /\ Len(Tail(q)) = Len(q) - 1 /\ Len(q) \in Nat /\ Len(q) >= 1
           /\ Head(q) = q[1] /\ Head(q) \in S
           /\ \A n \in 1..Len(Tail(q)) : Tail(q)[n] = q[n + 1]
           /\ \A n \in 1..Len(q) : q[n] = Head(q) \/ \E m \in 1..Len(Tail(q)) : Tail(q)[m] = q[n]
<1>1. /\ Len(Tail(q)) = Len(q) - 1 /\ Len(q) \in Nat /\ Len(q) >= 1
      /\ Head(q) = q[1] /\ Head(q) \in S
      /\ \A n \in 1..Len(Tail(q)) : Tail(q)[n] = q[n + 1]
  OBVIOUS
<1>2. ASSUME NEW n \in 1..Len(q), n # 1
      PROVE  n - 1 \in 1..Len(Tail(q)) /\ Tail(q)[n - 1] = q[n]
  BY <1>1, <1>2
<1> QED
  BY <1>1, <1>2

LEMMA FrameFacts ==
    ASSUME NEW p \in Plugins
    PROVE  /\ Frame(p) \in Frames
           /\ Frame(p).plugin = p /\ Frame(p).step = "import" /\ Frame(p).deps = Deps[p]
  BY PluginAssumption DEF PluginAssumption, Frame, Frames

-----------------------------------------------------------------------------
(* The frames.                                                             *)

\* load() of a plugin that needs it begins with one frame.
LEMMA FirstFrame ==
    ASSUME NEW p \in Plugins, stack' = <<Frame(p)>>, ~loaded'[p]
    PROVE  stack' \in Seq(Frames) /\ FrameInv'
<1>1. /\ Len(stack') = 1 /\ stack' \in Seq(Frames)
      /\ stack'[1].plugin = p /\ stack'[1].step = "import" /\ stack'[1].deps = Deps[p]
  BY FrameFacts
<1>2. Deps[p] \in Seq(Plugins)
  BY PluginAssumption DEF PluginAssumption
<1>3. ImportedInv'
  BY <1>1 DEF ImportedInv
<1>4. DepsInv'
  BY <1>1, <1>2 DEF DepsInv
<1>5. RankInv'
  BY <1>1 DEF RankInv
<1> QED
  BY <1>1, <1>3, <1>4, <1>5 DEF FrameInv

\* The frame on top returns, and its caller goes on: the plugin is settled.
LEMMA FrameReturns ==
    ASSUME TypeOK, FrameInv, ~Idle, stack' = Below,
           SettledNext(Top.plugin), \A q \in Plugins : Settled(q) => SettledNext(q),
           \A q \in Plugins : q # Top.plugin => loaded'[q] = loaded[q]
    PROVE  stack' \in Seq(Frames) /\ FrameInv'
<1>1. /\ Len(stack) \in Nat /\ Len(stack) >= 1
      /\ Top = stack[Len(stack)] /\ Top.plugin \in Plugins
      /\ \A i \in 1..Len(stack) : stack[i] \in Frames
  BY TopFacts
<1>2. /\ stack' \in Seq(Frames) /\ Len(stack') = Len(stack) - 1
      /\ \A i \in 1..(Len(stack) - 1) : stack'[i] = stack[i]
  BY BelowFacts
<1>3. \A i \in 1..Len(stack) : stack[i].plugin \in Plugins
  BY <1>1 DEF Frames
<1>4. ImportedInv'
  <2> SUFFICES ASSUME NEW i \in 1..(Len(stack) - 1)
               PROVE  stack[i].step # "import"
    BY <1>2 DEF ImportedInv
  <2>1. i \in 1..Len(stack) /\ i # Len(stack)
    BY <1>1
  <2> QED
    BY <1>3, <2>1 DEF FrameInv, ImportedInv
<1>5. DepsInv'
  <2> SUFFICES ASSUME NEW i \in 1..Len(stack')
               PROVE  /\ \A n \in 1..Len(stack'[i].deps) :
                           \E m \in 1..Len(Deps[stack'[i].plugin]) :
                              stack'[i].deps[n] = Deps[stack'[i].plugin][m]
                      /\ \A m \in 1..Len(Deps[stack'[i].plugin]) :
                           \/ SettledNext(Deps[stack'[i].plugin][m])
                           \/ \E n \in 1..Len(stack'[i].deps) :
                                 stack'[i].deps[n] = Deps[stack'[i].plugin][m]
                           \/ i < Len(stack') /\ stack'[i + 1].plugin = Deps[stack'[i].plugin][m]
    BY DEF DepsInv, Settled, SettledNext
  <2>1. i \in 1..(Len(stack) - 1) /\ i \in 1..Len(stack) /\ stack'[i] = stack[i]
    BY <1>1, <1>2
  <2>2. \A n \in 1..Len(stack[i].deps) :
           \E m \in 1..Len(Deps[stack[i].plugin]) :
              stack[i].deps[n] = Deps[stack[i].plugin][m]
    BY <2>1 DEF FrameInv, DepsInv
  <2> SUFFICES ASSUME NEW m \in 1..Len(Deps[stack[i].plugin])
               PROVE  \/ SettledNext(Deps[stack[i].plugin][m])
                      \/ \E n \in 1..Len(stack[i].deps) :
                            stack[i].deps[n] = Deps[stack[i].plugin][m]
                      \/ i < Len(stack') /\ stack'[i + 1].plugin = Deps[stack[i].plugin][m]
    BY <2>1, <2>2
  <2>3. Deps[stack[i].plugin][m] \in Plugins
    BY <1>3, <2>1, PluginAssumption DEF PluginAssumption
  <2>4. CASE Settled(Deps[stack[i].plugin][m])
    BY <2>3, <2>4
  <2>5. CASE \E n \in 1..Len(stack[i].deps) : stack[i].deps[n] = Deps[stack[i].plugin][m]
    BY <2>5
  <2>6. CASE i < Len(stack) /\ stack[i + 1].plugin = Deps[stack[i].plugin][m]
    <3>1. CASE i + 1 = Len(stack)
      <4>1. Deps[stack[i].plugin][m] = Top.plugin
        BY <1>1, <2>6, <3>1
      <4> QED
        BY <4>1
    <3>2. CASE i + 1 # Len(stack)
      BY <1>1, <1>2, <2>6, <3>2
    <3> QED
      BY <3>1, <3>2
  <2> QED
    BY <2>1, <2>4, <2>5, <2>6 DEF FrameInv, DepsInv
<1>6. RankInv'
  <2> SUFFICES ASSUME NEW i \in 1..(Len(stack) - 1), stack[i].plugin \in Acyclic
               PROVE  /\ ~loaded'[stack[i].plugin]
                      /\ \A j \in (i + 1)..(Len(stack) - 1) :
                           /\ stack[j].plugin \in Acyclic
                           /\ Rank[stack[j].plugin] < Rank[stack[i].plugin]
    BY <1>1, <1>2 DEF RankInv
  <2>1. i \in 1..Len(stack) /\ Len(stack) \in (i + 1)..Len(stack)
    BY <1>1
  <2>2. /\ ~loaded[stack[i].plugin]
        /\ \A j \in (i + 1)..Len(stack) :
             /\ stack[j].plugin \in Acyclic
             /\ Rank[stack[j].plugin] < Rank[stack[i].plugin]
    BY <2>1 DEF FrameInv, RankInv
  <2>3. Top.plugin \in Acyclic /\ Rank[Top.plugin] < Rank[stack[i].plugin]
    BY <1>1, <2>1, <2>2
  <2>4. Top.plugin # stack[i].plugin
    BY <2>3, RankType
  <2>5. ~loaded'[stack[i].plugin]
    BY <1>3, <2>1, <2>2, <2>4
  <2> QED
    BY <1>1, <2>2, <2>5
<1> QED
  BY <1>2, <1>4, <1>5, <1>6 DEF FrameInv

\* What the frame on top, past its import, is about to load: a dependency of
\* its plugin, and the others are settled or come later.
LEMMA HeadFacts ==
    ASSUME TypeOK, FrameInv, At("deps"), Top.deps # <<>>
    PROVE  /\ Head(Top.deps) \in Plugins
           /\ \A n \in 1..Len(Tail(Top.deps)) :
                \E m \in 1..Len(Deps[Top.plugin]) : Tail(Top.deps)[n] = Deps[Top.plugin][m]
           /\ \A m \in 1..Len(Deps[Top.plugin]) :
                \/ Settled(Deps[Top.plugin][m])
                \/ Deps[Top.plugin][m] = Head(Top.deps)
                \/ \E n \in 1..Len(Tail(Top.deps)) : Tail(Top.deps)[n] = Deps[Top.plugin][m]
           /\ Top.plugin \in Acyclic =>
                /\ Head(Top.deps) \in Acyclic
                /\ Rank[Head(Top.deps)] < Rank[Top.plugin]
<1>1. /\ ~Idle /\ Len(stack) \in 1..Len(stack) /\ Len(stack) \in Nat
      /\ Top = stack[Len(stack)] /\ Top.deps \in Seq(Plugins)
  BY TopFacts DEF At
<1>2. /\ Len(Tail(Top.deps)) = Len(Top.deps) - 1
      /\ Len(Top.deps) \in Nat /\ Len(Top.deps) >= 1
      /\ Head(Top.deps) = Top.deps[1] /\ Head(Top.deps) \in Plugins
      /\ \A n \in 1..Len(Tail(Top.deps)) : Tail(Top.deps)[n] = Top.deps[n + 1]
      /\ \A n \in 1..Len(Top.deps) :
           Top.deps[n] = Head(Top.deps)
           \/ \E m \in 1..Len(Tail(Top.deps)) : Tail(Top.deps)[m] = Top.deps[n]
  BY <1>1, TailElements
<1>3. /\ \A n \in 1..Len(Top.deps) :
           \E m \in 1..Len(Deps[Top.plugin]) : Top.deps[n] = Deps[Top.plugin][m]
      /\ \A m \in 1..Len(Deps[Top.plugin]) :
           \/ Settled(Deps[Top.plugin][m])
           \/ \E n \in 1..Len(Top.deps) : Top.deps[n] = Deps[Top.plugin][m]
  <2>1. \A m \in 1..Len(Deps[Top.plugin]) : ~(Len(stack) < Len(stack))
    BY <1>1
  <2> QED
    BY <1>1, <2>1 DEF FrameInv, DepsInv
<1>4. \A n \in 1..Len(Tail(Top.deps)) :
        \E m \in 1..Len(Deps[Top.plugin]) : Tail(Top.deps)[n] = Deps[Top.plugin][m]
  <2> TAKE n \in 1..Len(Tail(Top.deps))
  <2>1. n + 1 \in 1..Len(Top.deps)
    BY <1>2
  <2> QED
    BY <1>2, <1>3, <2>1
<1>5. \A m \in 1..Len(Deps[Top.plugin]) :
        \/ Settled(Deps[Top.plugin][m])
        \/ Deps[Top.plugin][m] = Head(Top.deps)
        \/ \E n \in 1..Len(Tail(Top.deps)) : Tail(Top.deps)[n] = Deps[Top.plugin][m]
  BY <1>2, <1>3
<1>6. PICK m \in 1..Len(Deps[Top.plugin]) : Head(Top.deps) = Deps[Top.plugin][m]
  <2>1. 1 \in 1..Len(Top.deps)
    BY <1>2
  <2> QED
    BY <1>2, <1>3, <2>1
<1> QED
  BY <1>2, <1>4, <1>5, <1>6, RankFalls

\* The frame on top is past its import.
LEMMA StepFrames ==
    ASSUME LoaderInv, ImportModule
    PROVE  stack' \in Seq(Frames) /\ FrameInv'
<1>1. /\ ~Idle /\ Len(stack) \in Nat /\ Len(stack) >= 1
      /\ Top = stack[Len(stack)] /\ Top.plugin \in Plugins
      /\ \A i \in 1..Len(stack) : stack[i] \in Frames
      /\ TypeOK /\ FrameInv
  BY TopFacts DEF ImportModule, At, LoaderInv
<1>2. /\ stack' \in Seq(Frames) /\ Len(stack') = Len(stack)
      /\ \A i \in 1..(Len(stack) - 1) : stack'[i] = stack[i]
      /\ stack'[Len(stack)].plugin = Top.plugin
      /\ stack'[Len(stack)].deps = Top.deps
      /\ stack'[Len(stack)].step = "deps"
  BY <1>1, TopStepFacts DEF ImportModule
<1>3. \A i \in 1..Len(stack) :
        /\ stack'[i].plugin = stack[i].plugin
        /\ stack'[i].deps = stack[i].deps
        /\ stack[i].plugin \in Plugins
  <2> TAKE i \in 1..Len(stack)
  <2>1. stack[i].plugin \in Plugins
    BY <1>1 DEF Frames
  <2>2. CASE i = Len(stack)
    BY <1>1, <1>2, <2>1, <2>2
  <2>3. CASE i # Len(stack)
    <3>1. i \in 1..(Len(stack) - 1)
      BY <1>1, <2>3
    <3> QED
      BY <1>2, <2>1, <3>1
  <2> QED
    BY <2>2, <2>3
<1>4. UNCHANGED <<known, loaded, error>>
  BY DEF ImportModule
<1>6. ImportedInv'
  <2> SUFFICES ASSUME NEW i \in 1..Len(stack)
               PROVE  stack'[i].step = "import" => i = Len(stack)
    BY <1>2 DEF ImportedInv
  <2>1. CASE i = Len(stack)
    BY <1>2, <2>1
  <2>2. CASE i # Len(stack)
    BY <1>1, <1>2, <1>3, <2>2 DEF FrameInv, ImportedInv
  <2> QED
    BY <2>1, <2>2
<1>7. DepsInv'
  <2>1. \A q : Settled(q) = SettledNext(q)
    BY <1>4 DEF Settled, SettledNext
  <2> SUFFICES ASSUME NEW i \in 1..Len(stack')
               PROVE  /\ \A n \in 1..Len(stack'[i].deps) :
                           \E m \in 1..Len(Deps[stack'[i].plugin]) :
                              stack'[i].deps[n] = Deps[stack'[i].plugin][m]
                      /\ \A m \in 1..Len(Deps[stack'[i].plugin]) :
                           \/ SettledNext(Deps[stack'[i].plugin][m])
                           \/ \E n \in 1..Len(stack'[i].deps) :
                                 stack'[i].deps[n] = Deps[stack'[i].plugin][m]
                           \/ i < Len(stack') /\ stack'[i + 1].plugin = Deps[stack'[i].plugin][m]
    BY DEF DepsInv, Settled, SettledNext
  <2>2. /\ i \in 1..Len(stack)
        /\ stack'[i].plugin = stack[i].plugin /\ stack'[i].deps = stack[i].deps
        /\ i < Len(stack) => stack'[i + 1].plugin = stack[i + 1].plugin
    BY <1>1, <1>2, <1>3
  <2>3. /\ \A n \in 1..Len(stack[i].deps) :
             \E m \in 1..Len(Deps[stack[i].plugin]) :
                stack[i].deps[n] = Deps[stack[i].plugin][m]
        /\ \A m \in 1..Len(Deps[stack[i].plugin]) :
             \/ Settled(Deps[stack[i].plugin][m])
             \/ \E n \in 1..Len(stack[i].deps) :
                   stack[i].deps[n] = Deps[stack[i].plugin][m]
             \/ i < Len(stack) /\ stack[i + 1].plugin = Deps[stack[i].plugin][m]
    BY <1>1, <2>2 DEF FrameInv, DepsInv
  <2>4. Len(stack') = Len(stack)
    BY <1>2
  <2> QED
    BY <2>1, <2>2, <2>3, <2>4
<1>8. RankInv'
  BY <1>1, <1>2, <1>3, <1>4 DEF FrameInv, RankInv
<1> QED
  BY <1>2, <1>6, <1>7, <1>8 DEF FrameInv

\* There is nothing to do for the next dependency.
LEMMA SkipFrames ==
    ASSUME LoaderInv, SkipDependency
    PROVE  stack' \in Seq(Frames) /\ FrameInv'
<1>1. /\ At("deps") /\ ~Idle /\ Len(stack) \in Nat /\ Len(stack) >= 1 /\ Top.deps # <<>>
      /\ Top = stack[Len(stack)] /\ Top.step = "deps" /\ TypeOK /\ FrameInv
      /\ UNCHANGED <<known, loaded, error, module, inst>>
  BY TopFacts DEF SkipDependency, At, LoaderInv
<1>2. /\ stack' \in Seq(Frames) /\ Len(stack') = Len(stack)
      /\ \A i \in 1..(Len(stack) - 1) : stack'[i] = stack[i]
      /\ stack'[Len(stack)].plugin = Top.plugin
      /\ stack'[Len(stack)].step = "deps"
      /\ stack'[Len(stack)].deps = Tail(Top.deps)
  BY <1>1, TopDepsFacts DEF SkipDependency
<1>3. \A i \in 1..Len(stack) :
        /\ stack'[i].plugin = stack[i].plugin
        /\ stack'[i].step = stack[i].step
  <2> TAKE i \in 1..Len(stack)
  <2>1. i = Len(stack) \/ i \in 1..(Len(stack) - 1)
    BY <1>1
  <2> QED
    BY <1>1, <1>2, <2>1
<1>4. ImportedInv'
  BY <1>1, <1>2, <1>3 DEF FrameInv, ImportedInv
<1>5. DepsInv'
  <2>1. \A q : Settled(q) = SettledNext(q)
    BY <1>1 DEF Settled, SettledNext
  <2>2. SettledNext(Head(Top.deps))
    BY <2>1 DEF SkipDependency, NeedsLoad, Settled
  <2> SUFFICES ASSUME NEW i \in 1..Len(stack')
               PROVE  /\ \A n \in 1..Len(stack'[i].deps) :
                           \E m \in 1..Len(Deps[stack'[i].plugin]) :
                              stack'[i].deps[n] = Deps[stack'[i].plugin][m]
                      /\ \A m \in 1..Len(Deps[stack'[i].plugin]) :
                           \/ SettledNext(Deps[stack'[i].plugin][m])
                           \/ \E n \in 1..Len(stack'[i].deps) :
                                 stack'[i].deps[n] = Deps[stack'[i].plugin][m]
                           \/ i < Len(stack') /\ stack'[i + 1].plugin = Deps[stack'[i].plugin][m]
    BY DEF DepsInv, Settled, SettledNext
  <2>3. CASE i = Len(stack)
    <3>1. /\ \A n \in 1..Len(Tail(Top.deps)) :
               \E m \in 1..Len(Deps[Top.plugin]) : Tail(Top.deps)[n] = Deps[Top.plugin][m]
          /\ \A m \in 1..Len(Deps[Top.plugin]) :
               \/ Settled(Deps[Top.plugin][m])
               \/ Deps[Top.plugin][m] = Head(Top.deps)
               \/ \E n \in 1..Len(Tail(Top.deps)) : Tail(Top.deps)[n] = Deps[Top.plugin][m]
      BY <1>1, HeadFacts
    <3>2. stack'[i].plugin = Top.plugin /\ stack'[i].deps = Tail(Top.deps)
      BY <1>2, <2>3
    <3> QED
      BY <2>1, <2>2, <3>1, <3>2
  <2>4. CASE i # Len(stack)
    <3>1. /\ i \in 1..Len(stack) /\ stack'[i] = stack[i]
          /\ i < Len(stack) /\ stack'[i + 1].plugin = stack[i + 1].plugin
      BY <1>1, <1>2, <1>3, <2>4
    <3>2. /\ \A n \in 1..Len(stack[i].deps) :
               \E m \in 1..Len(Deps[stack[i].plugin]) :
                  stack[i].deps[n] = Deps[stack[i].plugin][m]
          /\ \A m \in 1..Len(Deps[stack[i].plugin]) :
               \/ Settled(Deps[stack[i].plugin][m])
               \/ \E n \in 1..Len(stack[i].deps) :
                     stack[i].deps[n] = Deps[stack[i].plugin][m]
               \/ i < Len(stack) /\ stack[i + 1].plugin = Deps[stack[i].plugin][m]
      BY <1>1, <3>1 DEF FrameInv, DepsInv
    <3> QED
      BY <1>2, <2>1, <3>1, <3>2
  <2> QED
    BY <2>3, <2>4
<1>6. RankInv'
  BY <1>1, <1>2, <1>3 DEF FrameInv, RankInv
<1> QED
  BY <1>2, <1>4, <1>5, <1>6 DEF FrameInv

\* The next dependency gets a frame.
LEMMA CallFrames ==
    ASSUME LoaderInv, LoadDependency
    PROVE  stack' \in Seq(Frames) /\ FrameInv'
<1> DEFINE s == [stack EXCEPT ![Len(stack)].deps = NextDeps]
           h == Head(Top.deps)
<1>1. /\ At("deps") /\ ~Idle /\ Len(stack) \in Nat /\ Len(stack) >= 1 /\ Top.deps # <<>>
      /\ Top = stack[Len(stack)] /\ Top.step = "deps" /\ TypeOK /\ FrameInv
      /\ UNCHANGED <<known, loaded, error, module, inst>>
      /\ stack' = Append(s, Frame(h)) /\ ~loaded[h]
  BY TopFacts DEF LoadDependency, At, LoaderInv, NeedsLoad
<1> HIDE DEF s
<1>2. /\ s \in Seq(Frames) /\ Len(s) = Len(stack)
      /\ \A i \in 1..(Len(stack) - 1) : s[i] = stack[i]
      /\ s[Len(stack)].plugin = Top.plugin
      /\ s[Len(stack)].step = "deps"
      /\ s[Len(stack)].deps = Tail(Top.deps)
  BY <1>1, TopDepsFacts DEF s
<1>3. /\ h \in Plugins
      /\ \A n \in 1..Len(Tail(Top.deps)) :
           \E m \in 1..Len(Deps[Top.plugin]) : Tail(Top.deps)[n] = Deps[Top.plugin][m]
      /\ \A m \in 1..Len(Deps[Top.plugin]) :
           \/ Settled(Deps[Top.plugin][m])
           \/ Deps[Top.plugin][m] = h
           \/ \E n \in 1..Len(Tail(Top.deps)) : Tail(Top.deps)[n] = Deps[Top.plugin][m]
      /\ Top.plugin \in Acyclic => h \in Acyclic /\ Rank[h] < Rank[Top.plugin]
  BY <1>1, HeadFacts
<1> HIDE DEF h
<1>4. /\ Frame(h) \in Frames /\ Frame(h).plugin = h
      /\ Frame(h).step = "import" /\ Frame(h).deps = Deps[h]
  BY <1>3, FrameFacts
<1>5. /\ stack' \in Seq(Frames) /\ Len(stack') = Len(stack) + 1
      /\ \A i \in 1..Len(stack) : stack'[i] = s[i]
      /\ stack'[Len(stack) + 1] = Frame(h)
  BY <1>1, <1>2, <1>4, AppendProperties
<1>6. /\ stack'[Len(stack)].deps = Tail(Top.deps)
      /\ \A i \in 1..(Len(stack) - 1) : stack'[i] = stack[i]
      /\ \A i \in 1..Len(stack) :
           /\ stack'[i].plugin = stack[i].plugin
           /\ stack'[i].step = stack[i].step
  <2>1. \A i \in 1..Len(stack) : i = Len(stack) \/ i \in 1..(Len(stack) - 1)
    BY <1>1
  <2>2. Len(stack) \in 1..Len(stack) /\ \A i \in 1..(Len(stack) - 1) : i \in 1..Len(stack)
    BY <1>1
  <2>3. \A i \in 1..(Len(stack) - 1) : stack'[i] = stack[i]
    BY <1>2, <1>5, <2>2
  <2>4. /\ stack'[Len(stack)].deps = Tail(Top.deps)
        /\ stack'[Len(stack)].plugin = stack[Len(stack)].plugin
        /\ stack'[Len(stack)].step = stack[Len(stack)].step
    BY <1>1, <1>2, <1>5, <2>2
  <2> QED
    BY <2>1, <2>3, <2>4
<1>7. \A i \in 1..Len(stack') : i \in 1..Len(stack) \/ i = Len(stack) + 1
  BY <1>1, <1>5
<1>8. ImportedInv'
  <2> SUFFICES ASSUME NEW i \in 1..Len(stack')
               PROVE  stack'[i].step = "import" => i = Len(stack')
    BY DEF ImportedInv
  <2>1. CASE i = Len(stack) + 1
    BY <1>4, <1>5, <2>1
  <2>2. CASE i \in 1..Len(stack)
    BY <1>1, <1>6, <2>2 DEF FrameInv, ImportedInv
  <2> QED
    BY <1>7, <2>1, <2>2
<1>9. DepsInv'
  <2>1. \A q : Settled(q) = SettledNext(q)
    BY <1>1 DEF Settled, SettledNext
  <2> SUFFICES ASSUME NEW i \in 1..Len(stack')
               PROVE  /\ \A n \in 1..Len(stack'[i].deps) :
                           \E m \in 1..Len(Deps[stack'[i].plugin]) :
                              stack'[i].deps[n] = Deps[stack'[i].plugin][m]
                      /\ \A m \in 1..Len(Deps[stack'[i].plugin]) :
                           \/ SettledNext(Deps[stack'[i].plugin][m])
                           \/ \E n \in 1..Len(stack'[i].deps) :
                                 stack'[i].deps[n] = Deps[stack'[i].plugin][m]
                           \/ i < Len(stack') /\ stack'[i + 1].plugin = Deps[stack'[i].plugin][m]
    BY DEF DepsInv, Settled, SettledNext
  <2>2. CASE i = Len(stack) + 1
    BY <1>4, <1>5, <2>2
  <2>3. CASE i = Len(stack)
    <3>1. i < Len(stack') /\ stack'[i + 1].plugin = h
      BY <1>1, <1>4, <1>5, <2>3
    <3>2. stack'[i].plugin = Top.plugin /\ stack'[i].deps = Tail(Top.deps)
      BY <1>1, <1>6, <2>3
    <3> QED
      BY <1>3, <2>1, <3>1, <3>2
  <2>4. CASE i \in 1..(Len(stack) - 1)
    <3>1. /\ i \in 1..Len(stack) /\ stack'[i] = stack[i] /\ i < Len(stack')
          /\ stack'[i + 1].plugin = stack[i + 1].plugin
      BY <1>1, <1>5, <1>6, <2>4
    <3>2. /\ \A n \in 1..Len(stack[i].deps) :
               \E m \in 1..Len(Deps[stack[i].plugin]) :
                  stack[i].deps[n] = Deps[stack[i].plugin][m]
          /\ \A m \in 1..Len(Deps[stack[i].plugin]) :
               \/ Settled(Deps[stack[i].plugin][m])
               \/ \E n \in 1..Len(stack[i].deps) :
                     stack[i].deps[n] = Deps[stack[i].plugin][m]
               \/ i < Len(stack) /\ stack[i + 1].plugin = Deps[stack[i].plugin][m]
      BY <1>1, <3>1 DEF FrameInv, DepsInv
    <3> QED
      BY <2>1, <3>1, <3>2
  <2>5. i = Len(stack) + 1 \/ i = Len(stack) \/ i \in 1..(Len(stack) - 1)
    BY <1>1, <1>7
  <2> QED
    BY <2>2, <2>3, <2>4, <2>5
<1>10. RankInv'
  <2> SUFFICES ASSUME NEW i \in 1..Len(stack'), stack'[i].plugin \in Acyclic
               PROVE  /\ ~loaded'[stack'[i].plugin]
                      /\ \A j \in (i + 1)..Len(stack') :
                           /\ stack'[j].plugin \in Acyclic
                           /\ Rank[stack'[j].plugin] < Rank[stack'[i].plugin]
    BY DEF RankInv
  <2>1. CASE i = Len(stack) + 1
    BY <1>1, <1>4, <1>5, <2>1
  <2>2. CASE i \in 1..Len(stack)
    <3>1. stack'[i].plugin = stack[i].plugin
      BY <1>6, <2>2
    <3>2. /\ ~loaded[stack[i].plugin]
          /\ \A j \in (i + 1)..Len(stack) :
               /\ stack[j].plugin \in Acyclic
               /\ Rank[stack[j].plugin] < Rank[stack[i].plugin]
      BY <1>1, <2>2, <3>1 DEF FrameInv, RankInv
    <3>3. ASSUME NEW j \in (i + 1)..Len(stack)
          PROVE  /\ stack'[j].plugin \in Acyclic
                 /\ Rank[stack'[j].plugin] < Rank[stack'[i].plugin]
      <4>1. j \in 1..Len(stack)
        BY <1>1, <2>2
      <4> QED
        BY <1>6, <3>1, <3>2, <4>1
    <3>4. h \in Acyclic /\ Rank[h] < Rank[stack[i].plugin]
      <4>1. CASE i = Len(stack)
        BY <1>1, <1>3, <3>1, <4>1
      <4>2. CASE i # Len(stack)
        <5>1. Len(stack) \in (i + 1)..Len(stack)
          BY <1>1, <2>2, <4>2
        <5>2. Top.plugin \in Acyclic /\ Rank[Top.plugin] < Rank[stack[i].plugin]
          BY <1>1, <3>2, <5>1
        <5>3. Rank[h] \in Int /\ Rank[Top.plugin] \in Int /\ Rank[stack[i].plugin] \in Int
          BY <1>3, <3>1, <5>2, RankType
        <5> QED
          BY <1>3, <5>2, <5>3
      <4> QED
        BY <4>1, <4>2
    <3>5. \A j \in (i + 1)..Len(stack') : j \in (i + 1)..Len(stack) \/ j = Len(stack) + 1
      BY <1>1, <1>5, <2>2
    <3> QED
      BY <1>1, <1>4, <1>5, <3>1, <3>2, <3>3, <3>4, <3>5
  <2> QED
    BY <1>7, <2>1, <2>2
<1> QED
  BY <1>5, <1>8, <1>9, <1>10 DEF FrameInv

-----------------------------------------------------------------------------
(* The steps of load().                                                    *)

LEMMA ImportStep ==
    ASSUME LoaderInv, ImportModule
    PROVE  LoaderInv'
<1>1. /\ ~Idle /\ Top.plugin \in Plugins /\ Top = stack[Len(stack)]
      /\ Len(stack) \in 1..Len(stack) /\ Top.step = "import"
      /\ TypeOK /\ HookCalledOnce /\ FrameInv
  BY TopFacts DEF ImportModule, At, LoaderInv
<1> DEFINE t == Top.plugin
<1>2. /\ sysmods' = [sysmods EXCEPT ![Entry[t]] = Imported(t)]
      /\ module' = [module EXCEPT ![t] = TRUE]
      /\ inst' = [inst EXCEPT ![t] = Imported(t)]
      /\ UNCHANGED <<known, loaded, error, hooks>>
  BY DEF ImportModule
<1> HIDE DEF t
<1>3. t \in Plugins /\ Entry[t] \in Entries /\ Imported(t) \in Plugins
  BY <1>1 DEF t, Entries, Imported, TypeOK
<1>4. stack' \in Seq(Frames) /\ FrameInv'
  BY StepFrames
<1>5. TypeOK'
  BY <1>1, <1>2, <1>3, <1>4 DEF TypeOK
<1>6. HookCalledOnce'
  BY <1>1, <1>2 DEF HookCalledOnce
<1> QED
  BY <1>4, <1>5, <1>6 DEF LoaderInv

LEMMA ImportFailStep ==
    ASSUME LoaderInv, ImportRaises \/ RecursionEnds
    PROVE  LoaderInv'
<1>1. /\ ~Idle /\ Top.plugin \in Plugins
      /\ TypeOK /\ HookCalledOnce /\ FrameInv
  BY TopFacts DEF ImportRaises, RecursionEnds, At, LoaderInv
<1> DEFINE t == Top.plugin
<1>2. /\ error' = [error EXCEPT ![t] = TRUE] /\ stack' = Below
      /\ UNCHANGED <<known, loaded, inst, module, sysmods, hooks>>
  BY DEF ImportRaises, RecursionEnds, Fails
<1>3. stack' \in Seq(Frames) /\ FrameInv'
  <2>1. SettledNext(Top.plugin) /\ \A q \in Plugins : Settled(q) => SettledNext(q)
    BY <1>1, <1>2 DEF Settled, SettledNext, TypeOK
  <2> QED
    BY <1>1, <1>2, <2>1, FrameReturns
<1>4. TypeOK'
  BY <1>1, <1>2, <1>3 DEF TypeOK
<1>5. HookCalledOnce'
  BY <1>1, <1>2 DEF HookCalledOnce
<1> QED
  BY <1>3, <1>4, <1>5 DEF LoaderInv

LEMMA ConstructorFailStep ==
    ASSUME LoaderInv, ConstructorRaises
    PROVE  LoaderInv'
<1>1. /\ ~Idle /\ Top.plugin \in Plugins
      /\ TypeOK /\ HookCalledOnce /\ FrameInv
  BY TopFacts DEF ConstructorRaises, At, LoaderInv
<1> DEFINE t == Top.plugin
<1>2. /\ error' = [error EXCEPT ![t] = TRUE] /\ stack' = Below
      /\ sysmods' = [sysmods EXCEPT ![Entry[t]] = Imported(t)]
      /\ module' = [module EXCEPT ![t] = TRUE]
      /\ UNCHANGED <<known, loaded, inst, hooks>>
  BY DEF ConstructorRaises, Fails
<1>3. t \in Plugins /\ Entry[t] \in Entries /\ Imported(t) \in Plugins
  BY <1>1 DEF Entries, Imported, TypeOK
<1>4. stack' \in Seq(Frames) /\ FrameInv'
  <2>1. SettledNext(Top.plugin) /\ \A q \in Plugins : Settled(q) => SettledNext(q)
    BY <1>1, <1>2 DEF Settled, SettledNext, TypeOK
  <2> QED
    BY <1>1, <1>2, <2>1, FrameReturns
<1> HIDE DEF t
<1>5. TypeOK'
  BY <1>1, <1>2, <1>3, <1>4 DEF TypeOK
<1>6. HookCalledOnce'
  BY <1>1, <1>2 DEF HookCalledOnce
<1> QED
  BY <1>4, <1>5, <1>6 DEF LoaderInv

LEMMA DependencyStep ==
    ASSUME LoaderInv, SkipDependency \/ LoadDependency
    PROVE  LoaderInv'
<1>1. /\ TypeOK /\ HookCalledOnce
      /\ UNCHANGED <<known, loaded, inst, module, error, sysmods, hooks>>
  BY DEF SkipDependency, LoadDependency, LoaderInv
<1>2. stack' \in Seq(Frames) /\ FrameInv'
  BY SkipFrames, CallFrames
<1>3. TypeOK'
  BY <1>1, <1>2 DEF TypeOK
<1>4. HookCalledOnce'
  BY <1>1 DEF HookCalledOnce
<1> QED
  BY <1>2, <1>3, <1>4 DEF LoaderInv

\* A frame that is done with its dependencies has not been loaded before: its
\* plugin could have been loaded only by a frame above it, of a lower rank.
LEMMA FinishStep ==
    ASSUME LoaderInv, Finish
    PROVE  LoaderInv'
<1>1. /\ ~Idle /\ Top.plugin \in Plugins /\ Top = stack[Len(stack)] /\ Top.step = "deps"
      /\ Len(stack) \in 1..Len(stack)
      /\ TypeOK /\ HookCalledOnce /\ FrameInv
  BY TopFacts DEF Finish, DepsDone, At, LoaderInv
<1> DEFINE t == Top.plugin
<1>2. /\ loaded' = [loaded EXCEPT ![t] = TRUE]
      /\ hooks' = [hooks EXCEPT ![t] = @ + 1]
      /\ stack' = Below
      /\ error' = error \/ error' = [error EXCEPT ![t] = TRUE]
      /\ UNCHANGED <<known, inst, module, sysmods>>
  BY DEF Finish, Fails
<1>3. stack' \in Seq(Frames) /\ FrameInv'
  <2>1. SettledNext(Top.plugin) /\ \A q \in Plugins : Settled(q) => SettledNext(q)
    BY <1>1, <1>2 DEF Settled, SettledNext, TypeOK
  <2>2. \A q \in Plugins : q # Top.plugin => loaded'[q] = loaded[q]
    BY <1>1, <1>2 DEF TypeOK
  <2> QED
    BY <1>1, <1>2, <2>1, <2>2, FrameReturns
<1>4. t \in Acyclic => ~loaded[t]
  BY <1>1 DEF FrameInv, RankInv
<1>6. t \in Plugins
  BY <1>1
<1> HIDE DEF t
<1>7. TypeOK'
  <2>1. hooks[t] + 1 \in Nat
    BY <1>1, <1>6 DEF TypeOK
  <2>2. hooks' \in [Plugins -> Nat]
    BY <1>1, <1>2, <2>1 DEF TypeOK
  <2>3. loaded' \in [Plugins -> BOOLEAN] /\ error' \in [Plugins -> BOOLEAN]
    BY <1>1, <1>2 DEF TypeOK
  <2> QED
    BY <1>1, <1>2, <1>3, <2>2, <2>3 DEF TypeOK
<1>8. HookCalledOnce'
  <2> SUFFICES ASSUME NEW p \in Acyclic
               PROVE  hooks'[p] <= 1 /\ (hooks'[p] = 1 <=> loaded'[p])
    BY DEF HookCalledOnce
  <2>1. p \in Plugins /\ hooks[p] \in Nat /\ hooks[p] <= 1 /\ (hooks[p] = 1 <=> loaded[p])
    BY <1>1, RankFalls DEF HookCalledOnce, TypeOK
  <2>2. CASE p = t
    <3>1. hooks[p] = 0
      BY <1>4, <2>1, <2>2
    <3>2. hooks'[p] = 1 /\ loaded'[p]
      BY <1>1, <1>2, <2>1, <2>2, <3>1 DEF TypeOK
    <3> QED
      BY <3>2
  <2>3. CASE p # t
    <3>1. hooks'[p] = hooks[p] /\ loaded'[p] = loaded[p]
      BY <1>1, <1>2, <2>1, <2>3 DEF TypeOK
    <3> QED
      BY <2>1, <3>1
  <2> QED
    BY <2>2, <2>3
<1> QED
  BY <1>3, <1>7, <1>8 DEF LoaderInv

-----------------------------------------------------------------------------
(* The calls from outside, when no load() is under way.                    *)

LEMMA DiscoverStep ==
    ASSUME LoaderInv, Discover
    PROVE  LoaderInv'
<1>1. TypeOK /\ HookCalledOnce
  BY DEF LoaderInv
<1>2. stack' = <<>>
  BY DEF Discover, Idle
<1>3. FrameInv'
  BY <1>2 DEF FrameInv, ImportedInv, DepsInv, RankInv
<1>4. TypeOK'
  BY <1>1, PluginAssumption DEF TypeOK, Discover, StillLoaded, PluginAssumption
<1>5. HookCalledOnce'
  <2> SUFFICES ASSUME NEW p \in Acyclic
               PROVE  hooks'[p] <= 1 /\ (hooks'[p] = 1 <=> loaded'[p])
    BY DEF HookCalledOnce
  <2>1. p \in Plugins /\ hooks[p] <= 1 /\ (hooks[p] = 1 <=> loaded[p])
    BY <1>1, RankFalls DEF HookCalledOnce
  <2>2. /\ hooks'[p] = IF p \in Installed THEN 0 ELSE hooks[p]
        /\ loaded'[p] = (p \notin Installed /\ loaded[p])
    BY <2>1 DEF Discover, StillLoaded
  <2>3. CASE p \in Installed
    <3>1. hooks'[p] = 0 /\ ~loaded'[p]
      BY <2>2, <2>3
    <3> QED
      BY <3>1
  <2>4. CASE p \notin Installed
    <3>1. hooks'[p] = hooks[p] /\ (loaded'[p] <=> loaded[p])
      BY <2>2, <2>4
    <3> QED
      BY <2>1, <3>1
  <2> QED
    BY <2>3, <2>4
<1> QED
  BY <1>3, <1>4, <1>5 DEF LoaderInv

LEMMA LoadCallStep ==
    ASSUME LoaderInv, NEW p \in Plugins, Load(p)
    PROVE  LoaderInv'
<1>1. /\ TypeOK /\ HookCalledOnce
      /\ stack' = <<Frame(p)>> /\ ~loaded'[p]
      /\ UNCHANGED <<known, loaded, inst, module, error, sysmods, hooks>>
  BY DEF LoaderInv, Load, NeedsLoad
<1>2. stack' \in Seq(Frames) /\ FrameInv'
  BY <1>1, FirstFrame
<1>3. TypeOK'
  BY <1>1, <1>2 DEF TypeOK
<1>4. HookCalledOnce'
  BY <1>1 DEF HookCalledOnce
<1> QED
  BY <1>2, <1>3, <1>4 DEF LoaderInv

\* unload(), and the part of reload() before its load().
LEMMA ReleaseFacts ==
    ASSUME LoaderInv, NEW p \in Plugins, Release(p), UNCHANGED <<known, error>>
    PROVE  /\ HookCalledOnce'
           /\ stack' \in Seq(Frames) => TypeOK'
           /\ ~loaded'[p]
<1>1. /\ TypeOK /\ HookCalledOnce
      /\ Entry[p] \in Entries
  BY DEF LoaderInv, Entries
<1>2. HookCalledOnce'
  BY <1>1, RankFalls DEF HookCalledOnce, Release, TypeOK
<1>5. stack' \in Seq(Frames) => TypeOK'
  BY <1>1 DEF TypeOK, Release
<1>6. ~loaded'[p]
  BY <1>1 DEF TypeOK, Release
<1> QED
  BY <1>2, <1>5, <1>6

LEMMA UnloadStep ==
    ASSUME LoaderInv, NEW p \in Plugins, Unload(p) \/ Reload(p)
    PROVE  LoaderInv'
<1>1. /\ Release(p) /\ UNCHANGED <<known, error>>
      /\ stack' = <<>> \/ stack' = <<Frame(p)>>
  BY DEF Unload, Reload, Idle
<1>2. /\ HookCalledOnce'
      /\ stack' \in Seq(Frames) => TypeOK'
      /\ ~loaded'[p]
  BY <1>1, ReleaseFacts
<1>3. stack' \in Seq(Frames) /\ FrameInv'
  <2>1. CASE stack' = <<>>
    BY <2>1 DEF FrameInv, ImportedInv, DepsInv, RankInv
  <2>2. CASE stack' = <<Frame(p)>>
    BY <1>2, <2>2, FirstFrame
  <2> QED
    BY <1>1, <2>1, <2>2
<1> QED
  BY <1>2, <1>3 DEF LoaderInv

-----------------------------------------------------------------------------
(* The theorems.                                                           *)

LEMMA LoaderInvInit == Init => LoaderInv
<1> SUFFICES ASSUME Init PROVE LoaderInv
  OBVIOUS
<1>1. TypeOK
  BY DEF Init, TypeOK
<1>2. HookCalledOnce
  BY RankFalls DEF Init, HookCalledOnce
<1>4. FrameInv
  BY DEF Init, FrameInv, ImportedInv, DepsInv, RankInv
<1> QED
  BY <1>1, <1>2, <1>4 DEF LoaderInv

LEMMA LoaderInvNext == LoaderInv /\ [Next]_vars => LoaderInv'
<1> SUFFICES ASSUME LoaderInv, [Next]_vars PROVE LoaderInv'
  OBVIOUS
<1>1. CASE Discover
  BY <1>1, DiscoverStep
<1>2. CASE ImportModule
  BY <1>2, ImportStep
<1>3. CASE ImportRaises \/ RecursionEnds
  BY <1>3, ImportFailStep
<1>4. CASE ConstructorRaises
  BY <1>4, ConstructorFailStep
<1>5. CASE SkipDependency \/ LoadDependency
  BY <1>5, DependencyStep
<1>6. CASE Finish
  BY <1>6, FinishStep
<1>7. ASSUME NEW p \in Plugins, Load(p)
      PROVE  LoaderInv'
  BY <1>7, LoadCallStep
<1>8. ASSUME NEW p \in Plugins, Unload(p) \/ Reload(p)
      PROVE  LoaderInv'
  BY <1>8, UnloadStep
<1>9. CASE UNCHANGED vars
  <2>1. UNCHANGED <<known, loaded, inst, module, error, sysmods, stack, hooks>>
    BY <1>9 DEF vars
  <2>2. TypeOK'
    BY <2>1 DEF LoaderInv, TypeOK
  <2>3. HookCalledOnce'
    BY <2>1 DEF LoaderInv, HookCalledOnce
  <2>4. FrameInv'
    <3>1. ImportedInv' /\ RankInv'
      BY <2>1 DEF LoaderInv, FrameInv, ImportedInv, RankInv
    <3>2. DepsInv'
      BY <2>1 DEF LoaderInv, FrameInv, DepsInv, Settled
    <3> QED
      BY <3>1, <3>2 DEF FrameInv
  <2> QED
    BY <2>2, <2>3, <2>4 DEF LoaderInv
<1> QED
  BY <1>1, <1>2, <1>3, <1>4, <1>5, <1>6, <1>7, <1>8, <1>9 DEF Next, LoadStep

\* Along every run of discover(), load(), unload() and reload(), whichever
\* plugin code raises and wherever cycles end in a RecursionError.
THEOREM LoaderInvariance == Spec => []LoaderInv
<1>1. Init => LoaderInv
  BY LoaderInvInit
<1>2. LoaderInv /\ [Next]_vars => LoaderInv'
  BY LoaderInvNext
<1> QED
  BY <1>1, <1>2, PTL DEF Spec

\* The state of the loader is what plugin_loader.py means it to be.
THEOREM LoaderTypes == Spec => []TypeOK
<1>1. LoaderInv => TypeOK
  BY DEF LoaderInv
<1> QED
  BY <1>1, LoaderInvariance, PTL

\* A plugin without cyclic dependencies gets on_load once per load.
THEOREM OneHookPerLoad == Spec => []HookCalledOnce
<1>1. LoaderInv => HookCalledOnce
  BY DEF LoaderInv
<1> QED
  BY <1>1, LoaderInvariance, PTL

\* on_load is called when load() has been through with the dependencies.
LEMMA HookAfterDependencies ==
    ASSUME LoaderInv, [Next]_vars, NEW p \in Acyclic, hooks'[p] > hooks[p],
           NEW i \in 1..Len(Deps[p])
    PROVE  Settled(Deps[p][i])
<1>1. p \in Plugins /\ hooks[p] \in Nat
  BY RankFalls DEF LoaderInv, TypeOK
<1>2. ~(hooks'[p] = hooks[p]) /\ ~(hooks'[p] = 0)
  BY <1>1
<1>3. ~Discover /\ \A q \in Plugins : ~Release(q)
  BY <1>1, <1>2 DEF Discover, Release, LoaderInv, TypeOK
<1>4. Finish
  BY <1>2, <1>3 DEF Next, LoadStep, vars, ImportModule, ImportRaises, ConstructorRaises,
                    SkipDependency, LoadDependency, RecursionEnds, Load, Unload, Reload
<1>5. /\ ~Idle /\ Len(stack) \in 1..Len(stack) /\ Len(stack) \in Nat
      /\ Top = stack[Len(stack)] /\ Top.deps = <<>> /\ FrameInv
  BY <1>4, TopFacts DEF Finish, DepsDone, At, LoaderInv
<1>6. p = Top.plugin
  BY <1>1, <1>2, <1>4 DEF Finish, LoaderInv, TypeOK
<1>7. ~(Len(stack) < Len(stack)) /\ \A n \in 1..Len(Top.deps) : FALSE
  BY <1>5
<1> QED
  BY <1>5, <1>6, <1>7 DEF FrameInv, DepsInv

\* on_load of a plugin runs after its dependencies: each one is loaded, or
\* failed to load, or was never discovered.
THEOREM HooksInOrder == Spec => DependenciesFirst
<1>1. LoaderInv /\ [Next]_vars =>
        [\A p \in Acyclic : hooks'[p] > hooks[p] =>
           \A i \in 1..Len(Deps[p]) :
              loaded[Deps[p][i]] \/ error[Deps[p][i]] \/ Deps[p][i] \notin known]_vars
  BY HookAfterDependencies DEF Settled
<1> QED
  BY <1>1, LoaderInvariance, PTL DEF Spec, DependenciesFirst


-----------------------------------------------------------------------------
(* The depth of the recursion.                                             *)

\* load() never runs inside itself for a plugin without cyclic dependencies,
\* so that only cycles can exhaust the recursion limit, and the limit, which
\* ends those, is never passed.
RecursionIsBounded ==
    /\ Len(stack) <= MaxDepth
    /\ \A i, j \in 1..Len(stack) :
          i < j /\ stack[i].plugin \in Acyclic => stack[j].plugin # stack[i].plugin

\* The stack grows by a frame in LoadDependency alone, below the limit.
DepthInv == Len(stack) <= MaxDepth

LEMMA DepthStep ==
    ASSUME TypeOK, DepthInv, [Next]_vars
    PROVE  DepthInv'
<1>1. MaxDepth \in Nat /\ MaxDepth >= 1 /\ Len(stack) \in Nat
  BY PluginAssumption DEF PluginAssumption, TypeOK
<1>2. CASE stack' = stack
  BY <1>2 DEF DepthInv
<1>3. ASSUME NEW p, stack' = <<Frame(p)>>
      PROVE  DepthInv'
  BY <1>1, <1>3 DEF DepthInv
<1>4. CASE ~Idle /\ stack' = Below
  <2>1. Len(stack') = Len(stack) - 1
    BY <1>4, BelowFacts
  <2> QED
    BY <1>1, <2>1 DEF DepthInv
<1>5. CASE ~Idle /\ stack' = [stack EXCEPT ![Len(stack)].step = "deps"]
  <2>1. Len(stack') = Len(stack)
    BY <1>5, TopStepFacts
  <2> QED
    BY <2>1 DEF DepthInv
<1>6. ASSUME NEW s, ~Idle, Top.deps # <<>>, s = [stack EXCEPT ![Len(stack)].deps = NextDeps]
      PROVE  s \in Seq(Frames) /\ Len(s) = Len(stack)
  BY <1>6, TopDepsFacts
<1>7. CASE SkipDependency
  <2>1. Len(stack') = Len(stack)
    BY <1>6, <1>7 DEF SkipDependency, At
  <2> QED
    BY <2>1 DEF DepthInv
<1>8. CASE LoadDependency
  <2> DEFINE s == [stack EXCEPT ![Len(stack)].deps = NextDeps]
             f == Frame(Head(Top.deps))
  <2>1. s \in Seq(Frames) /\ Len(s) = Len(stack)
    BY <1>6, <1>8 DEF LoadDependency, At
  <2>2. stack' = Append(s, f) /\ Len(stack) < MaxDepth
    BY <1>8 DEF LoadDependency
  <2> HIDE DEF s, f
  <2>3. Len(stack') = Len(stack) + 1
    BY <2>1, <2>2
  <2> QED
    BY <1>1, <2>2, <2>3 DEF DepthInv
<1>9. CASE Discover \/ UNCHANGED vars \/ \E p \in Plugins : Unload(p)
  BY <1>2, <1>9 DEF Discover, vars, Unload
<1>10. ASSUME NEW p \in Plugins, Load(p) \/ Reload(p)
       PROVE  DepthInv'
  BY <1>3, <1>10 DEF Load, Reload
<1>11. CASE ImportModule
  BY <1>5, <1>11 DEF ImportModule, At
<1>12. CASE ImportRaises \/ ConstructorRaises \/ RecursionEnds
  BY <1>4, <1>12 DEF ImportRaises, ConstructorRaises, RecursionEnds, Fails, At
<1>13. CASE Finish
  BY <1>4, <1>13 DEF Finish, DepsDone, Fails, At
<1> QED
  BY <1>7, <1>8, <1>9, <1>10, <1>11, <1>12, <1>13 DEF Next, LoadStep

\* load() does not recurse deeper than Python lets it, and never into a plugin
\* that it is loading, unless the dependencies of that one are cyclic.
THEOREM RecursionStaysBounded == Spec => []RecursionIsBounded
<1>1. Init => DepthInv
  BY PluginAssumption DEF Init, DepthInv, PluginAssumption
<1>2. TypeOK /\ DepthInv /\ [Next]_vars => DepthInv'
  BY DepthStep
<1>3. LoaderInv /\ DepthInv => RecursionIsBounded
  <2> SUFFICES ASSUME LoaderInv,
                      NEW i \in 1..Len(stack), NEW j \in 1..Len(stack),
                      i < j, stack[i].plugin \in Acyclic
               PROVE  stack[j].plugin # stack[i].plugin
    BY DEF RecursionIsBounded, DepthInv
  <2>1. j \in (i + 1)..Len(stack)
    BY DEF LoaderInv, TypeOK
  <2>2. Rank[stack[j].plugin] < Rank[stack[i].plugin] /\ Rank[stack[i].plugin] \in Int
    BY <2>1, RankType DEF LoaderInv, FrameInv, RankInv
  <2> QED
    BY <2>2
<1>4. LoaderInv => TypeOK
  BY DEF LoaderInv
<1> QED
  BY <1>1, <1>2, <1>3, <1>4, LoaderInvariance, PTL DEF Spec
=============================================================================
