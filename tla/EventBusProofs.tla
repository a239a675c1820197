---------------------------- MODULE EventBusProofs ----------------------------
(***************************************************************************)
(* EventBus, for any subscribers, publications, priorities and filters:    *)
(* once-only subscribers, and what makes publish() raise.                  *)
(***************************************************************************)
EXTENDS EventBus, TLAPS

LEMMA InitDispatchInv == BusInit => DispatchInv
<1> SUFFICES ASSUME BusInit
             PROVE  DispatchInv
  OBVIOUS
<1>1. BusTypeOK
  BY EventBusAssumption DEF EventBusAssumption, BusInit, BusTypeOK
<1>2. OnlyCancelledEscapes
  BY DEF BusInit, OnlyCancelledEscapes
<1> QED
  BY <1>1, <1>2 DEF BusInit, DispatchInv

\* What publish() does up to its gather, whoever calls it.
LEMMA GatherTypes ==
    ASSUME BusTypeOK, NEW p \in Pubs, Gather(p), maker' \in [Pubs -> SUBSET (Pubs \X Subs)]
    PROVE  BusTypeOK'
<1> USE DEF BusTypeOK, Gather
<1>1. Matching(p) \subseteq Subs
  BY DEF Matching
<1>2. target' \in [Pubs -> SUBSET Subs] /\ todo' \in [Pubs -> SUBSET Subs]
  BY <1>1
<1>3. sub' \in [Subs -> {"new", "on", "off"}]
  OBVIOUS
<1>4. pub' \in [Pubs -> {"new", "gather", "returned", "raised"}]
  OBVIOUS
<1>5. history' \in 0..MaxHistory
  BY EventBusAssumption DEF EventBusAssumption, Record
<1> QED
  BY <1>2, <1>3, <1>4, <1>5

LEMMA NextTypeOK == BusTypeOK /\ [BusNext]_busVars => BusTypeOK'
<1> SUFFICES ASSUME BusTypeOK, [BusNext]_busVars
             PROVE  BusTypeOK'
  OBVIOUS
<1> USE EventBusAssumption DEF EventBusAssumption, BusTypeOK
<1>1. ASSUME NEW s \in Subs, Subscribe(s) \/ Unsubscribe(s)
      PROVE  BusTypeOK'
  BY <1>1 DEF Subscribe, Unsubscribe
<1>2. ASSUME NEW p \in Pubs, Publish(p)
      PROVE  BusTypeOK'
  BY <1>2, GatherTypes DEF Publish
<1>3. ASSUME NEW p \in Pubs, NEW s \in Subs, PublishWithin(p, s)
      PROVE  BusTypeOK'
  <2>1. Emits[s] \in Pubs
    BY <1>3 DEF PublishWithin
  <2>2. maker' \in [Pubs -> SUBSET (Pubs \X Subs)]
    BY <1>3, <2>1 DEF PublishWithin
  <2> QED
    BY <1>3, <2>1, <2>2, GatherTypes DEF PublishWithin
<1>4. ASSUME NEW p \in Pubs, PublishReturns(p)
      PROVE  BusTypeOK'
  BY <1>4 DEF PublishReturns
<1>5. ASSUME NEW p \in Pubs, NEW s \in Subs, TaskStarts(p, s)
      PROVE  BusTypeOK'
  <2>1. todo' \in [Pubs -> SUBSET Subs]
    BY <1>5 DEF TaskStarts
  <2>2. active' \subseteq Pubs \X Subs /\ called' \subseteq Pubs \X Subs
    BY <1>5 DEF TaskStarts
  <2> QED
    BY <1>5, <2>1, <2>2 DEF TaskStarts
<1>6. ASSUME NEW p \in Pubs, NEW s \in Subs, HandlerEnds(p, s)
      PROVE  BusTypeOK'
  <2>1. CASE HandlerReturns(p, s) \/ HandlerFails(p, s)
    BY <2>1 DEF HandlerReturns, HandlerFails
  <2>2. CASE Escapes(p, s)
    BY <2>2 DEF Escapes
  <2> QED
    BY <1>6, <2>1, <2>2 DEF HandlerEnds, HandlerRaisesCancelled, HandlerIsStruck
<1>7. CASE ClearHistory
  BY <1>7 DEF ClearHistory
<1>8. CASE UNCHANGED busVars
  BY <1>8 DEF busVars
<1> QED
  BY <1>1, <1>2, <1>3, <1>4, <1>5, <1>6, <1>7, <1>8 DEF BusNext, DispatchStep

-----------------------------------------------------------------------------
(* The steps that can disturb the snapshots, or what is said of exceptions. *)

\* A publication takes the once-only subscribers of its snapshot out of the
\* table, and nothing has escaped from it yet.
LEMMA GatherInv ==
    ASSUME DispatchInv, NEW p \in Pubs, Gather(p), BusTypeOK',
           \A q \in Pubs : q # p => maker'[q] = maker[q]
    PROVE  DispatchInv'
<1> USE DEF DispatchInv, BusTypeOK
<1>1. /\ target' = [target EXCEPT ![p] = Matching(p)]
      /\ todo' = [todo EXCEPT ![p] = Matching(p)]
      /\ sub' = [s \in Subs |-> IF s \in Consumed(p) THEN "off" ELSE sub[s]]
      /\ pub' = [pub EXCEPT ![p] = IF Matching(p) = {} THEN "returned" ELSE "gather"]
      /\ UNCHANGED <<active, called, escaped>>
      /\ pub[p] = "new"
  BY DEF Gather
<1>2. /\ Matching(p) \subseteq Subs
      /\ \A s \in Matching(p) : sub[s] = "on"
      /\ Consumed(p) = Matching(p) \intersect Once
  BY DEF Matching, Consumed
<1>3. \A s \in Subs : s \notin target[p] /\ <<p, s>> \notin called /\ <<p, s>> \notin active
  BY <1>1
<1>4. \A q, r \in Pubs : target'[q] \intersect target'[r] \intersect Once # {} => q = r
  BY <1>1, <1>2
<1>5. \A q \in Pubs : \A s \in target'[q] \intersect Once : sub'[s] = "off"
  BY <1>1, <1>2
<1>6. ASSUME NEW q \in Pubs, NEW s \in Subs
      PROVE  /\ <<q, s>> \in active' => <<q, s>> \in called' /\ pub'[q] \in {"gather", "raised"}
             /\ <<q, s>> \in called' => s \in target'[q]
             /\ s \in todo'[q] => s \in target'[q]
             /\ pub'[q] = "new" => s \notin target'[q]
             /\ pub'[q] = "returned" => s \notin todo'[q]
  <2>1. CASE q = p
    BY <1>1, <1>2, <1>3, <2>1
  <2>2. CASE q # p
    BY <1>1, <2>2
  <2> QED
    BY <2>1, <2>2
<1>7. OnlyCancelledEscapes'
  <2>1. \A q \in Pubs : (pub'[q] = "raised") = (pub[q] = "raised")
    BY <1>1
  <2>2. \A q \in Pubs : pub[q] = "raised" => maker'[q] = maker[q]
    BY <1>1
  <2>3. \A q \in Pubs, s \in Subs : Made(q, s, "raised") => Made(q, s, "raised")'
    BY <2>1, <2>2 DEF Made
  <2> QED
    BY <1>1, <2>1, <2>3 DEF OnlyCancelledEscapes
<1> QED
  BY <1>4, <1>5, <1>6, <1>7

\* An exception leaves the call of a handler that raised it, or was given it by
\* the publication it awaited.
LEMMA EscapesInv ==
    ASSUME DispatchInv, NEW p \in Pubs, NEW s \in Subs, <<p, s>> \in active,
           s \in Unruly \/ Made(p, s, "raised"), Escapes(p, s), BusTypeOK'
    PROVE  DispatchInv'
<1> USE DEF DispatchInv, BusTypeOK
<1>1. /\ active' = active \ {<<p, s>>}
      /\ escaped' = escaped \union {<<p, s>>}
      /\ pub' = [pub EXCEPT ![p] = "raised"]
      /\ UNCHANGED <<sub, maker, target, todo, called>>
  BY DEF Escapes
<1>2. pub[p] \in {"gather", "raised"} /\ pub'[p] = "raised"
  BY <1>1
<1>3. \A q \in Pubs, x \in Subs : Made(q, x, "raised") => Made(q, x, "raised")'
  BY <1>1, <1>2 DEF Made
<1>4. OnlyCancelledEscapes'
  <2>1. \A q \in Pubs : pub'[q] = "raised" <=> \E x \in Subs : <<q, x>> \in escaped'
    BY <1>1, <1>2 DEF OnlyCancelledEscapes
  <2>2. \A q \in Pubs, x \in Subs :
          <<q, x>> \in escaped' => x \in Unruly \/ Made(q, x, "raised")'
    BY <1>1, <1>3 DEF OnlyCancelledEscapes
  <2>3. \E q \in Pubs, x \in Unruly : <<q, x>> \in escaped'
    <3>1. CASE s \in Unruly
      BY <1>1, <3>1
    <3>2. CASE Made(p, s, "raised")
      BY <1>1, <3>2 DEF Made, OnlyCancelledEscapes
    <3> QED
      BY <3>1, <3>2
  <2> QED
    BY <2>1, <2>2, <2>3 DEF OnlyCancelledEscapes
<1>5. ASSUME NEW q \in Pubs, NEW x \in Subs
      PROVE  /\ <<q, x>> \in active' => <<q, x>> \in called' /\ pub'[q] \in {"gather", "raised"}
             /\ <<q, x>> \in called' => x \in target'[q]
             /\ x \in todo'[q] => x \in target'[q]
             /\ pub'[q] = "new" => x \notin target'[q]
             /\ pub'[q] = "returned" => x \notin todo'[q]
  BY <1>1, <1>2
<1> QED
  BY <1>1, <1>4, <1>5

\* The steps that neither make a publication raise nor take it back.
LEMMA KeepsCancelledEscapes ==
    ASSUME OnlyCancelledEscapes, UNCHANGED <<maker, escaped>>,
           \A q \in Pubs : (pub'[q] = "raised") = (pub[q] = "raised")
    PROVE  OnlyCancelledEscapes'
<1>1. \A q \in Pubs, x \in Subs : Made(q, x, "raised") => Made(q, x, "raised")'
  BY DEF Made
<1> QED
  BY <1>1 DEF OnlyCancelledEscapes

LEMMA NextDispatchInv == DispatchInv /\ [BusNext]_busVars => DispatchInv'
<1> SUFFICES ASSUME DispatchInv, [BusNext]_busVars
             PROVE  DispatchInv'
  OBVIOUS
<1>1. BusTypeOK'
  BY NextTypeOK DEF DispatchInv
<1> USE <1>1 DEF DispatchInv
<1>2. ASSUME NEW s \in Subs, Subscribe(s) \/ Unsubscribe(s)
      PROVE  DispatchInv'
  <2>1. OnlyCancelledEscapes'
    BY <1>2, KeepsCancelledEscapes DEF Subscribe, Unsubscribe
  <2> QED
    BY <1>2, <2>1 DEF Subscribe, Unsubscribe, BusTypeOK
<1>3. ASSUME NEW p \in Pubs, PublishReturns(p)
      PROVE  DispatchInv'
  <2>1. OnlyCancelledEscapes'
    <3>1. \A q \in Pubs : (pub'[q] = "raised") = (pub[q] = "raised")
      BY <1>3 DEF PublishReturns, BusTypeOK
    <3> QED
      BY <1>3, <3>1, KeepsCancelledEscapes DEF PublishReturns
  <2> QED
    BY <1>3, <2>1 DEF PublishReturns, BusTypeOK
<1>4. ASSUME NEW p \in Pubs, NEW s \in Subs, TaskStarts(p, s)
      PROVE  DispatchInv'
  <2>1. /\ s \in todo[p]
        /\ todo' = [todo EXCEPT ![p] = @ \ {s}]
        /\ UNCHANGED <<sub, pub, maker, target, escaped>>
        /\ p \in Accepts[s] => active' = active \union {<<p, s>>}
                                 /\ called' = called \union {<<p, s>>}
        /\ p \notin Accepts[s] => UNCHANGED <<active, called>>
    BY <1>4 DEF TaskStarts, First
  <2>2. pub[p] \in {"gather", "raised"}
    BY <2>1 DEF BusTypeOK
  <2>3. ASSUME NEW q \in Pubs, NEW x \in Subs
        PROVE  /\ <<q, x>> \in active' =>
                    <<q, x>> \in called' /\ pub'[q] \in {"gather", "raised"}
               /\ <<q, x>> \in called' => x \in target'[q]
               /\ x \in todo'[q] => x \in target'[q]
               /\ pub'[q] = "new" => x \notin target'[q]
               /\ pub'[q] = "returned" => x \notin todo'[q]
    BY <2>1, <2>2 DEF BusTypeOK
  <2>4. OnlyCancelledEscapes'
    BY <2>1, KeepsCancelledEscapes
  <2> QED
    BY <2>1, <2>3, <2>4
<1>5. ASSUME NEW p \in Pubs, NEW s \in Subs, HandlerReturns(p, s) \/ HandlerFails(p, s)
      PROVE  DispatchInv'
  <2>1. OnlyCancelledEscapes'
    BY <1>5, KeepsCancelledEscapes DEF HandlerReturns, HandlerFails
  <2> QED
    BY <1>5, <2>1 DEF HandlerReturns, HandlerFails, BusTypeOK
<1>6. ASSUME NEW p \in Pubs, NEW s \in Subs,
             HandlerRaisesCancelled(p, s) \/ HandlerIsStruck(p, s)
      PROVE  DispatchInv'
  BY <1>6, EscapesInv DEF HandlerRaisesCancelled, HandlerIsStruck, RunsOn
<1>7. ASSUME NEW p \in Pubs, Publish(p)
      PROVE  DispatchInv'
  BY <1>7, GatherInv DEF Publish
<1>8. ASSUME NEW p \in Pubs, NEW s \in Subs, PublishWithin(p, s)
      PROVE  DispatchInv'
  <2>1. Emits[s] \in Pubs
    BY <1>8, EventBusAssumption DEF PublishWithin, EventBusAssumption
  <2>2. \A q \in Pubs : q # Emits[s] => maker'[q] = maker[q]
    BY <1>8, <2>1 DEF PublishWithin, BusTypeOK
  <2> QED
    BY <1>8, <2>1, <2>2, GatherInv DEF PublishWithin
<1>9. CASE ClearHistory
  <2>1. OnlyCancelledEscapes'
    BY <1>9, KeepsCancelledEscapes DEF ClearHistory
  <2> QED
    BY <1>9, <2>1 DEF ClearHistory, BusTypeOK
<1>10. CASE UNCHANGED busVars
  <2>1. OnlyCancelledEscapes'
    BY <1>10, KeepsCancelledEscapes DEF busVars
  <2> QED
    BY <1>10, <2>1 DEF busVars, BusTypeOK
<1> QED
  BY <1>2, <1>3, <1>4, <1>5, <1>6, <1>7, <1>8, <1>9, <1>10
     DEF BusNext, DispatchStep, HandlerEnds

-----------------------------------------------------------------------------
\* The invariant holds in every reachable state.
THEOREM DispatchInvariance == BusSpec => []DispatchInv
  BY InitDispatchInv, NextDispatchInv, PTL DEF BusSpec

\* A once-only handler is called at most once, for any overlap of publications.
THEOREM OnlyOnce == BusSpec => []OnceAtMostOnce
<1>1. DispatchInv => OnceAtMostOnce
  BY DEF DispatchInv, OnceAtMostOnce, BusTypeOK
<1> QED
  BY <1>1, DispatchInvariance, PTL

\* publish() raises only what a handler raised as CancelledError, at any depth of
\* publications within handlers: no failure of a handler reaches a publisher.
THEOREM OnlyCancellation == BusSpec => []OnlyCancelledEscapes
<1>1. DispatchInv => OnlyCancelledEscapes
  BY DEF DispatchInv
<1> QED
  BY <1>1, DispatchInvariance, PTL
=============================================================================
