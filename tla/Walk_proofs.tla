----------------------------- MODULE Walk_proofs -----------------------------
(***************************************************************************)
(* The recursive walk, for every tree, every number of slots and consumers *)
(* and every pattern of errors and signals: the semaphore and the          *)
(* WaitGroup count what they are meant to count, objCh is closed after the *)
(* last walk, and a walk that has ended left nothing of its prefix behind. *)
(*                                                                         *)
(* The WaitGroup argument needs that a sub-walk is started once: the pages *)
(* a walk has not turned yet show only prefixes nobody has started         *)
(* (Unstarted), because a prefix is shown on one page.                     *)
(***************************************************************************)
EXTENDS Walk, LeastElement, FiniteSetTheorems

Elements(s) == {s[i] : i \in DOMAIN s}

OnPage == \A p \in Prefix : page[p] \in DOMAIN Tree[p]

\* The sub-prefixes of the pages still to be turned.
Unstarted ==
    \A p \in Prefix : walk[p] # "done" =>
        \A k \in DOMAIN Tree[p] : k >= page[p] => \A q \in Tree[p][k].subs : walk[q] = "none"

Counted ==
    /\ SlotsHeld
    /\ wg = Cardinality(Alive)

Seen(o) == IF o \in PipeKey THEN o \in invalid ELSE listed[o] > 0

\* A walk under way is through with the pages before its cursor, and with the objects of the
\* current page that are not left.
UnderWay ==
    \A p \in Prefix : walk[p] # "done" =>
        /\ \A k \in DOMAIN Tree[p] : k < page[p] => PageDone(p, k)
        /\ walk[p] = "emitting" =>
              \A o \in Elements(Tree[p][page[p]].objs) : Seen(o) \/ o \in Elements(left[p])

Inv ==
    /\ Types /\ OnPage
    /\ Unstarted /\ Counted /\ ClosedLast
    /\ UnderWay /\ EndedWalksCovered

-----------------------------------------------------------------------------
(* Sequences and the tree *)

LEMMA TailElements ==
    ASSUME NEW S, NEW s \in Seq(S), s # <<>>
    PROVE  /\ Head(s) \in S /\ Tail(s) \in Seq(S)
           /\ Elements(s) \subseteq {Head(s)} \union Elements(Tail(s))
  <1>1. Head(s) \in S /\ Tail(s) \in Seq(S) /\ Len(Tail(s)) = Len(s) - 1 /\ Head(s) = s[1]
    OBVIOUS
  <1>2. ASSUME NEW i \in DOMAIN s, i # 1 PROVE s[i] \in Elements(Tail(s))
    <2>1. i - 1 \in DOMAIN Tail(s) /\ Tail(s)[i - 1] = s[i]
      BY <1>2
    <2> QED BY <2>1 DEF Elements
  <1> QED BY <1>1, <1>2 DEF Elements

LEMMA EmptyElements == Elements(<<>>) = {}
  BY DEF Elements

LEMMA ElementType == ASSUME NEW S, NEW s \in Seq(S), NEW i \in DOMAIN s PROVE s[i] \in S
  OBVIOUS

LEMMA LengthType ==
    ASSUME NEW S, NEW s \in Seq(S), s # <<>>
    PROVE  DOMAIN s = 1 .. Len(s) /\ Len(s) \in Nat \ {0}
  OBVIOUS

LEMMA TreePages ==
    ASSUME NEW p \in Prefix, NEW k \in DOMAIN Tree[p]
    PROVE  /\ Tree[p][k].objs \in Seq(Object) /\ Tree[p][k].subs \subseteq Prefix
           /\ Root \notin Tree[p][k].subs
           /\ IsFiniteSet(Tree[p][k].subs)
           /\ Len(Tree[p]) \in Nat \ {0} /\ DOMAIN Tree[p] = 1 .. Len(Tree[p])
  <1>1. /\ Tree[p] \in Seq([objs : Seq(Object), subs : SUBSET Prefix]) /\ Tree[p] # <<>>
        /\ Root \notin Tree[p][k].subs /\ IsFiniteSet(Prefix)
    BY WalkAssumption
  <1>2. Tree[p][k] \in [objs : Seq(Object), subs : SUBSET Prefix]
    BY <1>1, ElementType
  <1>3. Tree[p][k].subs \subseteq Prefix
    BY <1>2
  <1>5. DOMAIN Tree[p] = 1 .. Len(Tree[p]) /\ Len(Tree[p]) \in Nat \ {0}
    BY <1>1, LengthType
  <1>4. IsFiniteSet(Tree[p][k].subs)
    BY <1>1, <1>3, FS_Subset
  <1> QED BY <1>1, <1>2, <1>3, <1>4, <1>5

LEMMA FirstPage == \A p \in Prefix : 1 \in DOMAIN Tree[p]
  <1> TAKE p \in Prefix
  <1>1. Tree[p] \in Seq([objs : Seq(Object), subs : SUBSET Prefix]) /\ Tree[p] # <<>>
    BY WalkAssumption
  <1> QED BY <1>1, LengthType

-----------------------------------------------------------------------------
(* What turning a page does to the walks *)

LEMMA SpawnMoves ==
    ASSUME Inv, NEW p \in Prefix, walk[p] = "emitting", NEW s \in {"listing", "done"},
           walk' = [Spawn(p) EXCEPT ![p] = s]
    PROVE  LET subs == Tree[p][page[p]].subs
           IN /\ subs \subseteq Prefix /\ IsFiniteSet(subs) /\ p \notin subs
              /\ walk' \in [Prefix -> {"none", "waiting", "listing", "emitting", "done"}]
              /\ walk'[p] = s
              /\ \A q \in subs : walk[q] = "none" /\ walk'[q] = "waiting"
              /\ \A q \in Prefix : q # p /\ q \notin subs => walk'[q] = walk[q]
  <1> DEFINE subs == Tree[p][page[p]].subs
  <1>1. page[p] \in DOMAIN Tree[p] /\ page[p] >= page[p]
    BY DEF Inv, OnPage, Types
  <1>2. subs \subseteq Prefix /\ IsFiniteSet(subs)
    BY <1>1, TreePages
  <1>3. \A q \in subs : walk[q] = "none"
    BY <1>1 DEF Inv, Unstarted
  <1>4. p \notin subs
    BY <1>3
  <1>5. Spawn(p) = [q \in Prefix |-> IF q \in subs THEN "waiting" ELSE walk[q]]
    BY DEF Spawn
  <1>6. walk \in [Prefix -> {"none", "waiting", "listing", "emitting", "done"}]
    BY DEF Inv, Types
  <1> HIDE DEF subs
  <1>7. walk' = [q \in Prefix |-> IF q = p THEN s ELSE IF q \in subs THEN "waiting" ELSE walk[q]]
    BY <1>5
  <1>8. /\ walk' \in [Prefix -> {"none", "waiting", "listing", "emitting", "done"}]
        /\ walk'[p] = s
        /\ \A q \in subs : walk[q] = "none" /\ walk'[q] = "waiting"
        /\ \A q \in Prefix : q # p /\ q \notin subs => walk'[q] = walk[q]
    BY <1>2, <1>3, <1>4, <1>6, <1>7
  <1> QED BY <1>2, <1>4, <1>8 DEF subs

-----------------------------------------------------------------------------
(* Types, the cursor *)

LEMMA StepTypes == ASSUME Inv, [Next]_vars PROVE Types' /\ OnPage'
  <1> USE DEF walkVars, chVars, fileVars
  <1>1. ASSUME NEW p \in Prefix, TakeSlot(p) PROVE Types' /\ OnPage'
    BY <1>1 DEF TakeSlot, Inv, Types, OnPage
  <1>2. ASSUME NEW p \in Prefix, GiveUp(p) PROVE Types' /\ OnPage'
    <2>1. failed' \subseteq Prefix \X (Nat \ {0}) /\ invalid' \subseteq Object \union Prefix
      BY <1>2 DEF GiveUp, Record, Inv, Types
    <2> QED BY <1>2, <2>1 DEF GiveUp, Inv, Types, OnPage
  <1>3. ASSUME NEW p \in Prefix, ListAnswers(p) PROVE Types' /\ OnPage'
    <2>1. Tree[p][page[p]].objs \in Seq(Object)
      BY TreePages DEF Inv, OnPage
    <2> QED BY <1>3, <2>1 DEF ListAnswers, Inv, Types, OnPage
  <1>4. ASSUME NEW p \in Prefix, ListFails(p) \/ Abort(p) PROVE Types' /\ OnPage'
    <2>1. failed' \subseteq Prefix \X (Nat \ {0}) /\ invalid' \subseteq Object \union Prefix
      BY <1>4 DEF ListFails, Abort, Record, Inv, Types
    <2> End(p) /\ Types
      BY <1>4 DEF ListFails, Abort, Inv
    <2>4. walk' \in [Prefix -> {"none", "waiting", "listing", "emitting", "done"}]
      BY DEF End, Types
    <2>5. sem' \in Int /\ wg' \in Int
      BY DEF End, Types
    <2>3. listed' \in [Object -> Nat] /\ errors' \in Nat
      <3>1. CASE ListFails(p)
        BY <3>1 DEF ListFails, Inv, Types
      <3>2. CASE Abort(p)
        <4>1. Head(left[p]) \in Object
          BY <3>2, TailElements DEF Abort, Emits, Inv, Types
        <4> QED BY <3>2, <4>1 DEF Abort, Emits, Inv, Types
      <3> QED BY <1>4, <3>1, <3>2
    <2> QED BY <1>4, <2>1, <2>3, <2>4, <2>5 DEF ListFails, Abort, Inv, Types, OnPage
  <1>5. ASSUME NEW p \in Prefix, SkipInvalid(p) \/ Push(p) \/ CountOnly(p)
        PROVE Types' /\ OnPage'
    <2>1. Head(left[p]) \in Object /\ Tail(left[p]) \in Seq(Object)
      BY <1>5, TailElements DEF SkipInvalid, Push, CountOnly, Emits, Inv, Types
    <2>2. listed' \in [Object -> Nat]
      <3>1. listed' = listed \/ listed' = [listed EXCEPT ![Head(left[p])] = @ + 1]
        BY <1>5 DEF SkipInvalid, Push, CountOnly, Emits
      <3>2. listed \in [Object -> Nat]
        BY DEF Inv, Types
      <3>3. listed[Head(left[p])] + 1 \in Nat
        BY <2>1, <3>2
      <3> QED BY <3>1, <3>2, <3>3
    <2>3. left' \in [Prefix -> Seq(Object)]
      BY <1>5, <2>1 DEF SkipInvalid, Push, CountOnly, Inv, Types
    <2>4. objCh' \in Seq(Object) /\ invalid' \subseteq Object \union Prefix
      <3>1. /\ objCh' = objCh \/ objCh' = Append(objCh, Head(left[p]))
            /\ invalid' = invalid \/ invalid' = invalid \union {Head(left[p])}
        BY <1>5 DEF SkipInvalid, Push, CountOnly
      <3>2. objCh \in Seq(Object) /\ invalid \subseteq Object \union Prefix
        BY DEF Inv, Types
      <3>3. Append(objCh, Head(left[p])) \in Seq(Object)
        BY <2>1, <3>2
      <3> QED BY <2>1, <3>1, <3>2, <3>3
    <2> QED BY <1>5, <2>2, <2>3, <2>4 DEF SkipInvalid, Push, CountOnly, Inv, Types, OnPage
  <1>6. ASSUME NEW p \in Prefix, TurnPage(p) \/ LastPage(p) PROVE Types' /\ OnPage'
    <2>1. PICK s \in {"listing", "done"} : walk' = [Spawn(p) EXCEPT ![p] = s]
      BY <1>6 DEF TurnPage, LastPage
    <2>2. walk' \in [Prefix -> {"none", "waiting", "listing", "emitting", "done"}]
      BY <1>6, <2>1, SpawnMoves DEF TurnPage, LastPage
    <2>3. Cardinality(Tree[p][page[p]].subs) \in Nat
      BY <1>6, <2>1, SpawnMoves, FS_CardinalityType DEF TurnPage, LastPage
    <2>4. DOMAIN Tree[p] = 1 .. Len(Tree[p]) /\ Len(Tree[p]) \in Nat /\ page[p] \in DOMAIN Tree[p]
      BY TreePages DEF Inv, OnPage
    <2>5. page' \in [Prefix -> Nat \ {0}] /\ page'[p] \in DOMAIN Tree[p]
          /\ \A q \in Prefix \ {p} : page'[q] = page[q]
      BY <1>6, <2>4 DEF TurnPage, LastPage, Inv, Types
    <2>6. OnPage'
      BY <2>5 DEF Inv, OnPage
    <2>7. sem' \in Int /\ wg' \in Int
      BY <1>6, <2>3 DEF TurnPage, LastPage, Inv, Types
    <2> QED BY <1>6, <2>2, <2>5, <2>6, <2>7 DEF TurnPage, LastPage, Inv, Types
  <1>7. CASE CloseObjCh \/ Signal \/ UNCHANGED vars
    <2>1. CASE CloseObjCh
      BY <2>1 DEF CloseObjCh, Inv, Types, OnPage
    <2>2. CASE Signal
      BY <2>2 DEF Signal, Inv, Types, OnPage
    <2>3. CASE UNCHANGED vars
      BY <2>3 DEF vars, Inv, Types, OnPage
    <2> QED BY <1>7, <2>1, <2>2, <2>3
  <1>8. ASSUME NEW c \in Consumer, Receive(c) \/ RangeEnds(c) PROVE Types' /\ OnPage'
    <2>1. CASE Receive(c)
      <3>1. Head(objCh) \in Object /\ Tail(objCh) \in Seq(Object)
        BY <2>1, TailElements DEF Receive, Inv, Types
      <3>2. got' \in [Object -> Nat]
        BY <2>1, <3>1 DEF Receive, Inv, Types
      <3> QED BY <2>1, <3>1, <3>2 DEF Receive, Inv, Types, OnPage
    <2>2. CASE RangeEnds(c)
      BY <2>2 DEF RangeEnds, Inv, Types, OnPage
    <2> QED BY <1>8, <2>1, <2>2
  <1> QED BY <1>1, <1>2, <1>3, <1>4, <1>5, <1>6, <1>7, <1>8 DEF Next, Walker, Terminated

\* The steps that turn no page leave the walks as they are, or move one walk on.
LEMMA OtherSteps ==
    ASSUME Inv, [Next]_vars, \A p \in Prefix : ~TurnPage(p) /\ ~LastPage(p)
    PROVE  /\ page' = page
           /\ \/ walk' = walk
              \/ \E p \in Alive, s \in {"listing", "emitting", "done"} :
                    walk' = [walk EXCEPT ![p] = s]
  <1> USE DEF walkVars, chVars, fileVars, vars
  <1>1. ASSUME NEW p \in Prefix, Walker(p) PROVE page' = page
    BY <1>1 DEF Walker, TakeSlot, GiveUp, ListAnswers, ListFails, SkipInvalid, Push, CountOnly, Abort
  <1>2. ASSUME NEW p \in Prefix, Walker(p)
        PROVE  walk' = walk \/ \E s \in {"listing", "emitting", "done"} :
                                  p \in Alive /\ walk' = [walk EXCEPT ![p] = s]
    BY <1>2 DEF Walker, TakeSlot, GiveUp, ListAnswers, ListFails, SkipInvalid, Push, CountOnly,
                Abort, Emits, End, Alive
  <1>3. ASSUME ~ \E p \in Prefix : Walker(p) PROVE page' = page /\ walk' = walk
    BY <1>3 DEF Next, CloseObjCh, Receive, RangeEnds, Signal, Terminated
  <1> QED BY <1>1, <1>2, <1>3

LEMMA StepUnstarted == ASSUME Inv, [Next]_vars PROVE Unstarted'
  <1>1. ASSUME NEW p \in Prefix, TurnPage(p) \/ LastPage(p) PROVE Unstarted'
    <2> DEFINE subs == Tree[p][page[p]].subs
    <2>1. PICK s \in {"listing", "done"} : walk' = [Spawn(p) EXCEPT ![p] = s]
      BY <1>1 DEF TurnPage, LastPage
    <2>2. walk[p] = "emitting"
      BY <1>1 DEF TurnPage, LastPage
    <2>3. /\ subs \subseteq Prefix /\ p \notin subs /\ walk'[p] = s
          /\ \A q \in subs : walk[q] = "none" /\ walk'[q] = "waiting"
          /\ \A q \in Prefix : q # p /\ q \notin subs => walk'[q] = walk[q]
      BY <2>1, <2>2, SpawnMoves
    <2>4. page[p] \in DOMAIN Tree[p] /\ page[p] \in Nat
          /\ (walk'[p] = "done" \/ page'[p] = page[p] + 1)
          /\ \A q \in Prefix \ {p} : page'[q] = page[q]
      <3> page \in [Prefix -> Nat \ {0}] /\ page[p] \in DOMAIN Tree[p]
        BY DEF Inv, Types, OnPage
      <3>1. CASE TurnPage(p)
        BY <3>1 DEF TurnPage
      <3>2. CASE LastPage(p)
        <4>1. walk'[p] = "done"
          BY <3>2 DEF LastPage, Inv, Types, Spawn
        <4> QED BY <3>2, <4>1 DEF LastPage
      <3> QED BY <1>1, <3>1, <3>2
    <2> SUFFICES ASSUME NEW q \in Prefix, walk'[q] # "done", NEW k \in DOMAIN Tree[q],
                        k >= page'[q], NEW t \in Tree[q][k].subs
                 PROVE  walk'[t] = "none"
      BY DEF Unstarted
    <2>5. k \in Nat /\ page[q] \in Nat /\ t \in Prefix
      BY TreePages DEF Inv, Types
    <2>6. k >= page[q] /\ walk[q] # "done"
      BY <2>2, <2>3, <2>4, <2>5
    <2>7. walk[t] = "none"
      BY <2>5, <2>6 DEF Inv, Unstarted
    <2>8. t \notin subs
      <3> SUFFICES ASSUME t \in subs PROVE FALSE
        OBVIOUS
      <3>1. q = p /\ k = page[p]
        BY <2>4, WalkAssumption
      <3> QED BY <3>1, <2>4
    <2>9. t # p
      BY <2>2, <2>7
    <2> QED BY <2>3, <2>5, <2>7, <2>8, <2>9
  <1>2. ASSUME \A p \in Prefix : ~TurnPage(p) /\ ~LastPage(p) PROVE Unstarted'
    <2>1. page' = page
      BY <1>2, OtherSteps
    <2>2. \A q \in Prefix : /\ walk[q] = "none" => walk'[q] = "none"
                            /\ walk'[q] # "done" => walk[q] # "done"
      <3>1. CASE walk' = walk
        BY <3>1
      <3>2. CASE \E p \in Alive, s \in {"listing", "emitting", "done"} :
                    walk' = [walk EXCEPT ![p] = s]
        BY <3>2 DEF Alive, Inv, Types
      <3> QED BY <1>2, <3>1, <3>2, OtherSteps
    <2>3. \A q \in Prefix : \A k \in DOMAIN Tree[q] : Tree[q][k].subs \subseteq Prefix
      BY TreePages
    <2> QED BY <2>1, <2>2, <2>3 DEF Unstarted, Inv
  <1> QED BY <1>1, <1>2

-----------------------------------------------------------------------------
(* What the semaphore and the WaitGroup count *)

LEMMA FiniteWalks == IsFiniteSet(Alive) /\ IsFiniteSet(Holding)
                     /\ Cardinality(Alive) \in Nat /\ Cardinality(Holding) \in Nat
  <1>1. IsFiniteSet(Prefix) /\ Alive \subseteq Prefix /\ Holding \subseteq Prefix
    BY WalkAssumption DEF Alive, Holding
  <1> QED BY <1>1, FS_Subset, FS_CardinalityType

\* A walk that comes to its end leaves both sets.
LEMMA EndCounted == ASSUME Inv, NEW p \in Holding, End(p) PROVE Counted'
  <1>1. Alive' = Alive \ {p} /\ Holding' = Holding \ {p} /\ p \in Alive
    BY DEF Alive, Holding, End, Inv, Types
  <1>2. Cardinality(Alive') = Cardinality(Alive) - 1 /\ Cardinality(Holding') = Cardinality(Holding) - 1
    BY <1>1, FiniteWalks, FS_RemoveElement
  <1> QED BY <1>2, FiniteWalks, WalkAssumption DEF Inv, Counted, SlotsHeld, End

LEMMA StepCounted == ASSUME Inv, [Next]_vars PROVE Counted'
  <1> USE FiniteWalks, WalkAssumption DEF walkVars, chVars, fileVars
  <1>1. ASSUME NEW p \in Prefix, TakeSlot(p) PROVE Counted'
    <2>1. Alive' = Alive /\ Holding' = Holding \union {p} /\ p \notin Holding
      BY <1>1 DEF Alive, Holding, TakeSlot, Inv, Types
    <2>2. Cardinality(Holding') = Cardinality(Holding) + 1
      BY <2>1, FS_AddElement
    <2> QED BY <1>1, <2>1, <2>2 DEF TakeSlot, Inv, Counted, SlotsHeld
  <1>2. ASSUME NEW p \in Prefix, GiveUp(p) PROVE Counted'
    <2>1. Alive' = Alive \ {p} /\ Holding' = Holding /\ p \in Alive
      BY <1>2 DEF Alive, Holding, GiveUp, Inv, Types
    <2>2. Cardinality(Alive') = Cardinality(Alive) - 1
      BY <2>1, FS_RemoveElement
    <2> QED BY <1>2, <2>1, <2>2 DEF GiveUp, Inv, Counted, SlotsHeld
  <1>3. ASSUME NEW p \in Prefix, ListAnswers(p) PROVE Counted'
    <2>1. Alive' = Alive /\ Holding' = Holding
      BY <1>3 DEF Alive, Holding, ListAnswers, Inv, Types
    <2> QED BY <1>3, <2>1 DEF ListAnswers, Inv, Counted, SlotsHeld
  <1>4. ASSUME NEW p \in Prefix, ListFails(p) \/ Abort(p) PROVE Counted'
    BY <1>4, EndCounted DEF ListFails, Abort, Emits, Holding
  <1>5. ASSUME NEW p \in Prefix, TurnPage(p) \/ LastPage(p) PROVE Counted'
    <2> DEFINE subs == Tree[p][page[p]].subs
    <2>1. PICK s \in {"listing", "done"} :
             /\ walk' = [Spawn(p) EXCEPT ![p] = s]
             /\ (s = "listing" <=> TurnPage(p))
      BY <1>5 DEF TurnPage, LastPage, Inv, OnPage, Types
    <2>2. walk[p] = "emitting"
      BY <1>5 DEF TurnPage, LastPage
    <2>3. /\ subs \subseteq Prefix /\ IsFiniteSet(subs) /\ p \notin subs /\ walk'[p] = s
          /\ \A q \in subs : walk[q] = "none" /\ walk'[q] = "waiting"
          /\ \A q \in Prefix : q # p /\ q \notin subs => walk'[q] = walk[q]
      BY <2>1, <2>2, SpawnMoves
    <2>4. subs \cap Alive = {} /\ p \in Alive /\ p \in Holding
      BY <2>2, <2>3 DEF Alive, Holding
    <2> HIDE DEF subs
    <2>5. /\ Cardinality(subs) \in Nat
          /\ Cardinality(Alive \union subs) = Cardinality(Alive) + Cardinality(subs)
      <3>1. Alive \cap subs = {}
        BY <2>4
      <3>2. Cardinality(Alive \union subs) = Cardinality(Alive) + Cardinality(subs) - Cardinality({})
        <4>1. IsFiniteSet(Alive) /\ IsFiniteSet(subs)
          BY <2>3
        <4>2. Cardinality(Alive \union subs)
                 = Cardinality(Alive) + Cardinality(subs) - Cardinality(Alive \cap subs)
          BY <4>1, FS_Union
        <4> QED BY <3>1, <4>2
      <3> QED BY <2>3, <3>2, FS_CardinalityType, FS_EmptySet
    <2>6. CASE TurnPage(p)
      <3>0. s = "listing"
        BY <2>1, <2>6
      <3>1. Alive' = Alive \union subs /\ Holding' = Holding
        <4>1. \A q \in Prefix : /\ q \in Alive' <=> q \in Alive \/ q \in subs
                                /\ q \in Holding' <=> q \in Holding
          BY <2>2, <2>3, <3>0 DEF Alive, Holding
        <4>2. Alive \subseteq Prefix /\ Alive' \subseteq Prefix /\ Holding \subseteq Prefix
              /\ Holding' \subseteq Prefix
          BY DEF Alive, Holding
        <4> QED BY <2>3, <4>1, <4>2
      <3> QED BY <2>5, <2>6, <3>1 DEF TurnPage, Inv, Counted, SlotsHeld, subs
    <2>7. CASE LastPage(p) /\ ~TurnPage(p)
      <3>0. s = "done"
        BY <2>1, <2>7
      <3>1. Alive' = (Alive \union subs) \ {p} /\ Holding' = Holding \ {p}
        <4>1. \A q \in Prefix : /\ q \in Alive' <=> (q \in Alive \/ q \in subs) /\ q # p
                                /\ q \in Holding' <=> q \in Holding /\ q # p
          BY <2>2, <2>3, <3>0 DEF Alive, Holding
        <4>2. Alive \subseteq Prefix /\ Alive' \subseteq Prefix /\ Holding \subseteq Prefix
              /\ Holding' \subseteq Prefix
          BY DEF Alive, Holding
        <4> QED BY <2>3, <4>1, <4>2
      <3>2. IsFiniteSet(Alive \union subs) /\ p \in Alive \union subs
        BY <2>3, <2>4, FS_Union
      <3>3. Cardinality(Alive') = Cardinality(Alive) + Cardinality(subs) - 1
        <4>1. Cardinality((Alive \union subs) \ {p}) = Cardinality(Alive \union subs) - 1
          BY <3>2, FS_RemoveElement
        <4> QED BY <2>5, <3>1, <4>1
      <3>4. Cardinality(Holding') = Cardinality(Holding) - 1
        BY <2>4, <3>1, FS_RemoveElement
      <3> QED BY <2>5, <2>7, <3>3, <3>4 DEF LastPage, Inv, Counted, SlotsHeld, subs
    <2> QED BY <1>5, <2>6, <2>7
  <1>6. ASSUME walk' = walk, sem' = sem, wg' = wg PROVE Counted'
    BY <1>6 DEF Counted, SlotsHeld, Alive, Holding, Inv
  <1>7. ASSUME NEW p \in Prefix, SkipInvalid(p) \/ Push(p) \/ CountOnly(p) PROVE Counted'
    BY <1>6, <1>7 DEF SkipInvalid, Push, CountOnly
  <1>8. ASSUME ~ \E p \in Prefix : Walker(p) PROVE Counted'
    BY <1>6, <1>8 DEF Next, CloseObjCh, Receive, RangeEnds, Signal, Terminated, vars
  <1> QED BY <1>1, <1>2, <1>3, <1>4, <1>5, <1>7, <1>8 DEF Walker

LEMMA StepClosed == ASSUME Inv, [Next]_vars PROVE ClosedLast'
  <1> USE DEF walkVars, chVars, fileVars
  <1>1. ASSUME NEW p \in Prefix, Walker(p) PROVE ClosedLast'
    <2>1. p \in Alive /\ closed' = closed
      BY <1>1 DEF Walker, TakeSlot, GiveUp, ListAnswers, ListFails, SkipInvalid, Push, CountOnly,
                  Abort, Emits, TurnPage, LastPage, Alive
    <2> QED BY <2>1 DEF Inv, ClosedLast
  <1>2. CASE CloseObjCh
    <2>1. Alive = {} /\ Alive' = Alive
      BY <1>2, FiniteWalks, FS_EmptySet DEF CloseObjCh, Inv, Counted, Alive
    <2> QED BY <2>1 DEF ClosedLast
  <1>3. ASSUME walk' = walk, closed' = closed PROVE ClosedLast'
    BY <1>3 DEF ClosedLast, Inv, Alive
  <1> QED BY <1>1, <1>2, <1>3 DEF Next, Receive, RangeEnds, Signal, Terminated, vars

-----------------------------------------------------------------------------
(* What a walk leaves behind *)

\* Records, counts and started walks are never taken back.
LEMMA StepMonotone ==
    ASSUME Inv, [Next]_vars
    PROVE  /\ invalid \subseteq invalid' /\ failed \subseteq failed'
           /\ \A o \in Object : listed[o] > 0 => listed'[o] > 0
           /\ \A q \in Prefix : walk[q] # "none" => walk'[q] # "none"
  <1> USE DEF walkVars, chVars, fileVars
  <1>1. invalid \subseteq invalid' /\ failed \subseteq failed'
    BY DEF Next, Walker, TakeSlot, GiveUp, ListAnswers, ListFails, SkipInvalid, Push, CountOnly,
           Abort, Record, TurnPage, LastPage, CloseObjCh, Receive, RangeEnds, Signal, Terminated, vars
  <1>2. \A o \in Object : listed[o] > 0 => listed'[o] > 0
    <2>1. listed' = listed \/ \E o \in Object : listed' = [listed EXCEPT ![o] = @ + 1]
      <3>1. ASSUME NEW p \in Prefix, Emits(p) PROVE Head(left[p]) \in Object
        BY <3>1, TailElements DEF Emits, Inv, Types
      <3> QED BY <3>1 DEF Next, Walker, TakeSlot, GiveUp, ListAnswers, ListFails, SkipInvalid,
                  Push, CountOnly, Abort, Emits, TurnPage, LastPage, CloseObjCh, Receive, RangeEnds,
                  Signal, Terminated, vars
    <2>2. listed \in [Object -> Nat]
      BY DEF Inv, Types
    <2> QED BY <2>1, <2>2
  <1>3. \A q \in Prefix : walk[q] # "none" => walk'[q] # "none"
    <2>1. ASSUME NEW p \in Prefix, TurnPage(p) \/ LastPage(p)
          PROVE  \A q \in Prefix : walk[q] # "none" => walk'[q] # "none"
      <3>1. PICK t \in {"listing", "done"} : walk' = [Spawn(p) EXCEPT ![p] = t]
        BY <2>1 DEF TurnPage, LastPage
      <3> QED BY <2>1, <3>1, SpawnMoves DEF TurnPage, LastPage
    <2>2. ASSUME \A p \in Prefix : ~TurnPage(p) /\ ~LastPage(p)
          PROVE  \A q \in Prefix : walk[q] # "none" => walk'[q] # "none"
      BY <2>2, OtherSteps DEF Inv, Types
    <2> QED BY <2>1, <2>2
  <1> QED BY <1>1, <1>2, <1>3

LEMMA KeepsDone ==
    ASSUME Inv, [Next]_vars
    PROVE  /\ \A o \in Object : Seen(o) => Seen(o)'
           /\ \A p \in Prefix : \A k \in DOMAIN Tree[p] : /\ PageDone(p, k) => PageDone(p, k)'
                                                          /\ Reported(p, k) => Reported(p, k)'
  <1>1. \A o \in Object : Seen(o) => Seen(o)'
    BY StepMonotone DEF Seen
  <1>2. ASSUME NEW p \in Prefix, NEW k \in DOMAIN Tree[p], PageDone(p, k) PROVE PageDone(p, k)'
    <2>1. Tree[p][k].objs \in Seq(Object) /\ Tree[p][k].subs \subseteq Prefix
      BY TreePages
    <2>2. \A i \in DOMAIN Tree[p][k].objs : Tree[p][k].objs[i] \in Object
      BY <2>1, ElementType
    <2> QED BY <1>2, <2>1, <2>2, StepMonotone DEF PageDone
  <1>3. ASSUME NEW p \in Prefix, NEW k \in DOMAIN Tree[p], Reported(p, k) PROVE Reported(p, k)'
    BY <1>3, StepMonotone DEF Reported
  <1> QED BY <1>1, <1>2, <1>3

\* A step of one walk leaves the others where they are; a new one starts.
LEMMA OtherWalks ==
    ASSUME Inv, NEW p \in Prefix, Walker(p), NEW q \in Prefix, q # p
    PROVE  /\ page'[q] = page[q] /\ left'[q] = left[q]
           /\ walk'[q] = walk[q] \/ (walk[q] = "none" /\ walk'[q] = "waiting")
  <1>1. page'[q] = page[q] /\ left'[q] = left[q]
    BY DEF Walker, TakeSlot, GiveUp, ListAnswers, ListFails, SkipInvalid, Push, CountOnly, Abort,
           TurnPage, LastPage, Inv, Types
  <1>2. CASE TurnPage(p) \/ LastPage(p)
    <2>1. PICK t \in {"listing", "done"} : walk' = [Spawn(p) EXCEPT ![p] = t]
      BY <1>2 DEF TurnPage, LastPage
    <2> QED BY <1>1, <1>2, <2>1, SpawnMoves DEF TurnPage, LastPage
  <1>3. CASE ~TurnPage(p) /\ ~LastPage(p)
    BY <1>1, <1>3 DEF Walker, TakeSlot, GiveUp, ListAnswers, ListFails, SkipInvalid, Push, CountOnly,
                      Abort, End, Inv, Types
  <1> QED BY <1>2, <1>3

\* What UnderWay and EndedWalksCovered say of one walk.
Fine(p) ==
    /\ walk[p] # "done" =>
          /\ \A k \in DOMAIN Tree[p] : k < page[p] => PageDone(p, k)
          /\ walk[p] = "emitting" =>
                \A o \in Elements(Tree[p][page[p]].objs) : Seen(o) \/ o \in Elements(left[p])
    /\ walk[p] = "done" => \A k \in DOMAIN Tree[p] : PageDone(p, k) \/ Reported(p, k)

LEMMA FineAll == (\A p \in Prefix : Fine(p)) <=> UnderWay /\ EndedWalksCovered
  BY DEF Fine, UnderWay, EndedWalksCovered

LEMMA OtherFine ==
    ASSUME Inv, [Next]_vars, NEW q \in Prefix, page'[q] = page[q], left'[q] = left[q],
           walk'[q] = walk[q] \/ (walk[q] = "none" /\ walk'[q] = "waiting")
    PROVE  Fine(q)'
  <1>1. Fine(q) /\ page[q] \in DOMAIN Tree[q]
    BY FineAll DEF Inv, OnPage
  <1>2. Elements(Tree[q][page[q]].objs) \subseteq Object
    BY <1>1, TreePages, ElementType DEF Elements
  <1>3. CASE walk'[q] = "done"
    <2>1. \A k \in DOMAIN Tree[q] : PageDone(q, k) \/ Reported(q, k)
      BY <1>1, <1>3 DEF Fine
    <2>2. \A k \in DOMAIN Tree[q] : PageDone(q, k)' \/ Reported(q, k)'
      BY <2>1, KeepsDone
    <2> QED BY <1>3, <2>2 DEF Fine
  <1>4. CASE walk'[q] # "done"
    <2>1. \A k \in DOMAIN Tree[q] : k < page'[q] => PageDone(q, k)'
      BY <1>1, <1>4, KeepsDone DEF Fine
    <2>2. walk'[q] = "emitting" =>
             \A o \in Elements(Tree[q][page'[q]].objs) : Seen(o)' \/ o \in Elements(left'[q])
      BY <1>1, <1>2, <1>4, KeepsDone DEF Fine
    <2> QED BY <1>4, <2>1, <2>2 DEF Fine
  <1> QED BY <1>3, <1>4

\* A walk that ends early has a record for its page, and was through with those before it.
LEMMA RecordedFine ==
    ASSUME Inv, [Next]_vars, NEW p \in Prefix, walk[p] # "done", walk'[p] = "done", Record(p)
    PROVE  Fine(p)'
  <1>1. Fine(p) /\ page[p] \in DOMAIN Tree[p] /\ page[p] \in Nat /\ DOMAIN Tree[p] = 1 .. Len(Tree[p])
    BY FineAll, TreePages DEF Inv, OnPage, Types
  <1>2. ASSUME NEW k \in DOMAIN Tree[p] PROVE PageDone(p, k)' \/ Reported(p, k)'
    <2>1. CASE k < page[p]
      BY <1>1, <2>1, KeepsDone DEF Fine
    <2>2. CASE k >= page[p]
      <3>1. page[p] \in 1 .. k
        BY <1>1, <2>2
      <3>2. p \in invalid' \/ <<p, page[p]>> \in failed'
        BY DEF Record
      <3> QED BY <3>1, <3>2 DEF Reported
    <2> QED BY <1>1, <2>1, <2>2
  <1> QED BY <1>2 DEF Fine

\* The page a walk has emitted is done once its sub-walks are started.
LEMMA TurnedFine ==
    ASSUME Inv, [Next]_vars, NEW p \in Prefix, TurnPage(p) \/ LastPage(p)
    PROVE  Fine(p)'
  <1>1. Fine(p) /\ page[p] \in DOMAIN Tree[p] /\ page[p] \in Nat /\ DOMAIN Tree[p] = 1 .. Len(Tree[p])
        /\ walk[p] = "emitting" /\ left[p] = <<>>
    BY FineAll, TreePages DEF Inv, OnPage, Types, TurnPage, LastPage
  <1>2. PICK t \in {"listing", "done"} : walk' = [Spawn(p) EXCEPT ![p] = t]
    BY DEF TurnPage, LastPage
  <1>3. walk'[p] = t /\ \A q \in Tree[p][page[p]].subs : walk'[q] = "waiting"
    BY <1>1, <1>2, SpawnMoves
  <1>4. PICK n \in DOMAIN Tree[p] : n = page[p]
    BY <1>1
  <1>5. PageDone(p, n)'
    <2>1. ASSUME NEW o \in Elements(Tree[p][n].objs) PROVE Seen(o)'
      <3>1. o \in Object
        BY TreePages, ElementType DEF Elements
      <3>2. Seen(o)
        BY <1>1, <1>4, EmptyElements DEF Fine
      <3> QED BY <3>1, <3>2, KeepsDone
    <2>2. \A i \in DOMAIN Tree[p][n].objs : Tree[p][n].objs[i] \in Elements(Tree[p][n].objs)
      BY DEF Elements
    <2> QED BY <1>3, <1>4, <2>1, <2>2 DEF PageDone, Seen
  <1>6. \A k \in DOMAIN Tree[p] : k < n => PageDone(p, k)'
    BY <1>1, <1>4, KeepsDone DEF Fine
  <1>7. CASE TurnPage(p)
    <2>1. walk'[p] = "listing" /\ page'[p] = n + 1
      BY <1>3, <1>4, <1>7 DEF TurnPage, Inv, Types, Spawn
    <2>2. \A k \in DOMAIN Tree[p] : k < page'[p] => k < n \/ k = n
      BY <1>1, <2>1
    <2>3. \A k \in DOMAIN Tree[p] : k < page'[p] => PageDone(p, k)'
      BY <1>5, <1>6, <2>2
    <2> QED BY <2>1, <2>3 DEF Fine
  <1>8. CASE LastPage(p)
    <2>1. walk'[p] = "done" /\ n = Len(Tree[p])
      BY <1>3, <1>4, <1>8 DEF LastPage, Inv, Types, Spawn
    <2>2. \A k \in DOMAIN Tree[p] : k < n \/ k = n
      BY <1>1, <2>1
    <2>3. \A k \in DOMAIN Tree[p] : PageDone(p, k)'
      BY <1>5, <1>6, <2>2
    <2> QED BY <2>1, <2>3 DEF Fine
  <1> QED BY <1>7, <1>8

\* An object that leaves the page's rest is counted or reported.
LEMMA EmittedFine ==
    ASSUME Inv, [Next]_vars, NEW p \in Prefix, SkipInvalid(p) \/ Push(p) \/ CountOnly(p)
    PROVE  Fine(p)'
  <1>1. /\ Fine(p) /\ page[p] \in DOMAIN Tree[p] /\ walk[p] = "emitting"
        /\ left[p] \in Seq(Object) /\ left[p] # <<>> /\ left'[p] = Tail(left[p])
        /\ walk' = walk /\ page' = page
    BY FineAll DEF Inv, OnPage, Types, SkipInvalid, Push, CountOnly, Emits
  <1>2. PICK o \in Object : /\ o = Head(left[p])
                            /\ Elements(left[p]) \subseteq {o} \union Elements(Tail(left[p]))
    BY <1>1, TailElements
  <1>3. Seen(o)'
    <2>1. listed \in [Object -> Nat]
      BY DEF Inv, Types
    <2>2. \/ o \in PipeKey /\ o \in invalid'
          \/ o \notin PipeKey /\ listed' = [listed EXCEPT ![o] = @ + 1]
      BY <1>2 DEF SkipInvalid, Push, CountOnly, Emits
    <2>3. listed[o] + 1 > 0
      BY <2>1
    <2> QED BY <2>1, <2>2, <2>3 DEF Seen
  <1>4. Elements(Tree[p][page[p]].objs) \subseteq Object
    BY <1>1, TreePages, ElementType DEF Elements
  <1>5. \A x \in Elements(Tree[p][page[p]].objs) : Seen(x)' \/ x \in Elements(left'[p])
    <2> TAKE x \in Elements(Tree[p][page[p]].objs)
    <2>1. Seen(x) \/ x \in Elements(left[p])
      BY <1>1 DEF Fine
    <2>2. Seen(x) => Seen(x)'
      BY <1>4, KeepsDone
    <2> QED BY <1>1, <1>2, <1>3, <2>1, <2>2
  <1>6. \A k \in DOMAIN Tree[p] : k < page[p] => PageDone(p, k)'
    BY <1>1, KeepsDone DEF Fine
  <1> QED BY <1>1, <1>5, <1>6 DEF Fine

LEMMA StepFine == ASSUME Inv, [Next]_vars PROVE \A q \in Prefix : Fine(q)'
  <1> USE DEF walkVars, chVars, fileVars
  <1>1. ASSUME NEW p \in Prefix, Walker(p) PROVE \A q \in Prefix : Fine(q)'
    <2>1. \A q \in Prefix : q # p => Fine(q)'
      BY <1>1, OtherWalks, OtherFine
    <2>2. Fine(p) /\ page[p] \in DOMAIN Tree[p]
      BY FineAll DEF Inv, OnPage
    <2>3. CASE TakeSlot(p)
      <3>1. page' = page /\ walk'[p] = "listing" /\ walk[p] = "waiting"
        BY <2>3 DEF TakeSlot, Inv, Types
      <3> QED BY <2>1, <2>2, <3>1, KeepsDone DEF Fine
    <2>4. CASE GiveUp(p) \/ ListFails(p) \/ Abort(p)
      <3>1. Record(p) /\ walk[p] # "done" /\ walk'[p] = "done"
        BY <2>4 DEF GiveUp, ListFails, Abort, Emits, End, Inv, Types
      <3> QED BY <2>1, <3>1, RecordedFine
    <2>5. CASE ListAnswers(p)
      <3>1. /\ page' = page /\ walk'[p] = "emitting" /\ walk[p] = "listing"
            /\ left'[p] = Tree[p][page[p]].objs
        BY <2>5 DEF ListAnswers, Inv, Types
      <3> QED BY <2>1, <2>2, <3>1, KeepsDone DEF Fine
    <2>6. CASE SkipInvalid(p) \/ Push(p) \/ CountOnly(p)
      BY <2>1, <2>6, EmittedFine
    <2>7. CASE TurnPage(p) \/ LastPage(p)
      BY <2>1, <2>7, TurnedFine
    <2> QED BY <1>1, <2>3, <2>4, <2>5, <2>6, <2>7 DEF Walker
  <1>2. ASSUME ~ \E p \in Prefix : Walker(p) PROVE \A q \in Prefix : Fine(q)'
    <2>1. walk' = walk /\ page' = page /\ left' = left
      BY <1>2 DEF Next, CloseObjCh, Receive, RangeEnds, Signal, Terminated, vars
    <2> QED BY <2>1, OtherFine
  <1> QED BY <1>1, <1>2

-----------------------------------------------------------------------------
(* The theorems *)

LEMMA InitInv == Init => Inv
  <1> SUFFICES ASSUME Init PROVE Inv
    OBVIOUS
  <1>1. Types /\ OnPage
    <2>1. /\ walk \in [Prefix -> {"none", "waiting", "listing", "emitting", "done"}]
          /\ page \in [Prefix -> Nat \ {0}] /\ left \in [Prefix -> Seq(Object)]
          /\ consumer \in [Consumer -> {"ranging", "gone"}]
          /\ listed \in [Object -> Nat] /\ got \in [Object -> Nat]
      BY DEF Init
    <2>2. OnPage
      BY FirstPage DEF Init, OnPage
    <2>3. checking \in BOOLEAN /\ objCh \in Seq(Object)
      BY WalkAssumption DEF Init
    <2>4. /\ sem = 0 /\ wg = 1 /\ closed = FALSE /\ signals = 0 /\ errors = 0
          /\ failed = {} /\ invalid = {}
      BY DEF Init
    <2>5. sem \in Int /\ wg \in Int /\ signals \in 0 .. 2 /\ errors \in Nat
      BY <2>4
    <2>6. closed \in BOOLEAN
      BY <2>4
    <2>7. failed \subseteq Prefix \X (Nat \ {0}) /\ invalid \subseteq Object \union Prefix
      <3>1. \A S : {} \subseteq S
        OBVIOUS
      <3> QED BY <2>4, <3>1
    <2> QED BY <2>1, <2>2, <2>3, <2>5, <2>6, <2>7 DEF Types
  <1>2. Unstarted
    BY TreePages DEF Init, Unstarted
  <1>3. Counted
    <2>1. Alive = {Root} /\ Holding = {}
      BY WalkAssumption DEF Init, Alive, Holding
    <2>2. Cardinality({Root}) = 1 /\ Cardinality({}) = 0
      BY FS_Singleton, FS_EmptySet
    <2> QED BY <2>1, <2>2, WalkAssumption DEF Init, Counted, SlotsHeld
  <1>4. ClosedLast
    BY DEF Init, ClosedLast
  <1>5. UnderWay /\ EndedWalksCovered
    <2>1. \A p \in Prefix : page[p] = 1 /\ walk[p] \in {"none", "waiting"}
      BY DEF Init
    <2>2. \A p \in Prefix : DOMAIN Tree[p] \subseteq Nat \ {0}
      BY FirstPage, TreePages
    <2> QED BY <2>1, <2>2 DEF UnderWay, EndedWalksCovered
  <1> QED BY <1>1, <1>2, <1>3, <1>4, <1>5 DEF Inv

LEMMA NextInv == Inv /\ [Next]_vars => Inv'
  <1> SUFFICES ASSUME Inv, [Next]_vars PROVE Inv'
    OBVIOUS
  <1>1. UnderWay' /\ EndedWalksCovered'
    <2>1. (\A p \in Prefix : Fine(p)') <=> UnderWay' /\ EndedWalksCovered'
      BY DEF Fine, UnderWay, EndedWalksCovered
    <2> QED BY <2>1, StepFine
  <1> QED BY <1>1, StepTypes, StepUnstarted, StepCounted, StepClosed DEF Inv

LEMMA WalkInv == Spec => []Inv
  BY InitInv, NextInv, PTL DEF Spec

\* The variables keep their types, and no walk asks for a page its prefix does not have.
THEOREM WalkTypes == Spec => []TypeOK
  <1>1. Inv => TypeOK
    BY DEF Inv, OnPage, TypeOK
  <1> QED BY <1>1, WalkInv, PTL

\* Whatever the tree, the number of slots and the order of errors, signals and full channels:
\* the semaphore counts the walks that are on a page, and they are never more than
\* list_concurrency (walker.go:14-20).
THEOREM SlotsNeverLeak == Spec => []SlotsHeld
  <1>1. Inv => SlotsHeld
    BY DEF Inv, Counted
  <1> QED BY <1>1, WalkInv, PTL

\* Nobody sends on the closed objCh: the WaitGroup never reaches zero before the last walk has
\* ended (walker.go:22-25).
THEOREM ObjChClosedLast == Spec => []ClosedLast
  <1>1. Inv => ClosedLast
    BY DEF Inv
  <1> QED BY <1>1, WalkInv, PTL

\* A walk that ended, early or not, pushed or counted the objects of each page and started its
\* sub-walks, or left a record to go on from (walker.go:33-42).
THEOREM NothingLeftBehind == Spec => []EndedWalksCovered
  <1>1. Inv => EndedWalksCovered
    BY DEF Inv
  <1> QED BY <1>1, WalkInv, PTL

-----------------------------------------------------------------------------
(* Each object is counted once and received once.  The objects a walk has    *)
(* still in front of it are not counted yet (Fresh): a key is listed on one  *)
(* page, and what is left of the page is its end (Suffix).                   *)

Objs(p, k) == Tree[p][k].objs
Through(p) == Len(Objs(p, page[p])) - Len(left[p])

Suffix ==
    \A p \in Prefix : walk[p] = "emitting" =>
        /\ Through(p) \in Nat
        /\ \A i \in 1 .. Len(left[p]) : left[p][i] = Objs(p, page[p])[Through(p) + i]

Ahead(p, k, i) ==
    \/ k > page[p]
    \/ k = page[p] /\ walk[p] \in {"none", "waiting", "listing"}
    \/ k = page[p] /\ walk[p] = "emitting" /\ i > Through(p)

Fresh ==
    \A p \in Prefix : \A k \in DOMAIN Tree[p] : \A i \in DOMAIN Objs(p, k) :
        Ahead(p, k, i) => listed[Objs(p, k)[i]] = 0

Once ==
    /\ \A o \in Object : listed[o] <= 1 /\ got[o] <= listed[o]
    /\ \A i \in 1 .. Len(objCh) : listed[objCh[i]] = 1 /\ got[objCh[i]] = 0
    /\ \A i, j \in 1 .. Len(objCh) : objCh[i] = objCh[j] => i = j
    /\ ~checking => objCh = <<>> /\ \A o \in Object : got[o] = 0

OnceInv == Suffix /\ Fresh /\ Once

LEMMA ObjsTypes ==
    ASSUME NEW p \in Prefix, NEW k \in DOMAIN Tree[p]
    PROVE  /\ Objs(p, k) \in Seq(Object) /\ Len(Objs(p, k)) \in Nat
           /\ DOMAIN Objs(p, k) = 1 .. Len(Objs(p, k))
           /\ \A i \in DOMAIN Objs(p, k) : Objs(p, k)[i] \in Object
  <1>1. Objs(p, k) \in Seq(Object)
    BY TreePages DEF Objs
  <1> HIDE DEF Objs
  <1> QED BY <1>1

\* The object a walk comes to is the first of the page that is ahead of it.
LEMMA NextIsFresh ==
    ASSUME Inv, OnceInv, NEW p \in Prefix, walk[p] = "emitting", left[p] # <<>>
    PROVE  LET i == Through(p) + 1
           IN /\ page[p] \in DOMAIN Tree[p] /\ i \in DOMAIN Objs(p, page[p])
              /\ Head(left[p]) = Objs(p, page[p])[i] /\ Head(left[p]) \in Object
              /\ listed[Head(left[p])] = 0 /\ Through(p) \in Nat
              /\ Len(Tail(left[p])) = Len(left[p]) - 1 /\ Len(left[p]) \in Nat
  <1>1. page[p] \in DOMAIN Tree[p] /\ left[p] \in Seq(Object)
    BY DEF Inv, OnPage, Types
  <1>2. PICK k \in DOMAIN Tree[p] : k = page[p]
    BY <1>1
  <1>3. Len(left[p]) \in Nat \ {0} /\ Head(left[p]) = left[p][1] /\ Head(left[p]) \in Object
        /\ Len(Tail(left[p])) = Len(left[p]) - 1
    BY <1>1
  <1>4. Through(p) = Len(Objs(p, k)) - Len(left[p]) /\ Through(p) \in Nat
        /\ Len(Objs(p, k)) \in Nat /\ DOMAIN Objs(p, k) = 1 .. Len(Objs(p, k))
    BY <1>2, ObjsTypes DEF OnceInv, Suffix, Through
  <1>5. Through(p) + 1 \in DOMAIN Objs(p, k)
    BY <1>3, <1>4
  <1>6. Head(left[p]) = Objs(p, k)[Through(p) + 1]
    BY <1>2, <1>3 DEF OnceInv, Suffix
  <1>7. Ahead(p, k, Through(p) + 1)
    <2>1. \A n \in Nat : n + 1 > n
      OBVIOUS
    <2>2. Through(p) + 1 > Through(p)
      BY <1>4, <2>1
    <2> QED BY <1>2, <2>2 DEF Ahead
  <1>8. listed[Head(left[p])] = 0
    BY <1>5, <1>6, <1>7 DEF OnceInv, Fresh
  <1> QED BY <1>1, <1>2, <1>3, <1>4, <1>5, <1>6, <1>8

\* What comes into view, or stays there, was ahead before.
LEMMA SameFresh ==
    ASSUME Inv, OnceInv, listed' = listed,
           \A p \in Prefix : \A k \in DOMAIN Tree[p] : \A i \in DOMAIN Objs(p, k) :
               Ahead(p, k, i)' => Ahead(p, k, i)
    PROVE  Fresh'
  <1> SUFFICES ASSUME NEW p \in Prefix, NEW k \in DOMAIN Tree[p], NEW i \in DOMAIN Objs(p, k),
                      Ahead(p, k, i)'
               PROVE  listed'[Objs(p, k)[i]] = 0
    BY DEF Fresh, Objs
  <1>1. Ahead(p, k, i)
    OBVIOUS
  <1> QED BY <1>1 DEF OnceInv, Fresh

\* A step of one walk, as the order of its objects sees it.
LEMMA OtherAhead ==
    ASSUME Inv, NEW p \in Prefix, Walker(p), NEW q \in Prefix, q # p,
           NEW k \in DOMAIN Tree[q], NEW i
    PROVE  /\ Ahead(q, k, i)' => Ahead(q, k, i)
           /\ Through(q)' = Through(q)
           /\ walk'[q] = "emitting" => walk[q] = "emitting"
  <1>1. page'[q] = page[q] /\ left'[q] = left[q]
        /\ (walk'[q] = walk[q] \/ (walk[q] = "none" /\ walk'[q] = "waiting"))
    BY OtherWalks
  <1>2. Through(q)' = Through(q)
    BY <1>1 DEF Through, Objs
  <1> QED BY <1>1, <1>2 DEF Ahead

LEMMA OtherSuffix ==
    ASSUME Inv, OnceInv, NEW p \in Prefix, Walker(p),
           walk'[p] = "emitting" =>
               /\ Through(p)' \in Nat
               /\ \A i \in 1 .. Len(left'[p]) : left'[p][i] = Objs(p, page'[p])[Through(p)' + i]
    PROVE  Suffix'
  <1> SUFFICES ASSUME NEW q \in Prefix, walk'[q] = "emitting"
               PROVE  /\ Through(q)' \in Nat
                      /\ \A i \in 1 .. Len(left'[q]) : left'[q][i] = Objs(q, page'[q])[Through(q)' + i]
    BY DEF Suffix, Objs
  <1>1. CASE q # p
    <2>1. page'[q] = page[q] /\ left'[q] = left[q]
      BY <1>1, OtherWalks
    <2>2. page[q] \in DOMAIN Tree[q]
      BY DEF Inv, OnPage
    <2>3. Through(q)' = Through(q) /\ walk[q] = "emitting"
      BY <1>1, <2>2, OtherAhead
    <2> QED BY <2>1, <2>3 DEF OnceInv, Suffix
  <1> QED BY <1>1

\* The walk moves on without counting anything.
LEMMA QuietWalks ==
    ASSUME Inv, OnceInv, NEW p \in Prefix,
           TakeSlot(p) \/ GiveUp(p) \/ ListFails(p) \/ TurnPage(p) \/ LastPage(p)
    PROVE  Suffix' /\ Fresh'
  <1> USE DEF walkVars, chVars, fileVars
  <1>1. Walker(p) /\ listed' = listed /\ page[p] \in Nat
    BY DEF Walker, TakeSlot, GiveUp, ListFails, TurnPage, LastPage, Inv, Types
  <1>2. \/ walk'[p] = "listing" /\ walk[p] = "waiting" /\ page'[p] = page[p]
        \/ walk'[p] = "listing" /\ page'[p] = page[p] + 1
        \/ walk'[p] = "done" /\ page'[p] = page[p]
    <2>1. CASE TakeSlot(p)
      BY <2>1 DEF TakeSlot, Inv, Types
    <2>2. CASE GiveUp(p) \/ ListFails(p)
      BY <2>2 DEF GiveUp, ListFails, End, Inv, Types
    <2>3. CASE TurnPage(p)
      BY <2>3, SpawnMoves DEF TurnPage, Inv, Types
    <2>4. CASE LastPage(p)
      BY <2>4, SpawnMoves DEF LastPage, Inv, Types
    <2> QED BY <2>1, <2>2, <2>3, <2>4
  <1>3. Suffix'
    BY <1>1, <1>2, OtherSuffix
  <1>4. ASSUME NEW q \in Prefix, NEW k \in DOMAIN Tree[q], NEW i \in DOMAIN Objs(q, k),
               Ahead(q, k, i)'
        PROVE  Ahead(q, k, i)
    <2>1. CASE q # p
      BY <1>1, <1>4, <2>1, OtherAhead
    <2>2. CASE q = p
      <3>1. k \in Nat
        BY TreePages
      <3> QED BY <1>1, <1>2, <1>4, <2>2, <3>1 DEF Ahead
    <2> QED BY <2>1, <2>2
  <1> QED BY <1>1, <1>3, <1>4, SameFresh

LEMMA AnswerOnce ==
    ASSUME Inv, OnceInv, NEW p \in Prefix, ListAnswers(p)
    PROVE  Suffix' /\ Fresh'
  <1> USE DEF walkVars, chVars, fileVars
  <1>1. /\ Walker(p) /\ listed' = listed /\ page' = page /\ page[p] \in DOMAIN Tree[p]
        /\ walk[p] = "listing" /\ walk'[p] = "emitting" /\ left'[p] = Objs(p, page[p])
    BY DEF Walker, ListAnswers, Inv, Types, OnPage, Objs
  <1>2. PICK k \in DOMAIN Tree[p] : k = page[p]
    BY <1>1
  <1>3. Objs(p, k) \in Seq(Object) /\ Len(Objs(p, k)) \in Nat
    BY ObjsTypes
  <1>4. Through(p)' = 0
    <2>1. Through(p)' = Len(Objs(p, page'[p])) - Len(left'[p])
      BY DEF Through, Objs
    <2> QED BY <1>1, <1>2, <1>3, <2>1
  <1>5. \A i \in 1 .. Len(left'[p]) : left'[p][i] = Objs(p, page'[p])[Through(p)' + i]
    BY <1>1, <1>2, <1>3, <1>4
  <1>6. Suffix'
    BY <1>1, <1>4, <1>5, OtherSuffix
  <1>7. ASSUME NEW q \in Prefix, NEW l \in DOMAIN Tree[q], NEW i \in DOMAIN Objs(q, l),
               Ahead(q, l, i)'
        PROVE  Ahead(q, l, i)
    <2>1. CASE q # p
      BY <1>1, <1>7, <2>1, OtherAhead
    <2>2. CASE q = p
      BY <1>1, <1>7, <2>2 DEF Ahead
    <2> QED BY <2>1, <2>2
  <1> QED BY <1>1, <1>6, <1>7, SameFresh

\* The walk leaves one object behind it.
LEMMA EmitOnce ==
    ASSUME Inv, OnceInv, KeysOnOnePage, NEW p \in Prefix,
           SkipInvalid(p) \/ Push(p) \/ CountOnly(p) \/ Abort(p)
    PROVE  Suffix' /\ Fresh'
  <1> USE DEF walkVars, chVars, fileVars
  <1> DEFINE n == Through(p) + 1
             h == Head(left[p])
  <1>1. /\ Walker(p) /\ page' = page /\ walk[p] = "emitting" /\ left[p] # <<>>
        /\ listed' = listed \/ listed' = [listed EXCEPT ![h] = @ + 1]
        /\ walk'[p] = "done" \/ (walk' = walk /\ left'[p] = Tail(left[p]))
    BY DEF Walker, SkipInvalid, Push, CountOnly, Abort, Emits, End, Inv, Types
  <1>2. /\ page[p] \in DOMAIN Tree[p] /\ n \in DOMAIN Objs(p, page[p]) /\ h = Objs(p, page[p])[n]
        /\ h \in Object /\ listed[h] = 0 /\ Through(p) \in Nat
        /\ Len(Tail(left[p])) = Len(left[p]) - 1 /\ Len(left[p]) \in Nat
    BY <1>1, NextIsFresh
  <1>3. PICK k \in DOMAIN Tree[p] : k = page[p]
    BY <1>2
  <1>4. Len(Objs(p, k)) \in Nat /\ left[p] \in Seq(Object)
    BY ObjsTypes DEF Inv, Types
  <1>5. walk'[p] = "emitting" => Through(p)' = n
    <2>1. Through(p)' = Len(Objs(p, page'[p])) - Len(left'[p])
      BY DEF Through, Objs
    <2>2. Through(p) = Len(Objs(p, k)) - Len(left[p])
      BY <1>3 DEF Through
    <2>3. walk'[p] = "emitting" => Through(p)' = Len(Objs(p, k)) - (Len(left[p]) - 1)
      BY <1>1, <1>2, <1>3, <2>1
    <2>4. \A a, b \in Nat : a - (b - 1) = (a - b) + 1
      OBVIOUS
    <2> QED BY <1>2, <1>4, <2>2, <2>3, <2>4
  <1>6. ASSUME walk'[p] = "emitting"
        PROVE  \A i \in 1 .. Len(left'[p]) : left'[p][i] = Objs(p, page'[p])[n + i]
    <2> TAKE i \in 1 .. Len(left'[p])
    <2>1. left'[p] = Tail(left[p])
      BY <1>1, <1>6
    <2>2. i + 1 \in 1 .. Len(left[p]) /\ left'[p][i] = left[p][i + 1]
      BY <1>2, <1>4, <2>1
    <2>3. left[p][i + 1] = Objs(p, page[p])[Through(p) + (i + 1)]
      BY <1>1, <2>2 DEF OnceInv, Suffix
    <2>4. Through(p) + (i + 1) = n + i
      BY <1>2
    <2> QED BY <1>1, <2>2, <2>3, <2>4
  <1>7. Suffix'
    BY <1>1, <1>2, <1>5, <1>6, OtherSuffix
  <1>8. ASSUME NEW q \in Prefix, NEW l \in DOMAIN Tree[q], NEW i \in DOMAIN Objs(q, l),
               Ahead(q, l, i)'
        PROVE  Ahead(q, l, i) /\ ~(q = p /\ l = k /\ i = n)
    <2>1. CASE q # p
      BY <1>1, <1>8, <2>1, OtherAhead
    <2>2. CASE q = p
      <3>1. i \in Nat /\ l \in Nat /\ k \in Nat
        BY ObjsTypes, TreePages
      <3> QED BY <1>1, <1>2, <1>3, <1>5, <1>8, <2>2, <3>1 DEF Ahead
    <2> QED BY <2>1, <2>2
  <1>9. Fresh'
    <2> SUFFICES ASSUME NEW q \in Prefix, NEW l \in DOMAIN Tree[q], NEW i \in DOMAIN Objs(q, l),
                        Ahead(q, l, i)'
                 PROVE  listed'[Objs(q, l)[i]] = 0
      BY DEF Fresh, Objs
    <2>1. listed[Objs(q, l)[i]] = 0 /\ ~(q = p /\ l = k /\ i = n)
      BY <1>8 DEF OnceInv, Fresh
    <2>2. Objs(q, l)[i] # h
      BY <1>2, <1>3, <2>1 DEF KeysOnOnePage, Objs
    <2>3. Objs(q, l)[i] \in Object /\ listed \in [Object -> Nat]
      BY ObjsTypes DEF Inv, Types
    <2> QED BY <1>1, <2>1, <2>2, <2>3
  <1> QED BY <1>7, <1>9

LEMMA StepSuffix == ASSUME Inv, OnceInv, KeysOnOnePage, [Next]_vars PROVE Suffix' /\ Fresh'
  <1>1. ASSUME NEW p \in Prefix, Walker(p) PROVE Suffix' /\ Fresh'
    BY <1>1, QuietWalks, AnswerOnce, EmitOnce DEF Walker
  <1>2. ASSUME ~ \E p \in Prefix : Walker(p) PROVE Suffix' /\ Fresh'
    <2>1. walk' = walk /\ page' = page /\ left' = left /\ listed' = listed
      BY <1>2 DEF Next, CloseObjCh, Receive, RangeEnds, Signal, Terminated, vars, walkVars, fileVars
    <2>2. \A p \in Prefix : Through(p)' = Through(p)
      BY <2>1 DEF Through, Objs
    <2>3. \A p \in Prefix : \A k \in DOMAIN Tree[p] : \A i \in DOMAIN Objs(p, k) :
             Ahead(p, k, i)' => Ahead(p, k, i)
      BY <2>1, <2>2 DEF Ahead
    <2>4. Fresh'
      BY <2>1, <2>3, SameFresh
    <2> QED BY <2>1, <2>2, <2>4 DEF OnceInv, Suffix, Objs
  <1> QED BY <1>1, <1>2

LEMMA StepOnce == ASSUME Inv, OnceInv, [Next]_vars PROVE Once'
  <1> USE DEF walkVars, chVars, fileVars
  <1>0. /\ listed \in [Object -> Nat] /\ got \in [Object -> Nat] /\ objCh \in Seq(Object)
        /\ Once
    BY DEF Inv, Types, OnceInv
  <1>1. ASSUME NEW p \in Prefix, Push(p) PROVE Once'
    <2> DEFINE h == Head(left[p])
    <2>1. /\ checking /\ checking' = checking /\ got' = got /\ objCh' = Append(objCh, h)
          /\ listed' = [listed EXCEPT ![h] = @ + 1]
          /\ walk[p] = "emitting" /\ left[p] # <<>>
      BY <1>1 DEF Push, Emits
    <2>2. h \in Object /\ listed[h] = 0
      BY <2>1, NextIsFresh
    <2> HIDE DEF h
    <2>3. got[h] = 0
      BY <1>0, <2>2 DEF Once
    <2>4. listed'[h] = 1 /\ \A o \in Object : o # h => listed'[o] = listed[o]
      BY <1>0, <2>1, <2>2
    <2>5. \A i \in 1 .. Len(objCh) : objCh[i] \in Object /\ objCh[i] # h
      BY <1>0, <2>2 DEF Once
    <2>6. /\ Len(objCh') = Len(objCh) + 1 /\ objCh'[Len(objCh) + 1] = h /\ Len(objCh) \in Nat
          /\ \A i \in 1 .. Len(objCh) : objCh'[i] = objCh[i]
      BY <1>0, <2>1, <2>2
    <2>7. \A o \in Object : listed'[o] <= 1 /\ got'[o] <= listed'[o]
      BY <1>0, <2>1, <2>3, <2>4 DEF Once
    <2>8. \A i \in 1 .. Len(objCh') : i \in 1 .. Len(objCh) \/ i = Len(objCh) + 1
      BY <2>6
    <2>9. \A i \in 1 .. Len(objCh') : listed'[objCh'[i]] = 1 /\ got'[objCh'[i]] = 0
      BY <1>0, <2>1, <2>3, <2>4, <2>5, <2>6, <2>8 DEF Once
    <2>10. \A i, j \in 1 .. Len(objCh') : objCh'[i] = objCh'[j] => i = j
      BY <1>0, <2>5, <2>6, <2>8 DEF Once
    <2> QED BY <2>1, <2>7, <2>9, <2>10 DEF Once
  <1>2. ASSUME NEW p \in Prefix, CountOnly(p) \/ Abort(p) PROVE Once'
    <2> DEFINE h == Head(left[p])
    <2>1. /\ UNCHANGED <<checking, got, objCh>>
          /\ listed' = [listed EXCEPT ![h] = @ + 1]
          /\ walk[p] = "emitting" /\ left[p] # <<>>
      BY <1>2 DEF CountOnly, Abort, Emits
    <2>2. h \in Object /\ listed[h] = 0
      BY <2>1, NextIsFresh
    <2> HIDE DEF h
    <2>3. listed'[h] = 1 /\ \A o \in Object : o # h => listed'[o] = listed[o]
      BY <1>0, <2>1, <2>2
    <2>4. \A i \in 1 .. Len(objCh) : objCh[i] \in Object /\ objCh[i] # h
      BY <1>0, <2>2 DEF Once
    <2>5. \A o \in Object : listed'[o] <= 1 /\ got'[o] <= listed'[o]
      BY <1>0, <2>1, <2>2, <2>3 DEF Once
    <2> QED BY <1>0, <2>1, <2>3, <2>4, <2>5 DEF Once
  <1>3. ASSUME NEW c \in Consumer, Receive(c) PROVE Once'
    <2> DEFINE h == Head(objCh)
    <2>1. /\ UNCHANGED <<checking, listed>> /\ objCh # <<>> /\ objCh' = Tail(objCh)
          /\ got' = [got EXCEPT ![h] = @ + 1]
      BY <1>3 DEF Receive
    <2>2. /\ Len(objCh) \in Nat \ {0} /\ h = objCh[1] /\ h \in Object
          /\ Len(objCh') = Len(objCh) - 1
          /\ \A i \in 1 .. Len(objCh') : i + 1 \in 1 .. Len(objCh) /\ objCh'[i] = objCh[i + 1]
                                         /\ objCh[i + 1] \in Object
          /\ 1 \in 1 .. Len(objCh)
      BY <1>0, <2>1
    <2> HIDE DEF h
    <2>3. listed[h] = 1 /\ got[h] = 0
      BY <1>0, <2>2 DEF Once
    <2>4. got'[h] = 1 /\ \A o \in Object : o # h => got'[o] = got[o]
      BY <1>0, <2>1, <2>2, <2>3
    <2>5. \A o \in Object : listed'[o] <= 1 /\ got'[o] <= listed'[o]
      BY <1>0, <2>1, <2>3, <2>4 DEF Once
    <2>6. \A i \in 1 .. Len(objCh') : objCh'[i] # h
      <3> SUFFICES ASSUME NEW i \in 1 .. Len(objCh'), objCh[i + 1] = objCh[1] PROVE FALSE
        BY <2>2
      <3>1. i + 1 = 1
        BY <1>0, <2>2 DEF Once
      <3> QED BY <3>1
    <2>7. \A i \in 1 .. Len(objCh') : listed'[objCh'[i]] = 1 /\ got'[objCh'[i]] = 0
      BY <1>0, <2>1, <2>2, <2>4, <2>6 DEF Once
    <2>8. ASSUME NEW i \in 1 .. Len(objCh'), NEW j \in 1 .. Len(objCh'), objCh'[i] = objCh'[j]
          PROVE  i = j
      <3>1. PICK a \in 1 .. Len(objCh), b \in 1 .. Len(objCh) : a = i + 1 /\ b = j + 1
        BY <2>2
      <3>2. objCh[a] = objCh[b]
        BY <2>2, <2>8, <3>1
      <3>3. a = b
        BY <1>0, <3>2 DEF Once
      <3>4. a - 1 = i /\ b - 1 = j
        BY <3>1
      <3> QED BY <3>3, <3>4
    <2>9. checking
      BY <1>0, <2>1 DEF Once
    <2> QED BY <2>1, <2>5, <2>7, <2>8, <2>9 DEF Once
  <1>4. ASSUME UNCHANGED <<checking, listed, got, objCh>> PROVE Once'
    BY <1>0, <1>4 DEF Once
  <1>5. ASSUME NEW p \in Prefix, Walker(p) PROVE Once'
    BY <1>1, <1>2, <1>4, <1>5 DEF Walker, TakeSlot, GiveUp, ListAnswers, ListFails, SkipInvalid,
                                  TurnPage, LastPage
  <1>6. CASE CloseObjCh \/ Signal \/ UNCHANGED vars
    BY <1>4, <1>6 DEF CloseObjCh, Signal, vars
  <1>7. ASSUME NEW c \in Consumer, RangeEnds(c) PROVE Once'
    BY <1>4, <1>7 DEF RangeEnds
  <1> QED BY <1>3, <1>5, <1>6, <1>7 DEF Next, Terminated

LEMMA InitOnce == Init => OnceInv
  <1> SUFFICES ASSUME Init PROVE OnceInv
    OBVIOUS
  <1>1. \A p \in Prefix : walk[p] # "emitting"
    BY DEF Init
  <1>2. \A p \in Prefix : \A k \in DOMAIN Tree[p] : \A i \in DOMAIN Objs(p, k) :
           listed[Objs(p, k)[i]] = 0
    BY ObjsTypes DEF Init
  <1>3. Len(objCh) = 0 /\ objCh = <<>> /\ \A o \in Object : listed[o] = 0 /\ got[o] = 0
    BY DEF Init
  <1>4. Once
    BY <1>3 DEF Once
  <1> QED BY <1>1, <1>2, <1>4 DEF OnceInv, Suffix, Fresh

\* When every key is listed on one page: no object is counted or received twice, in whatever
\* order the walks and the consumers run and wherever they are aborted (walker.go:27-32).
THEOREM EachListedOnce == ASSUME KeysOnOnePage PROVE Spec => []ListedOnce
  <1>1. Inv /\ OnceInv => ListedOnce
    BY DEF Inv, Types, OnceInv, Once, ListedOnce
  <1>2. Inv /\ OnceInv /\ [Next]_vars => OnceInv'
    BY KeysOnOnePage, StepSuffix, StepOnce DEF OnceInv
  <1> QED BY <1>1, <1>2, InitOnce, WalkInv, PTL DEF Spec

-----------------------------------------------------------------------------
(* What a listing shows.  Shown is recursive: that its equation has a        *)
(* solution at all is what the first lemmas establish, with the least family *)
(* of sets that is closed under the equation.                                *)

Shows(f, p, o) ==
    \E k \in DOMAIN Tree[p] :
        o \in Elements(Tree[p][k].objs) \/ \E q \in Tree[p][k].subs : o \in f[q]

Level(f) == [p \in Prefix |-> {o \in Object : Shows(f, p, o)}]

ClosedFamily(f) == \A p \in Prefix : \A o \in Object : Shows(f, p, o) => o \in f[p]

Family == [Prefix -> SUBSET Object]

LEMMA LevelMonotone ==
    ASSUME NEW f, NEW g, \A p \in Prefix : f[p] \subseteq g[p], NEW p \in Prefix, NEW o, Shows(f, p, o)
    PROVE  Shows(g, p, o)
  <1>1. PICK k \in DOMAIN Tree[p] :
            o \in Elements(Tree[p][k].objs) \/ \E q \in Tree[p][k].subs : o \in f[q]
    BY DEF Shows
  <1>2. Tree[p][k].subs \subseteq Prefix
    BY TreePages
  <1> QED BY <1>1, <1>2 DEF Shows

LEMMA LevelHasFixpoint == \E f \in Family : f = Level(f)
  <1> DEFINE W == [p \in Prefix |-> {o \in Object : \A f \in Family : ClosedFamily(f) => o \in f[p]}]
  <1>1. W \in Family /\ Level(W) \in Family
    BY DEF Family, Level
  <1>2. ASSUME NEW f \in Family, ClosedFamily(f) PROVE \A p \in Prefix : W[p] \subseteq f[p]
    BY <1>2
  <1>3. ASSUME NEW p \in Prefix, NEW o \in Object, Shows(W, p, o) PROVE o \in W[p]
    <2>1. ASSUME NEW f \in Family, ClosedFamily(f) PROVE o \in f[p]
      <3> HIDE DEF W
      <3>1. Shows(f, p, o)
        BY <1>2, <1>3, <2>1, LevelMonotone
      <3> QED BY <2>1, <3>1 DEF ClosedFamily
    <2> QED BY <2>1
  <1>4. \A p \in Prefix : Level(W)[p] \subseteq W[p]
    <2> HIDE DEF W
    <2> QED BY <1>3 DEF Level
  <1>5. ClosedFamily(Level(W))
    <2> HIDE DEF W
    <2> SUFFICES ASSUME NEW p \in Prefix, NEW o \in Object, Shows(Level(W), p, o)
                 PROVE  o \in Level(W)[p]
      BY DEF ClosedFamily
    <2>1. Shows(W, p, o)
      BY <1>4, LevelMonotone
    <2> QED BY <2>1 DEF Level
  <1>6. \A p \in Prefix : W[p] \subseteq Level(W)[p]
    BY <1>1, <1>2, <1>5
  <1>7. W = Level(W)
    <2> HIDE DEF W
    <2>1. \A p \in Prefix : W[p] = Level(W)[p]
      BY <1>4, <1>6
    <2> QED BY <1>1, <2>1 DEF Family
  <1> QED BY <1>1, <1>7

LEMMA PagesUnion ==
    ASSUME NEW f, NEW p \in Prefix, NEW o
    PROVE  LET pages == {Tree[p][k] : k \in DOMAIN Tree[p]}
           IN o \in UNION {{g.objs[i] : i \in DOMAIN g.objs} \union UNION {f[q] : q \in g.subs} : g \in pages}
              <=> Shows(f, p, o)
  BY DEF Shows, Elements

LEMMA ShownUnfolds == \A p \in Prefix : \A o : o \in Shown[p] <=> Shows(Shown, p, o)
  <1> DEFINE Body(f) ==
        [p \in Prefix |->
            LET pages == {Tree[p][k] : k \in DOMAIN Tree[p]}
            IN UNION {{g.objs[i] : i \in DOMAIN g.objs} \union UNION {f[q] : q \in g.subs} : g \in pages}]
  <1>1. Shown = CHOOSE f : f = Body(f)
    BY DEF Shown
  <1> HIDE DEF Body
  <1>2. ASSUME NEW f \in Family PROVE Body(f) = Level(f)
    <2>1. ASSUME NEW p \in Prefix PROVE Body(f)[p] = {o \in Object : Shows(f, p, o)}
      <3>1. \A o : o \in Body(f)[p] <=> Shows(f, p, o)
        BY PagesUnion DEF Body
      <3>2. ASSUME NEW o, Shows(f, p, o) PROVE o \in Object
        <4>1. PICK k \in DOMAIN Tree[p] :
                  o \in Elements(Tree[p][k].objs) \/ \E q \in Tree[p][k].subs : o \in f[q]
          BY <3>2 DEF Shows
        <4>2. Tree[p][k].objs \in Seq(Object) /\ Tree[p][k].subs \subseteq Prefix
          BY TreePages
        <4>3. o \in Elements(Tree[p][k].objs) => o \in Object
          BY <4>2, ElementType DEF Elements
        <4> QED BY <1>2, <4>1, <4>2, <4>3 DEF Family
      <3> QED BY <3>1, <3>2
    <2>2. Body(f) = [p \in Prefix |-> Body(f)[p]]
      BY DEF Body
    <2> QED BY <2>1, <2>2 DEF Level
  <1>3. Shown = Body(Shown)
    BY <1>1, <1>2, LevelHasFixpoint
  <1>4. \A p \in Prefix : \A o : o \in Body(Shown)[p] <=> Shows(Shown, p, o)
    BY PagesUnion DEF Body
  <1> QED BY <1>3, <1>4

LEMMA ShownFromPage ==
    ASSUME NEW p \in Prefix, NEW k \in Nat \ {0}, NEW j \in DOMAIN Tree[p], k <= j, NEW o,
           o \in Elements(Tree[p][j].objs) \/ \E q \in Tree[p][j].subs : o \in Shown[q]
    PROVE  o \in ShownFrom(p, k)
  <1>1. j \in k .. Len(Tree[p])
    BY TreePages
  <1> QED BY <1>1 DEF ShownFrom, Elements

-----------------------------------------------------------------------------
(* Nothing below the root is lost.  An object that was counted was received, *)
(* is in objCh, or is named by the record of the abort that kept it from     *)
(* being sent (Delivered); and whoever ranges over objCh leaves it empty.    *)

Named(o) ==
    \/ o \in invalid
    \/ \E r \in failed : o \in ShownFrom(r[1], r[2])
    \/ \E p \in Prefix \cap invalid : o \in Shown[p]

LeftOnPage ==
    \A p \in Prefix : walk[p] = "emitting" =>
        Elements(left[p]) \subseteq Elements(Tree[p][page[p]].objs)

LeavesItEmpty == \A c \in Consumer : consumer[c] = "gone" => closed /\ objCh = <<>>

Delivered ==
    checking => \A o \in Object : listed[o] > 0 => got[o] > 0 \/ o \in Elements(objCh) \/ Named(o)

DeliverInv == LeftOnPage /\ LeavesItEmpty /\ Delivered /\ walk[Root] # "none"

LEMMA TailSubset ==
    ASSUME NEW S, NEW s \in Seq(S), s # <<>>
    PROVE  Elements(Tail(s)) \subseteq Elements(s) /\ Head(s) \in Elements(s)
  <1>1. ASSUME NEW i \in DOMAIN Tail(s) PROVE Tail(s)[i] \in Elements(s)
    <2>1. i + 1 \in DOMAIN s /\ Tail(s)[i] = s[i + 1]
      OBVIOUS
    <2> QED BY <2>1 DEF Elements
  <1>2. 1 \in DOMAIN s /\ Head(s) = s[1]
    OBVIOUS
  <1> QED BY <1>1, <1>2 DEF Elements

LEMMA AppendElements ==
    ASSUME NEW S, NEW s \in Seq(S), NEW e \in S
    PROVE  Elements(s) \subseteq Elements(Append(s, e)) /\ e \in Elements(Append(s, e))
  <1>1. ASSUME NEW i \in DOMAIN s PROVE s[i] \in Elements(Append(s, e))
    <2>1. i \in DOMAIN Append(s, e) /\ Append(s, e)[i] = s[i]
      OBVIOUS
    <2> QED BY <2>1 DEF Elements
  <1>2. Len(s) + 1 \in DOMAIN Append(s, e) /\ Append(s, e)[Len(s) + 1] = e
    OBVIOUS
  <1> QED BY <1>1, <1>2 DEF Elements

LEMMA StepLeft == ASSUME Inv, DeliverInv, [Next]_vars PROVE LeftOnPage'
  <1> USE DEF walkVars, chVars, fileVars
  <1> SUFFICES ASSUME NEW q \in Prefix, walk'[q] = "emitting"
               PROVE  Elements(left'[q]) \subseteq Elements(Tree[q][page'[q]].objs)
    BY DEF LeftOnPage, Elements
  <1>0. left \in [Prefix -> Seq(Object)] /\ page \in [Prefix -> Nat \ {0}]
        /\ walk \in [Prefix -> {"none", "waiting", "listing", "emitting", "done"}]
    BY DEF Inv, Types
  <1>1. ASSUME walk[q] = "emitting", page'[q] = page[q], left'[q] = left[q]
        PROVE  Elements(left'[q]) \subseteq Elements(Tree[q][page'[q]].objs)
    BY <1>1 DEF DeliverInv, LeftOnPage
  <1>2. ASSUME NEW p \in Prefix, Walker(p), q # p
        PROVE  Elements(left'[q]) \subseteq Elements(Tree[q][page'[q]].objs)
    BY <1>1, <1>2, OtherWalks
  <1>3. CASE ListAnswers(q)
    BY <1>0, <1>3 DEF ListAnswers
  <1>4. CASE SkipInvalid(q) \/ Push(q) \/ CountOnly(q)
    <2>1. left[q] # <<>> /\ walk[q] = "emitting" /\ page' = page /\ left' = [left EXCEPT ![q] = Tail(@)]
      BY <1>4 DEF SkipInvalid, Push, CountOnly, Emits
    <2>2. left'[q] = Tail(left[q]) /\ left[q] \in Seq(Object)
      BY <1>0, <2>1
    <2>3. Elements(left'[q]) \subseteq Elements(left[q])
      BY <2>1, <2>2, TailSubset
    <2> QED BY <2>1, <2>3 DEF DeliverInv, LeftOnPage
  <1>5. CASE TakeSlot(q) \/ GiveUp(q) \/ ListFails(q) \/ Abort(q)
    BY <1>0, <1>5 DEF TakeSlot, GiveUp, ListFails, Abort, End
  <1>6. CASE TurnPage(q) \/ LastPage(q)
    <2>1. walk'[q] # "emitting"
      BY <1>6, SpawnMoves DEF TurnPage, LastPage
    <2> QED BY <2>1
  <1>7. CASE UNCHANGED <<walk, page, left>>
    BY <1>1, <1>7
  <1> QED BY <1>2, <1>3, <1>4, <1>5, <1>6, <1>7 DEF Next, Walker, CloseObjCh, Receive, RangeEnds,
             Signal, Terminated, vars

LEMMA StepEmpty == ASSUME Inv, DeliverInv, [Next]_vars PROVE LeavesItEmpty'
  <1> USE DEF walkVars, chVars, fileVars
  <1>1. ASSUME NEW p \in Prefix, Push(p) PROVE LeavesItEmpty'
    <2>1. ~closed /\ UNCHANGED consumer
      BY <1>1 DEF Push, Emits, Inv, ClosedLast, Alive
    <2> QED BY <2>1 DEF DeliverInv, LeavesItEmpty
  <1>2. ASSUME NEW c \in Consumer, Receive(c) PROVE LeavesItEmpty'
    <2>1. objCh # <<>> /\ UNCHANGED consumer
      BY <1>2 DEF Receive
    <2> QED BY <2>1 DEF DeliverInv, LeavesItEmpty
  <1>3. ASSUME NEW c \in Consumer, RangeEnds(c) PROVE LeavesItEmpty'
    <2>1. closed' /\ objCh' = <<>>
      BY <1>3 DEF RangeEnds
    <2> QED BY <2>1 DEF LeavesItEmpty
  <1>4. ASSUME UNCHANGED <<consumer, objCh>>, closed => closed' PROVE LeavesItEmpty'
    BY <1>4 DEF DeliverInv, LeavesItEmpty
  <1> QED BY <1>1, <1>2, <1>3, <1>4 DEF Next, Walker, TakeSlot, GiveUp, ListAnswers, ListFails,
             SkipInvalid, CountOnly, Abort, TurnPage, LastPage, CloseObjCh, Signal, Terminated, vars

LEMMA StaysNamed == ASSUME Inv, [Next]_vars, NEW o, Named(o) PROVE Named(o)'
  <1>1. invalid \subseteq invalid' /\ failed \subseteq failed'
    BY StepMonotone
  <1> QED BY <1>1 DEF Named

\* The abort names the object it was about to send: its page is the one that is recorded.
LEMMA AbortNames ==
    ASSUME Inv, DeliverInv, NEW p \in Prefix, Abort(p)
    PROVE  \E o \in Object : o = Head(left[p]) /\ Named(o)'
  <1> PICK o : o = Head(left[p])
    OBVIOUS
  <1> PICK k : k = page[p]
    OBVIOUS
  <1>1. walk[p] = "emitting" /\ left[p] # <<>> /\ left[p] \in Seq(Object) /\ Record(p)
    BY DEF Abort, Emits, Inv, Types
  <1>2. o \in Elements(left[p]) /\ o \in Object
    BY <1>1, TailSubset, TailElements
  <1>3. k \in DOMAIN Tree[p] /\ k \in Nat \ {0} /\ k <= k
    BY DEF Inv, OnPage, Types
  <1>4. o \in Elements(Tree[p][k].objs)
    BY <1>1, <1>2 DEF DeliverInv, LeftOnPage
  <1>5. ASSUME p \in PipePrefix PROVE Named(o)'
    <2>1. p \in invalid'
      BY <1>1, <1>5 DEF Record
    <2>2. o \in Shown[p]
      BY <1>3, <1>4, ShownUnfolds DEF Shows
    <2>3. \E q \in Prefix \cap invalid' : o \in Shown[q]
      BY <2>1, <2>2
    <2> QED BY <1>2, <2>3 DEF Named
  <1>6. ASSUME p \notin PipePrefix PROVE Named(o)'
    <2>1. <<p, k>> \in failed'
      BY <1>1, <1>6 DEF Record
    <2>2. o \in ShownFrom(p, k)
      BY <1>3, <1>4, ShownFromPage
    <2>3. \E r \in failed' : o \in ShownFrom(r[1], r[2])
      BY <2>1, <2>2
    <2> QED BY <1>2, <2>3 DEF Named
  <1> QED BY <1>2, <1>5, <1>6

LEMMA StepDelivered == ASSUME Inv, DeliverInv, [Next]_vars PROVE Delivered'
  <1> USE DEF walkVars, chVars, fileVars
  <1> SUFFICES ASSUME checking', NEW o \in Object, listed'[o] > 0
               PROVE  got'[o] > 0 \/ o \in Elements(objCh') \/ Named(o)'
    BY DEF Delivered, Elements
  <1>0. /\ left \in [Prefix -> Seq(Object)] /\ objCh \in Seq(Object)
        /\ listed \in [Object -> Nat] /\ got \in [Object -> Nat]
    BY DEF Inv, Types
  <1>1. checking
    BY DEF Next, Walker, TakeSlot, GiveUp, ListAnswers, ListFails, SkipInvalid, Push, CountOnly, Abort,
           TurnPage, LastPage, CloseObjCh, Receive, RangeEnds, Signal, Terminated, vars
  <1>2. listed[o] > 0 => got[o] > 0 \/ o \in Elements(objCh) \/ Named(o)'
    BY <1>1, StaysNamed DEF DeliverInv, Delivered
  <1>3. ASSUME NEW p \in Prefix, Push(p)
        PROVE  got'[o] > 0 \/ o \in Elements(objCh')
               \/ (listed'[o] = listed[o] /\ got'[o] = got[o] /\ Elements(objCh) \subseteq Elements(objCh'))
    <2>1. /\ left[p] # <<>> /\ listed' = [listed EXCEPT ![Head(left[p])] = @ + 1]
          /\ objCh' = Append(objCh, Head(left[p])) /\ got' = got
      BY <1>3 DEF Push, Emits
    <2>2. Head(left[p]) \in Object
      BY <1>0, <2>1, TailElements
    <2>3. Elements(objCh) \subseteq Elements(objCh') /\ Head(left[p]) \in Elements(objCh')
      BY <1>0, <2>1, <2>2, AppendElements
    <2> QED BY <1>0, <2>1, <2>2, <2>3
  <1>4. ASSUME NEW p \in Prefix, Abort(p)
        PROVE  Named(o)' \/ (listed'[o] = listed[o] /\ got' = got /\ objCh' = objCh)
    <2>1. PICK h \in Object : h = Head(left[p]) /\ Named(h)'
      BY <1>4, AbortNames
    <2>2. listed' = [listed EXCEPT ![h] = @ + 1] /\ UNCHANGED <<got, objCh>>
      BY <1>4, <2>1 DEF Abort, Emits
    <2> QED BY <1>0, <2>1, <2>2
  <1>5. ASSUME NEW c \in Consumer, Receive(c)
        PROVE  /\ listed' = listed
               /\ got[o] > 0 => got'[o] > 0
               /\ o \in Elements(objCh) => got'[o] > 0 \/ o \in Elements(objCh')
    <2>1. /\ objCh # <<>> /\ got' = [got EXCEPT ![Head(objCh)] = @ + 1]
          /\ objCh' = Tail(objCh) /\ listed' = listed
      BY <1>5 DEF Receive
    <2>2. Head(objCh) \in Object /\ Elements(objCh) \subseteq {Head(objCh)} \union Elements(Tail(objCh))
      BY <1>0, <2>1, TailElements
    <2> QED BY <1>0, <2>1, <2>2
  <1>6. ASSUME UNCHANGED <<listed, got, objCh>>
        PROVE  got'[o] > 0 \/ o \in Elements(objCh') \/ Named(o)'
    BY <1>2, <1>6
  <1>7. ASSUME NEW p \in Prefix, Walker(p)
        PROVE  got'[o] > 0 \/ o \in Elements(objCh') \/ Named(o)'
    <2>1. CASE Push(p)
      BY <1>2, <1>3, <2>1
    <2>2. CASE Abort(p)
      BY <1>2, <1>4, <2>2
    <2>3. CASE CountOnly(p)
      BY <1>1, <2>3 DEF CountOnly
    <2> QED BY <1>6, <1>7, <2>1, <2>2, <2>3 DEF Walker, TakeSlot, GiveUp, ListAnswers, ListFails,
               SkipInvalid, TurnPage, LastPage
  <1>8. ASSUME NEW c \in Consumer, Receive(c)
        PROVE  got'[o] > 0 \/ o \in Elements(objCh') \/ Named(o)'
    BY <1>2, <1>5, <1>8
  <1> QED BY <1>6, <1>7, <1>8 DEF Next, CloseObjCh, RangeEnds, Signal, Terminated, vars

LEMMA InitDeliver == Init => DeliverInv
  <1> SUFFICES ASSUME Init PROVE DeliverInv
    OBVIOUS
  <1>1. /\ \A p \in Prefix : walk[p] # "emitting"
        /\ \A c \in Consumer : consumer[c] # "gone"
        /\ \A o \in Object : ~(listed[o] > 0)
        /\ walk[Root] # "none"
    BY WalkAssumption DEF Init
  <1> QED BY <1>1 DEF DeliverInv, LeftOnPage, LeavesItEmpty, Delivered

\* Down the tree, from a prefix that shows o, there is one that names it: the lowest prefix
\* that was walked and shows o has o on a page of its own, or left a record.
LEMMA WalkedIsAccounted ==
    ASSUME Inv, DeliverInv, Returned,
           NEW Height \in [Prefix -> Nat], Descends(Height), NEW o \in Shown[Root]
    PROVE  (IF checking THEN got[o] > 0 ELSE listed[o] > 0) \/ Named(o)
  <1> SUFFICES ASSUME ~Named(o) PROVE IF checking THEN got[o] > 0 ELSE listed[o] > 0
    OBVIOUS
  <1>1. closed /\ objCh = <<>>
    BY WalkAssumption DEF Returned, DeliverInv, LeavesItEmpty
  <1>2. \A p \in Prefix : walk[p] \in {"none", "done"}
    BY <1>1 DEF Inv, Types, ClosedLast, Alive
  <1> DEFINE Showing == {p \in Prefix : walk[p] = "done" /\ o \in Shown[p]}
             T == {Height[p] : p \in Showing}
  <1>3. Root \in Showing
    BY <1>2, WalkAssumption DEF DeliverInv
  <1>4. PICK p \in Showing : \A q \in Showing : Height[p] <= Height[q]
    <2>1. T \subseteq Nat /\ T # {}
      BY <1>3
    <2>2. \E m \in T : \A n \in T : m <= n
      <3> HIDE DEF T
      <3> QED BY <2>1, LeastElementExists
    <2> QED BY <2>2
  <1>5. p \in Prefix /\ walk[p] = "done" /\ o \in Shown[p]
    OBVIOUS
  <1>6. PICK k \in DOMAIN Tree[p] :
            o \in Elements(Tree[p][k].objs) \/ \E q \in Tree[p][k].subs : o \in Shown[q]
    BY <1>5, ShownUnfolds DEF Shows
  <1>7. ~Reported(p, k)
    <2>1. p \notin invalid
      BY <1>5 DEF Named
    <2>2. ASSUME NEW j \in 1 .. k, <<p, j>> \in failed PROVE FALSE
      <3>1. k \in Nat /\ j \in Nat \ {0} /\ j <= k
        BY TreePages, <1>5
      <3>2. o \in ShownFrom(p, j)
        BY <1>5, <1>6, <3>1, ShownFromPage
      <3> QED BY <2>2, <3>2 DEF Named
    <2> QED BY <2>1, <2>2 DEF Reported
  <1>8. PageDone(p, k)
    BY <1>5, <1>7 DEF Inv, EndedWalksCovered
  <1>9. ASSUME NEW q \in Tree[p][k].subs, o \in Shown[q] PROVE FALSE
    <2>1. q \in Prefix /\ walk[q] = "done"
      BY <1>2, <1>5, <1>8, TreePages DEF PageDone
    <2>2. Height[p] <= Height[q]
      BY <1>4, <1>9, <2>1
    <2>3. Height[q] < Height[p]
      BY <1>5 DEF Descends
    <2>4. Height[p] \in Nat /\ Height[q] \in Nat
      BY <1>5, <2>1
    <2> QED BY <2>2, <2>3, <2>4
  <1>10. o \in Elements(Tree[p][k].objs)
    BY <1>6, <1>9
  <1>11. o \in Object /\ (o \in invalid \/ listed[o] > 0)
    <2>1. PICK i \in DOMAIN Tree[p][k].objs : o = Tree[p][k].objs[i]
      BY <1>10 DEF Elements
    <2>2. o \in Object
      BY <1>5, <2>1, TreePages, ElementType
    <2> QED BY <1>8, <2>1, <2>2 DEF PageDone
  <1>12. listed[o] > 0
    BY <1>11 DEF Named
  <1> QED BY <1>1, <1>11, <1>12, EmptyElements DEF DeliverInv, Delivered

\* When the run is over, every object below the root was received by a check worker (counted,
\* in list-only mode), or a line of list_failed or invalid_keys names it or a prefix that shows
\* it: no mix of LIST errors, signals and full channels loses a subtree (walker.go:33-42).
\* Height says that the tree has no infinite way down: sub-prefixes are longer than their prefix.
THEOREM NoSubtreeLost ==
    ASSUME NEW Height \in [Prefix -> Nat], Descends(Height)
    PROVE  Spec => []WholeTree
  <1>1. Inv /\ DeliverInv => WholeTree
    BY WalkedIsAccounted DEF WholeTree, Named
  <1>2. Inv /\ DeliverInv /\ [Next]_vars => DeliverInv'
    BY StepLeft, StepEmpty, StepDelivered, StepMonotone, WalkAssumption DEF DeliverInv
  <1> QED BY <1>1, <1>2, InitDeliver, WalkInv, PTL DEF Spec
=============================================================================
