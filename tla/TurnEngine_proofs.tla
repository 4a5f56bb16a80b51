------------------------- MODULE TurnEngine_proofs -------------------------
(***************************************************************************)
(* What is proved of the turn engine, for any creatures, owners, bounds    *)
(* and starting phase: the types, that the queue and the call stack fit    *)
(* together, the safety invariants of the phases and of the combat steps,  *)
(* and that the engine implements TurnOrder.  Then, in the second half,    *)
(* what is proved of the cards, the views and the damage screen.           *)
(*                                                                         *)
(* None of these is inductive, since a call is only right for the calls    *)
(* and events that still wait around it.  Control, the strengthening, has  *)
(* one form for each way the stack calls can look:                         *)
(*   Running        the game loop's own calls, with an empty queue;        *)
(*   Quiet          a queue being drained whose handlers call nothing;     *)
(*   Arrives        a queue that ends in the event of a combat step;       *)
(*   Nested         a listener, called from the drain, made a call of its  *)
(*                  own, and the event it answers is still at the head;    *)
(*   NestedArrives  the same, with the event of the next step behind it.   *)
(* Each form says which calls may be next, which events wait and how far   *)
(* the turn, the step, the screen and the strikes are.                     *)
(***************************************************************************)
EXTENDS TurnEngine, SequenceTheorems, FiniteSetTheorems, TLAPS

-----------------------------------------------------------------------------
(* Sequences.                                                              *)

(* A tuple put together from its elements.                                 *)
LEMMA Pair ==
  ASSUME NEW a, NEW b
  PROVE  <<a>> \o <<b>> = <<a, b>>
<1> DEFINE S == {a, b}
<1>1. <<a>> \in Seq(S) /\ <<b>> \in Seq(S) /\ <<a, b>> \in Seq(S)
  BY SMT
<1>2. /\ <<a>> \o <<b>> \in Seq(S) /\ Len(<<a>> \o <<b>>) = 2
      /\ \A i \in 1..2 : (<<a>> \o <<b>>)[i] = <<a, b>>[i]
  BY <1>1, ConcatProperties, SMT
<1> HIDE DEF S
<1> QED
  BY <1>1, <1>2, SeqEqual

(* A tuple of one element.                                                 *)
LEMMA One ==
  ASSUME NEW S, NEW e \in S
  PROVE  <<e>> \in Seq(S) /\ <<e>> # <<>>
OBVIOUS

(* Three elements put together.                                            *)
LEMMA Triple ==
  ASSUME NEW a, NEW b, NEW c
  PROVE  <<a>> \o <<b, c>> = <<a, b, c>> /\ <<a, b>> \o <<c>> = <<a, b, c>>
<1>1. <<a>> \o <<b>> = <<a, b>> /\ <<b>> \o <<c>> = <<b, c>>
  BY Pair
<1> DEFINE S == {a, b, c}
<1>2. /\ <<a>> \in Seq(S) /\ <<b>> \in Seq(S) /\ <<c>> \in Seq(S)
      /\ <<b, c>> \in Seq(S) /\ <<a, b, c>> \in Seq(S)
  BY SMT
<1>3. <<a>> \o <<b, c>> = <<a, b, c>>
  <2>1. /\ <<a>> \o <<b, c>> \in Seq(S) /\ Len(<<a>> \o <<b, c>>) = 3
        /\ \A i \in 1..3 : (<<a>> \o <<b, c>>)[i] = <<a, b, c>>[i]
    BY <1>2, ConcatProperties, SMT
  <2> HIDE DEF S
  <2> QED BY <1>2, <2>1, SeqEqual
<1>4. (<<a>> \o <<b>>) \o <<c>> = <<a>> \o (<<b>> \o <<c>>)
  BY <1>2, ConcatAssociative
<1> QED
  BY <1>1, <1>3, <1>4

(* Short tuples, taken apart.                                              *)
LEMMA Short ==
  ASSUME NEW a, NEW b, NEW c
  PROVE  /\ <<a>> # <<>> /\ Head(<<a>>) = a /\ Tail(<<a>>) = <<>>
         /\ <<a, b>> # <<>> /\ Head(<<a, b>>) = a /\ Tail(<<a, b>>) = <<b>>
         /\ <<a, b, c>> # <<>> /\ Head(<<a, b, c>>) = a /\ Tail(<<a, b, c>>) = <<b, c>>
<1>1. <<a>> # <<>> /\ Head(<<a>>) = a
  BY SMT
<1>2. Tail(<<a>>) = <<>>
  BY SMT
<1>3. <<a, b>> # <<>> /\ Head(<<a, b>>) = a
  BY SMT
<1>4. Tail(<<a, b>>) = <<b>>
  BY SMT
<1>5. <<a, b, c>> # <<>> /\ Head(<<a, b, c>>) = a
  BY SMT
<1>6. Tail(<<a, b, c>>) = <<b, c>>
  BY SMT
<1> QED
  BY <1>1, <1>2, <1>3, <1>4, <1>5, <1>6

(* Sequences put together.                                                 *)
LEMMA Concat ==
  ASSUME NEW S, NEW s \in Seq(S), NEW t \in Seq(S)
  PROVE  /\ s \o t \in Seq(S)
         /\ <<>> \o s = s /\ s \o <<>> = s
         /\ s \o t = <<>> <=> s = <<>> /\ t = <<>>
         /\ s # <<>> => /\ Head(s) \in S /\ Tail(s) \in Seq(S)
                        /\ s = <<Head(s)>> \o Tail(s)
                        /\ Head(s \o t) = Head(s)
                        /\ Tail(s \o t) = Tail(s) \o t
<1>1. s \o t \in Seq(S)
  BY ConcatProperties
<1>2. <<>> \o s = s /\ s \o <<>> = s
  BY ConcatEmptySeq
<1>4. s \o t = <<>> <=> s = <<>> /\ t = <<>>
  BY ConcatEqualIffEmpty
<1>5. ASSUME s # <<>>
      PROVE  /\ Head(s) \in S /\ Tail(s) \in Seq(S)
             /\ s = <<Head(s)>> \o Tail(s)
             /\ Head(s \o t) = Head(s)
             /\ Tail(s \o t) = Tail(s) \o t
  <2>1. Head(s) \in S /\ Tail(s) \in Seq(S)
    BY <1>5, HeadTailProperties
  <2>2. s = <<Head(s)>> \o Tail(s)
    BY <1>5, SMT
  <2>3. Head(s \o t) = Head(s)
    BY <1>5, SMT
  <2>4. Tail(s \o t) = Tail(s) \o t
    BY <1>5, SMT
  <2> QED BY <2>1, <2>2, <2>3, <2>4
<1> QED BY <1>1, <1>2, <1>4, <1>5

-----------------------------------------------------------------------------
(* Calls and events.                                                       *)

Skip(p)      == [op |-> "skipCombat", old |-> p]
TurnTo(p, q) == [type |-> "PhaseChange", from |-> p, to |-> q]
Step(s)      == [type |-> "CombatStepChange", step |-> s]

(* What a call is told by.                                                 *)
LEMMA CallFacts ==
  /\ \A op : Do(op).op = op
  /\ \A op \in {"drain", "pop", "nextGamePhase", "forward", "enterPhase",
                "phaseActions", "nextCombatStep", "triggersStep"} : Do(op) \in Call
  /\ \A p \in Phase : Skip(p) \in Call /\ Skip(p).op = "skipCombat" /\ Skip(p).old = p
  /\ \A c \in Call : c.op = "skipCombat" => c.old \in Phase
BY DEF Do, Skip, Call

(* Calls one after the other.                                              *)
LEMMA CallSeqs ==
  /\ <<>> \in Seq(Call)
  /\ \A s \in Seq(Call) : \A t \in Seq(Call) :
       /\ s \o t \in Seq(Call)
       /\ <<>> \o s = s /\ s \o <<>> = s
       /\ s \o t = <<>> <=> s = <<>> /\ t = <<>>
       /\ s # <<>> => /\ Head(s) \in Call /\ Tail(s) \in Seq(Call)
                      /\ s = <<Head(s)>> \o Tail(s)
                      /\ Head(s \o t) = Head(s)
                      /\ Tail(s \o t) = Tail(s) \o t
BY Concat, EmptySeq

(* What an event carries.                                                  *)
LEMMA EventFacts ==
  ASSUME NEW e \in Event
  PROVE  /\ e.type \in {"AttackerOn", "AttackerOff", "ZoneChange"} => e.card \in Creature
         /\ e.type = "Blocker" => /\ e.card \in Creature
                                  /\ e.before \in Creature \cup {NoCard}
                                  /\ e.after \in Creature \cup {NoCard}
         /\ e.type = "PhaseChange" => e.from \in Phase /\ e.to \in Phase
         /\ e.type = "CombatStepChange" => e.step \in CombatStep
         /\ e.type = "DamageStackResolved" => e.hit \subseteq Creature
BY DEF Event

(* Events one after the other.                                             *)
LEMMA EventSeqs ==
  /\ <<>> \in Seq(Event)
  /\ \A s \in Seq(Event) : \A t \in Seq(Event) :
       /\ s \o t \in Seq(Event)
       /\ <<>> \o s = s /\ s \o <<>> = s
       /\ s \o t = <<>> <=> s = <<>> /\ t = <<>>
       /\ s # <<>> => /\ Head(s) \in Event /\ Tail(s) \in Seq(Event)
                      /\ s = <<Head(s)>> \o Tail(s)
                      /\ Head(s \o t) = Head(s)
                      /\ Tail(s \o t) = Tail(s) \o t
BY Concat, EmptySeq

(* The events the engine raises are events.                                *)
LEMMA EventTypes ==
  /\ [type |-> "AttackersChosen"] \in Event /\ [type |-> "BlockersChosen"] \in Event
  /\ \A p, q \in Phase : TurnTo(p, q) \in Event /\ TurnTo(p, q).type = "PhaseChange"
                           /\ TurnTo(p, q).from = p /\ TurnTo(p, q).to = q
  /\ \A s \in CombatStep : Step(s) \in Event /\ Step(s).type = "CombatStepChange"
                            /\ Step(s).step = s
  /\ \A c \in Creature, t \in {"AttackerOn", "AttackerOff", "ZoneChange"} :
       [type |-> t, card |-> c] \in Event
  /\ \A c \in Creature : \A a, b \in Creature \cup {NoCard} :
       [type |-> "Blocker", card |-> c, before |-> a, after |-> b] \in Event
  /\ \A H \in SUBSET Creature : [type |-> "DamageStackResolved", hit |-> H] \in Event
<1>1. /\ [type |-> "AttackersChosen"] \in Event /\ [type |-> "BlockersChosen"] \in Event
      /\ \A H \in SUBSET Creature : [type |-> "DamageStackResolved", hit |-> H] \in Event
  BY DEF Event
<1>2. \A p, q \in Phase : TurnTo(p, q) \in Event /\ TurnTo(p, q).type = "PhaseChange"
                           /\ TurnTo(p, q).from = p /\ TurnTo(p, q).to = q
  BY DEF Event, TurnTo
<1>3. \A s \in CombatStep : Step(s) \in Event /\ Step(s).type = "CombatStepChange"
                            /\ Step(s).step = s
  BY DEF Event, Step
<1>4. \A c \in Creature, t \in {"AttackerOn", "AttackerOff", "ZoneChange"} :
       [type |-> t, card |-> c] \in Event
  BY DEF Event
<1>5. \A c \in Creature : \A a, b \in Creature \cup {NoCard} :
       [type |-> "Blocker", card |-> c, before |-> a, after |-> b] \in Event
  BY DEF Event
<1> QED
  BY <1>1, <1>2, <1>3, <1>4, <1>5

(* A finite set of events, in whatever order, is a sequence of them.       *)
LEMMA EventsInOrder ==
  ASSUME NEW T, NEW S \in SUBSET T, IsFiniteSet(S)
  PROVE  Events(S) \in Seq(T)
<1> DEFINE n == Cardinality(S)
<1>1. n \in Nat /\ ExistsBijection(1..n, S)
  BY FS_CardinalityType
<1>2. PICK f \in [1..n -> S] : IsInjective(f)
  BY <1>1 DEF ExistsBijection, Bijection, Injection
<1>3. Events(S) \in [1..n -> S]
  BY <1>2 DEF Events, SetToSeq
<1> HIDE DEF n
<1>4. Events(S) \in [1..n -> T]
  BY <1>3
<1> QED
  BY <1>1, <1>4, SeqDef

(* One event for each creature of a set makes finitely many.               *)
LEMMA FinitelyMany ==
  ASSUME NEW C \in SUBSET Creature, NEW f
  PROVE  IsFiniteSet({f[c] : c \in C}) /\ IsFiniteSet(C)
<1>1. IsFiniteSet(C)
  BY FS_Subset, CreatureAssumption
<1> DEFINE g == [c \in C |-> f[c]]
           T == {f[c] : c \in C}
<1>2. g \in Surjection(C, T)
  BY DEF Surjection
<1>3. IsFiniteSet(T)
  <2> HIDE DEF g, T
  <2> QED BY <1>1, <1>2, FS_Surjection
<1> QED
  BY <1>1, <1>3

(* Those raised when creatures leave the combat or leave play.             *)
LEMMA LeaveEventsTyped ==
  ASSUME TypeOK, NEW C \in SUBSET Creature, NEW D \in SUBSET Creature
  PROVE  /\ LeaveEvents(C, D) \in SUBSET {e \in Event : e.type \in {"AttackerOff", "Blocker", "ZoneChange"}}
         /\ IsFiniteSet(LeaveEvents(C, D))
<1> DEFINE Off(c)  == [type |-> "AttackerOff", card |-> c]
           Free1(c) == [type |-> "Blocker", card |-> c, before |-> defenser[c], after |-> NoCard]
           Gone1(c) == [type |-> "ZoneChange", card |-> c]
           A == C \cap attacker
           B == {c \in C : defenser[c] # NoCard}
           off  == [c \in Creature |-> Off(c)]
           free == [c \in Creature |-> Free1(c)]
           gone == [c \in Creature |-> Gone1(c)]
<1>1. LeaveEvents(C, D) = {off[c] : c \in A} \cup {free[c] : c \in B} \cup {gone[c] : c \in D}
  BY DEF LeaveEvents
<1>2. A \in SUBSET Creature /\ B \in SUBSET Creature
  OBVIOUS
<1>3. /\ \A c \in Creature : off[c] \in Event /\ off[c].type = "AttackerOff"
      /\ \A c \in Creature : free[c] \in Event /\ free[c].type = "Blocker"
      /\ \A c \in Creature : gone[c] \in Event /\ gone[c].type = "ZoneChange"
  BY EventTypes DEF TypeOK
<1> HIDE DEF off, free, gone, A, B
<1>4. IsFiniteSet({off[c] : c \in A}) /\ IsFiniteSet({free[c] : c \in B}) /\ IsFiniteSet({gone[c] : c \in D})
  BY <1>2, FinitelyMany
<1>5. IsFiniteSet(LeaveEvents(C, D))
  <2> DEFINE X == {off[c] : c \in A}
             Y == {free[c] : c \in B}
             Z == {gone[c] : c \in D}
  <2>1. LeaveEvents(C, D) = (X \cup Y) \cup Z /\ IsFiniteSet(X) /\ IsFiniteSet(Y) /\ IsFiniteSet(Z)
    BY <1>1, <1>4
  <2> HIDE DEF X, Y, Z
  <2>2. IsFiniteSet(X \cup Y)
    BY <2>1, FS_Union
  <2> QED BY <2>1, <2>2, FS_Union
<1>6. LeaveEvents(C, D) \in SUBSET {e \in Event : e.type \in {"AttackerOff", "Blocker", "ZoneChange"}}
  BY <1>1, <1>2, <1>3
<1> QED
  BY <1>5, <1>6

(* Events of one kind, one for each creature of a set.                     *)
LEMMA CardEventsTyped ==
  ASSUME NEW t \in {"AttackerOn", "AttackerOff", "ZoneChange"}, NEW C \in SUBSET Creature
  PROVE  /\ Events({[type |-> t, card |-> c] : c \in C}) \in Seq({e \in Event : e.type = t})
         /\ Events({[type |-> t, card |-> c] : c \in C}) \in Seq(Event)
<1> DEFINE f == [c \in Creature |-> [type |-> t, card |-> c]]
           S == {f[c] : c \in C}
           T == {e \in Event : e.type = t}
<1>1. S = {[type |-> t, card |-> c] : c \in C}
  OBVIOUS
<1>2. S \in SUBSET T
  <2>1. \A c \in Creature : f[c] \in Event /\ f[c].type = t
    BY EventTypes
  <2> HIDE DEF f
  <2> QED BY <2>1
<1>3. IsFiniteSet(S)
  <2> HIDE DEF f
  <2> QED BY FinitelyMany
<1>4. T \subseteq Event
  OBVIOUS
<1> HIDE DEF S, T
<1>5. Events(S) \in Seq(T)
  BY <1>2, <1>3, EventsInOrder
<1>6. Events(S) \in Seq(Event)
  BY <1>2, <1>3, <1>4, EventsInOrder
<1> QED
  BY <1>1, <1>5, <1>6 DEF T

(* Raise() keeps calls and eventsQueue in their types.                     *)
LEMMA RaiseTyped ==
  ASSUME TypeOK, NEW es \in Seq(Event), NEW k \in Seq(Call), Raise(es, k)
  PROVE  eventsQueue' \in Seq(Event) /\ calls' \in Seq(Call)
<1>1. <<Do("drain")>> \in Seq(Call) /\ <<>> \in Seq(Call)
  BY CallFacts
<1> QED
  BY <1>1, Concat DEF Raise, TypeOK

(* A call on top of the others keeps calls in its type.                    *)
LEMMA ReturnTyped ==
  ASSUME TypeOK, NEW op, Return(op)
  PROVE  /\ calls \in Seq(Call) /\ calls # <<>> /\ Head(calls) \in Call /\ Rest \in Seq(Call)
         /\ \A a \in {"nextGamePhase", "forward", "enterPhase", "phaseActions",
                      "nextCombatStep", "triggersStep", "pop", "drain"} :
              <<Do(a)>> \o Rest \in Seq(Call)
<1>1. calls \in Seq(Call) /\ calls # <<>>
  BY DEF Return, TypeOK
<1>2. Head(calls) \in Call /\ Rest \in Seq(Call)
  BY <1>1, HeadTailProperties DEF Rest
<1>3. \A a \in {"nextGamePhase", "forward", "enterPhase", "phaseActions",
                "nextCombatStep", "triggersStep", "pop", "drain"} : <<Do(a)>> \in Seq(Call)
  BY CallFacts
<1> QED
  BY <1>1, <1>2, <1>3, Concat

(* So do the calls a listener makes.                                       *)
LEMMA DeliveredTyped ==
  ASSUME TypeOK, NEW type, Delivering(type)
  PROVE  /\ Delivery \in Event /\ Delivery.type = type
         /\ Delivered(<<>>) => calls' \in Seq(Call)
         /\ \A op \in {"nextGamePhase", "nextCombatStep"} :
              Delivered(<<Do(op)>>) => calls' \in Seq(Call)
<1>1. <<Do("pop")>> \in Seq(Call) /\ Rest \in Seq(Call) /\ <<>> \in Seq(Call)
  BY CallFacts, ReturnTyped DEF Delivering
<1>2. \A op \in {"nextGamePhase", "nextCombatStep"} : <<Do(op)>> \in Seq(Call)
  BY CallFacts
<1>3. Delivery \in Event /\ Delivery.type = type
  BY HeadTailProperties DEF Delivering, Delivery, TypeOK
<1>4. \A ops \in Seq(Call) : ops \o <<Do("pop")>> \o Rest \in Seq(Call)
  BY <1>1, Concat
<1> QED
  BY <1>1, <1>2, <1>3, <1>4 DEF Delivered

-----------------------------------------------------------------------------
(* Types.                                                                  *)

GameTyped ==
  /\ phase \in Phase /\ currentGamePhase \in Phase
  /\ ringOwner \in Players /\ currentPlayer \in Players
  /\ extraTurn \in [Players -> Nat] /\ skippingTurn \in [Players -> Nat]
CardTyped ==
  /\ inPlay \subseteq Creature /\ attacker \subseteq Creature /\ blocked \subseteq Creature
  /\ defenser \in [Creature -> Creature \cup {NoCard}]
  /\ blockers \in [Creature -> SUBSET Creature]
GuiTyped ==
  /\ guiStep \in CombatStep
  /\ cursor \in {"NONE", "ATK", "BLK", "OK"}
  /\ activeAtk \in Creature \cup {NoCard}
  /\ view \subseteq Creature
  /\ viewBlk \in [Creature -> SUBSET Creature]
  /\ show \subseteq Creature
  /\ damages \subseteq (Creature \X Creature)

(* The type invariant, by parts.                                           *)
LEMMA TypeParts ==
  TypeOK <=> /\ GameTyped /\ CardTyped /\ GuiTyped
             /\ combatStep \in CombatStep /\ strikes \in Seq(CombatStep)
             /\ eventsQueue \in Seq(Event) /\ calls \in Seq(Call)
BY DEF TypeOK, GameTyped, CardTyped, GuiTyped

(* What does not change keeps its type.                                    *)
LEMMA SameTypes ==
  /\ GameTyped /\ UNCHANGED turnVars => GameTyped'
  /\ CardTyped /\ UNCHANGED cardVars => CardTyped'
  /\ GuiTyped /\ UNCHANGED guiVars => GuiTyped'
<1>1. GameTyped /\ UNCHANGED turnVars => GameTyped'
  BY DEF GameTyped, turnVars
<1>2. CardTyped /\ UNCHANGED cardVars => CardTyped'
  BY DEF CardTyped, cardVars
<1>3. GuiTyped /\ UNCHANGED guiVars => GuiTyped'
  BY DEF GuiTyped, guiVars
<1> QED
  BY <1>1, <1>2, <1>3

(* initAttackersDefensers() keeps the types of the cards.                  *)
LEMMA LeaveCombatTyped ==
  ASSUME TypeOK, NEW C \in SUBSET Creature, NEW D \in SUBSET Creature, LeaveCombat(C, D)
  PROVE  CardTyped'
BY DEF TypeOK, CardTyped, LeaveCombat, Freed

(* Damage is assigned from a creature to a creature.                       *)
LEMMA AssignmentTyped ==
  ASSUME TypeOK, NEW s
  PROVE  Assignment(s) \subseteq (Creature \X Creature)
BY DEF TypeOK, Assignment

(* The type invariant holds at the start.                                  *)
LEMMA TypeInit == Init => TypeOK
<1> SUFFICES ASSUME Init PROVE TypeOK
  OBVIOUS
<1>1. StartPhase \in Phase
  BY GameAssumption DEF Phase, BEFORE_BEGIN, AFTER_EOT, UNTAP, CLEANUP
<1>2. GameTyped
  BY <1>1 DEF Init, GameTyped, Players
<1>3. CardTyped /\ GuiTyped
  BY DEF Init, CardTyped, GuiTyped, CombatStep
<1> QED
  BY <1>2, <1>3, TypeParts, EmptySeq DEF Init, CombatStep

(* The calls of GameObserver.                                              *)
LEMMA TypeCalls ==
  ASSUME TypeOK,
         \/ NextGamePhase \/ Forward \/ SkipCombat \/ EnterPhase
         \/ NextCombatStep \/ TriggersStep \/ Pop,
         Return("pop") => eventsQueue # <<>>
  PROVE  TypeOK'
<1>0. /\ GameTyped /\ CardTyped /\ GuiTyped /\ combatStep \in CombatStep /\ strikes \in Seq(CombatStep)
      /\ eventsQueue \in Seq(Event) /\ calls \in Seq(Call)
  BY TypeParts
<1>s. /\ \A a \in {"nextGamePhase", "forward", "enterPhase", "phaseActions",
                   "nextCombatStep", "triggersStep", "pop", "drain"} : <<Do(a)>> \in Seq(Call)
      /\ <<>> \in Seq(Call) /\ <<>> \in Seq(Event) /\ <<>> \in Seq(CombatStep)
  BY CallFacts
<1>1. CASE NextGamePhase
  <2>1. Rest \in Seq(Call)
    BY <1>1, ReturnTyped DEF NextGamePhase
  <2> DEFINE turn == <<Do("forward"), Skip(phase), Do("enterPhase")>>
  <2>2. turn \in Seq(Call)
    BY <1>0, CallFacts DEF GameTyped
  <2>3. calls' \in Seq(Call)
    <3>1. calls' \in {<<Do("nextCombatStep")>> \o Rest, turn \o Rest}
      BY <1>1 DEF NextGamePhase, Then, Skip
    <3> HIDE DEF turn
    <3> HIDE DEF turn
    <3>2. <<Do("nextCombatStep")>> \in Seq(Call)
      BY <1>s
    <3>3. <<Do("nextCombatStep")>> \o Rest \in Seq(Call) 
      BY <2>1, <3>2, CallSeqs
    <3>4. turn \o Rest \in Seq(Call)
      BY <2>1, <2>2, CallSeqs
    <3> QED BY <3>1, <3>3, <3>4
  <2>4. UNCHANGED <<turnVars, combatStep, eventsQueue, cardVars, guiVars, strikes>>
    BY <1>1 DEF NextGamePhase
  <2> QED
    BY <1>0, <2>3, <2>4, TypeParts, SameTypes DEF turnVars, cardVars, guiVars, GameTyped, CardTyped, GuiTyped, TypeOK
<1>2. CASE Forward
  <2>1. Rest \in Seq(Call)
    BY <1>2, ReturnTyped DEF Forward
  <2>2. phase' \in Phase /\ ringOwner' \in Players
    BY <1>0, <1>2 DEF Forward, GameTyped, Phase, Players, BEFORE_BEGIN, AFTER_EOT, nextTurnsPlayer, Opponent
  <2>3. <<TurnTo(phase, phase')>> \in Seq(Event)
    BY <1>0, <2>2, EventTypes DEF GameTyped
  <2>4. eventsQueue' \in Seq(Event) /\ calls' \in Seq(Call)
    BY <1>2, <2>1, <2>3, RaiseTyped DEF Forward, TurnTo
  <2>5. GameTyped' /\ CardTyped' /\ GuiTyped' /\ combatStep' \in CombatStep
    BY <1>0, <1>2, <2>2, SameTypes DEF Forward, GameTyped
  <2>6. strikes' \in Seq(CombatStep)
    BY <1>0, <1>2, <1>s DEF Forward
  <2> QED
    BY <2>4, <2>5, <2>6 DEF TypeOK, GameTyped, CardTyped, GuiTyped
<1>3. CASE SkipCombat
  <2>1. Rest \in Seq(Call)
    BY <1>3, ReturnTyped DEF SkipCombat
  <2>2. <<Do("forward"), Do("forward")>> \in Seq(Call)
    BY CallFacts
  <2>3. calls' \in Seq(Call)
    <3>1. calls' \in {<<Do("forward"), Do("forward")>> \o Rest, <<>> \o Rest}
      BY <1>3 DEF SkipCombat, Then
    <3> QED BY <1>s, <2>1, <2>2, <3>1, Concat
  <2> QED
    BY <1>0, <1>3, <2>3, SameTypes DEF SkipCombat, GameTyped, CardTyped, GuiTyped, TypeOK
<1>4. CASE EnterPhase
  <2>1. Rest \in Seq(Call)
    BY <1>4, ReturnTyped DEF EnterPhase
  <2>2. calls' \in Seq(Call)
    <3>1. calls' \in {(<<Do("nextCombatStep")>> \o <<Do("phaseActions")>>) \o Rest,
                     (<<>> \o <<Do("phaseActions")>>) \o Rest}
      BY <1>4 DEF EnterPhase, Then
    <3>2. <<Do("nextCombatStep")>> \in Seq(Call) /\ <<Do("phaseActions")>> \in Seq(Call)
      BY <1>s
    <3>3. (<<Do("nextCombatStep")>> \o <<Do("phaseActions")>>) \o Rest \in Seq(Call)
      BY <2>1, <3>2, CallSeqs
    <3>4. (<<>> \o <<Do("phaseActions")>>) \o Rest \in Seq(Call)
      BY <2>1, <3>2, CallSeqs
    <3> QED BY <3>1, <3>3, <3>4
  <2> QED
    BY <1>0, <1>4, <2>2, SameTypes DEF EnterPhase, GameTyped, CardTyped, GuiTyped, TypeOK
<1>5. CASE NextCombatStep
  <2>1. Rest \in Seq(Call) /\ <<Do("triggersStep")>> \o Rest \in Seq(Call)
    BY <1>5, ReturnTyped DEF NextCombatStep
  <2>2. combatStep' \in CombatStep
    BY <1>0, <1>5 DEF NextCombatStep, StepAfter, CombatStep
  <2>3. <<Step(combatStep')>> \in Seq(Event) /\ <<[type |-> "BlockersChosen"]>> \in Seq(Event)
    BY <2>2, EventTypes
  <2>4. eventsQueue' \in Seq(Event) /\ calls' \in Seq(Call)
    <3>1. CASE combatStep = "BLOCKERS"
      BY <1>5, <2>1, <2>3, <3>1, RaiseTyped DEF NextCombatStep
    <3>2. CASE combatStep = "END_DAMAGE"
      <4>1. calls' = <<>> \o Rest /\ eventsQueue' = eventsQueue
        BY <1>5, <3>2 DEF NextCombatStep, Then
      <4> QED BY <1>0, <1>s, <2>1, <4>1, Concat
    <3>3. CASE combatStep \notin {"BLOCKERS", "END_DAMAGE"}
      <4>1. Raise(<<Step(combatStep')>>, Rest)
        BY <1>5, <3>3 DEF NextCombatStep, Step
      <4> QED BY <2>1, <2>3, <4>1, RaiseTyped
    <3> QED BY <3>1, <3>2, <3>3
  <2> QED
    BY <1>0, <1>5, <2>2, <2>4, SameTypes DEF NextCombatStep, GameTyped, CardTyped, GuiTyped, TypeOK
<1>6. CASE TriggersStep
  <2>1. Rest \in Seq(Call)
    BY <1>6, ReturnTyped DEF TriggersStep
  <2>2. combatStep' \in CombatStep /\ "TRIGGERS" \in CombatStep
    BY <1>6 DEF TriggersStep, CombatStep
  <2>3. <<Step("TRIGGERS")>> \in Seq(Event)
    BY <2>2, EventTypes
  <2>4. eventsQueue' \in Seq(Event) /\ calls' \in Seq(Call)
    BY <1>6, <2>1, <2>3, RaiseTyped DEF TriggersStep, Step
  <2> QED
    BY <1>0, <1>6, <2>2, <2>4, SameTypes DEF TriggersStep, GameTyped, CardTyped, GuiTyped, TypeOK
<1>7. CASE Pop
  <2>1. Rest \in Seq(Call)
    BY <1>7, ReturnTyped DEF Pop
  <2>2. calls' \in Seq(Call)
    BY <1>7, <1>s, <2>1, Concat DEF Pop
  <2>3. eventsQueue' \in Seq(Event)
    <3>1. eventsQueue # <<>> /\ eventsQueue' = Tail(eventsQueue)
      BY <1>7 DEF Pop
    <3> QED BY <1>0, <3>1, HeadTailProperties
  <2> QED
    BY <1>0, <1>7, <2>2, <2>3, SameTypes DEF Pop, GameTyped, CardTyped, GuiTyped, TypeOK
<1> QED
  BY <1>1, <1>2, <1>3, <1>4, <1>5, <1>6, <1>7

(* The phase actions keep the types.                                       *)
LEMMA TypePhaseActions ==
  ASSUME TypeOK, PhaseActions
  PROVE  TypeOK'
<1>0. /\ GameTyped /\ CardTyped /\ GuiTyped /\ combatStep \in CombatStep /\ strikes \in Seq(CombatStep)
      /\ eventsQueue \in Seq(Event) /\ calls \in Seq(Call)
  BY TypeParts
<1>1. /\ Rest \in Seq(Call) /\ <<Do("nextGamePhase")>> \o Rest \in Seq(Call)
      /\ <<>> \o Rest \in Seq(Call)
  BY ReturnTyped, CallSeqs DEF PhaseActions
<1>2. GuiTyped' /\ strikes' \in Seq(CombatStep) /\ "BLOCKERS" \in CombatStep
  BY <1>0, SameTypes DEF PhaseActions, CombatStep
<1>3. UNCHANGED <<phase, ringOwner, currentGamePhase>>
  BY DEF PhaseActions
<1> SUFFICES /\ GameTyped' /\ CardTyped' /\ combatStep' \in CombatStep
             /\ eventsQueue' \in Seq(Event) /\ calls' \in Seq(Call)
  BY <1>2 DEF TypeOK, GameTyped, CardTyped, GuiTyped
<1>4. CASE currentGamePhase = COMBATEND
  <2>1. /\ combatStep' = "BLOCKERS" /\ calls' = <<>> \o Rest
        /\ UNCHANGED <<currentPlayer, extraTurn, skippingTurn, eventsQueue, cardVars>>
    BY <1>4 DEF PhaseActions, Then, AFTER_EOT, BEFORE_BEGIN, COMBATEND, COMBATBLOCKERS
  <2> QED BY <1>0, <1>1, <1>2, <1>3, <2>1, SameTypes DEF turnVars
<1>5. CASE currentGamePhase = BEFORE_BEGIN
  <2>1. /\ combatStep' = "BLOCKERS" /\ LeaveCombat(inPlay, {})
        /\ Raise(Events(LeaveEvents(inPlay, {})), <<Do("nextGamePhase")>> \o Rest)
        /\ UNCHANGED <<currentPlayer, extraTurn, skippingTurn>>
    BY <1>5 DEF PhaseActions, AFTER_EOT, BEFORE_BEGIN, COMBATEND, COMBATBLOCKERS
  <2>2. inPlay \in SUBSET Creature
    BY <1>0 DEF CardTyped
  <2>3. CardTyped'
    BY <2>1, <2>2, LeaveCombatTyped
  <2>4. Events(LeaveEvents(inPlay, {})) \in Seq(Event)
    <3>1. LeaveEvents(inPlay, {}) \in SUBSET Event /\ IsFiniteSet(LeaveEvents(inPlay, {}))
      BY <2>2, LeaveEventsTyped
    <3> QED BY <3>1, EventsInOrder
  <2>5. eventsQueue' \in Seq(Event) /\ calls' \in Seq(Call)
    BY <1>1, <2>1, <2>4, RaiseTyped
  <2> QED BY <1>0, <1>2, <1>3, <2>1, <2>3, <2>5, SameTypes DEF turnVars
<1>6. CASE currentGamePhase = AFTER_EOT
  <2>1. nextPlayer /\ calls' = <<Do("nextGamePhase")>> \o Rest /\ UNCHANGED <<eventsQueue, cardVars>>
    BY <1>6 DEF PhaseActions, AFTER_EOT, BEFORE_BEGIN, COMBATEND, COMBATBLOCKERS, Then
  <2>2. combatStep' = "BLOCKERS" /\ currentPlayer' \in Players
    BY <1>0, <2>1 DEF nextPlayer, Opponent, GameTyped, Players
  <2>3. extraTurn' \in [Players -> Nat]
    BY <1>0, <2>1 DEF nextPlayer, GameTyped
  <2>4. skippingTurn' \in [Players -> Nat]
    <3>1. PICK p \in Players :
            \/ skippingTurn' = skippingTurn
            \/ skippingTurn[p] # 0 /\ skippingTurn' = [skippingTurn EXCEPT ![p] = @ - 1]
      BY <1>0, <2>1 DEF nextPlayer, GameTyped, Opponent, Players
    <3>2. skippingTurn[p] \in Nat /\ skippingTurn \in [Players -> Nat]
      BY <1>0 DEF GameTyped
    <3>3. skippingTurn[p] # 0 => skippingTurn[p] - 1 \in Nat
      BY <3>2
    <3> QED BY <3>1, <3>2, <3>3
  <2> QED BY <1>0, <1>1, <1>2, <1>3, <2>1, <2>2, <2>3, <2>4, SameTypes DEF GameTyped
<1>7. CASE currentGamePhase = COMBATBLOCKERS
  <2>1. /\ Raise(<<[type |-> "AttackersChosen"]>>, Rest)
        /\ UNCHANGED <<currentPlayer, extraTurn, skippingTurn, combatStep, cardVars>>
    BY <1>7 DEF PhaseActions, AFTER_EOT, BEFORE_BEGIN, COMBATEND, COMBATBLOCKERS
  <2>2. <<[type |-> "AttackersChosen"]>> \in Seq(Event)
    BY EventTypes
  <2>3. eventsQueue' \in Seq(Event) /\ calls' \in Seq(Call)
    BY <1>1, <2>1, <2>2, RaiseTyped
  <2> QED BY <1>0, <1>3, <2>1, <2>3, SameTypes DEF turnVars
<1>8. CASE currentGamePhase \notin {COMBATEND, BEFORE_BEGIN, AFTER_EOT, COMBATBLOCKERS}
  <2>1. /\ calls' = <<>> \o Rest
        /\ UNCHANGED <<currentPlayer, extraTurn, skippingTurn, combatStep, eventsQueue, cardVars>>
    BY <1>8 DEF PhaseActions, Then
  <2> QED BY <1>0, <1>1, <1>3, <2>1, SameTypes DEF turnVars
<1> QED
  BY <1>4, <1>5, <1>6, <1>7, <1>8

(* The handlers of card events and of a change of phase.                   *)
LEMMA TypeCardEvents ==
  ASSUME TypeOK,
         OnChosen \/ OnAttackerOn \/ OnAttackerOff \/ OnBlocker \/ OnZoneChange
  PROVE  TypeOK'
<1>0. /\ GameTyped /\ CardTyped /\ GuiTyped /\ combatStep \in CombatStep /\ strikes \in Seq(CombatStep)
      /\ eventsQueue \in Seq(Event) /\ calls \in Seq(Call)
  BY TypeParts
<1>1. CASE OnChosen
  <2>1. calls' \in Seq(Call)
    BY <1>1, DeliveredTyped DEF OnChosen
  <2> QED
    BY <1>0, <1>1, <2>1, SameTypes DEF OnChosen, GameTyped, CardTyped, GuiTyped, TypeOK
<1>2. CASE OnAttackerOn
  <2>1. calls' \in Seq(Call) /\ Delivery.card \in Creature
    BY <1>2, DeliveredTyped, EventFacts DEF OnAttackerOn
  <2>2. view' \subseteq Creature /\ viewBlk' \in [Creature -> SUBSET Creature]
    BY <1>0, <1>2, <2>1 DEF OnAttackerOn, GuiTyped
  <2> QED
    BY <1>0, <1>2, <2>1, <2>2, SameTypes DEF OnAttackerOn, GameTyped, CardTyped, GuiTyped, TypeOK
<1>3. CASE OnAttackerOff
  <2>1. calls' \in Seq(Call) /\ Delivery.card \in Creature
    BY <1>3, DeliveredTyped, EventFacts DEF OnAttackerOff
  <2>2. GuiTyped'
    BY <1>0, <1>3, <2>1 DEF OnAttackerOff, DropAttacker, GuiTyped
  <2> QED
    BY <1>0, <1>3, <2>1, <2>2, SameTypes DEF OnAttackerOff, GameTyped, CardTyped, GuiTyped, TypeOK
<1>4. CASE OnBlocker
  <2>1. /\ calls' \in Seq(Call) /\ Delivery.card \in Creature
        /\ Delivery.before \in Creature \cup {NoCard} /\ Delivery.after \in Creature \cup {NoCard}
    BY <1>4, DeliveredTyped, EventFacts DEF OnBlocker
  <2>2. viewBlk' \in [Creature -> SUBSET Creature] /\ damages' \subseteq damages
    <3> DEFINE added == IF Delivery.after \in view
                        THEN [viewBlk EXCEPT ![Delivery.after] = @ \cup {Delivery.card}] ELSE viewBlk
    <3>1. added \in [Creature -> SUBSET Creature]
      BY <1>0, <2>1 DEF GuiTyped
    <3>2. /\ viewBlk' \in {added, [added EXCEPT ![Delivery.before] = @ \ {Delivery.card}]}
          /\ damages' \subseteq damages
      BY <1>4 DEF OnBlocker
    <3> HIDE DEF added
    <3> QED BY <2>1, <3>1, <3>2
  <2> QED
    BY <1>0, <1>4, <2>1, <2>2, SameTypes DEF OnBlocker, GameTyped, CardTyped, GuiTyped, TypeOK
<1>5. CASE OnZoneChange
  <2>1. calls' \in Seq(Call) /\ Delivery.card \in Creature
    BY <1>5, DeliveredTyped, EventFacts DEF OnZoneChange
  <2>2. GuiTyped'
    BY <1>0, <1>5, <2>1 DEF OnZoneChange, DropAttacker, DropBlocker, GuiTyped
  <2> QED
    BY <1>0, <1>5, <2>1, <2>2, SameTypes DEF OnZoneChange, GameTyped, CardTyped, GuiTyped, TypeOK
<1> QED
  BY <1>1, <1>2, <1>3, <1>4, <1>5

(* The handler of a phase change keeps the types.                          *)
LEMMA TypePhaseChange ==
  ASSUME TypeOK, OnPhaseChange
  PROVE  TypeOK'
<1>0. /\ GameTyped /\ CardTyped /\ GuiTyped /\ combatStep \in CombatStep /\ strikes \in Seq(CombatStep)
      /\ eventsQueue \in Seq(Event) /\ calls \in Seq(Call)
  BY TypeParts
<1>1. calls' \in Seq(Call)
  BY DeliveredTyped DEF OnPhaseChange
<1>2. /\ UNCHANGED <<turnVars, combatStep, inPlay, defenser, blockers, blocked,
                     activeAtk, view, viewBlk, show, damages, strikes>>
      /\ guiStep' \in {guiStep, "BLOCKERS"} /\ cursor' \in {cursor, "NONE"}
  BY DEF OnPhaseChange
<1>3. GuiTyped'
  BY <1>0, <1>2 DEF GuiTyped, CombatStep
<1>4. attacker' \subseteq Creature /\ eventsQueue' \in Seq(Event)
  <2>1. CASE Delivery.from = COMBATATTACKERS
    <3>1. PICK forced \in SUBSET Creature, tapped \in SUBSET Creature :
            /\ attacker' = (attacker \cup forced) \ tapped
            /\ eventsQueue' = eventsQueue
                 \o Events({[type |-> "AttackerOn", card |-> c] : c \in forced})
                 \o Events({[type |-> "AttackerOff", card |-> c] : c \in tapped})
      BY <1>0, <2>1 DEF OnPhaseChange, CardTyped
    <3>2. Events({[type |-> "AttackerOn", card |-> c] : c \in forced}) \in Seq(Event)
      BY CardEventsTyped
    <3>3. Events({[type |-> "AttackerOff", card |-> c] : c \in tapped}) \in Seq(Event)
      BY CardEventsTyped
    <3> QED
      BY <1>0, <3>1, <3>2, <3>3, EventSeqs DEF CardTyped
  <2>2. CASE Delivery.from # COMBATATTACKERS
    BY <1>0, <2>2 DEF OnPhaseChange, CardTyped
  <2> QED
    BY <2>1, <2>2
<1> QED
  BY <1>0, <1>1, <1>2, <1>3, <1>4, SameTypes DEF CardTyped, GameTyped, GuiTyped, TypeOK

(* The handlers of a combat step.                                          *)
LEMMA AssignDamageTyped ==
  ASSUME TypeOK, NEW s \in CombatStep, NEW type, Delivering(type), AssignDamage(s)
  PROVE  /\ calls' \in Seq(Call)
         /\ guiStep' \in CombatStep /\ cursor' \in {"NONE", "ATK", "BLK", "OK"}
         /\ activeAtk' \in Creature \cup {NoCard} /\ show' \subseteq Creature
         /\ damages' \subseteq (Creature \X Creature) /\ strikes' = strikes
<1>1. /\ guiStep' = s /\ damages' = Assignment(s) /\ strikes' = strikes
      /\ \/ Delivered(<<>>) \/ Delivered(<<Do("nextGamePhase")>>) \/ Delivered(<<Do("nextCombatStep")>>)
      /\ show' \in {show, ToAssign(s)}
      /\ cursor' \in {cursor, "ATK"}
      /\ activeAtk' \in {activeAtk, NoCard} \cup show'
  BY DEF AssignDamage, OpenScreen
<1>2. show' \subseteq Creature
  BY <1>1 DEF TypeOK, ToAssign
<1>3. calls' \in Seq(Call)
  BY <1>1, DeliveredTyped
<1> QED
  BY <1>1, <1>2, <1>3, AssignmentTyped DEF TypeOK

(* What GuiCombat::resolve() leaves has the right types.                   *)
LEMMA ResolveDamageTyped ==
  ASSUME TypeOK, NEW s \in CombatStep, NEW type, Delivering(type),
         NEW assigned \in SUBSET (Creature \X Creature),
         NEW otherwise \in {"nextGamePhase", "nextCombatStep"},
         ResolveDamage(s, assigned, otherwise)
  PROVE  /\ calls' \in Seq(Call) /\ eventsQueue' \in Seq(Event)
         /\ guiStep' \in CombatStep /\ damages' \subseteq (Creature \X Creature)
         /\ strikes' \in Seq(CombatStep) /\ UNCHANGED <<cursor, activeAtk, show>>
<1>1. /\ guiStep' = s /\ damages' = assigned /\ strikes' = Append(strikes, s)
      /\ Delivered(<<>>) \/ Delivered(<<Do(otherwise)>>)
      /\ \/ eventsQueue' = eventsQueue
         \/ eventsQueue' = Append(eventsQueue,
              [type |-> "DamageStackResolved", hit |-> {d[2] : d \in assigned}])
      /\ UNCHANGED <<cursor, activeAtk, show>>
  BY DEF ResolveDamage
<1>2. calls' \in Seq(Call)
  BY <1>1, DeliveredTyped
<1>3. {d[2] : d \in assigned} \in SUBSET Creature
  OBVIOUS
<1>4. eventsQueue' \in Seq(Event)
  <2> DEFINE e == [type |-> "DamageStackResolved", hit |-> {d[2] : d \in assigned}]
  <2>1. e \in Event
    BY <1>3, EventTypes
  <2>2. eventsQueue' \in {eventsQueue, Append(eventsQueue, e)}
    BY <1>1
  <2> HIDE DEF e
  <2>3. eventsQueue \in Seq(Event)
    BY DEF TypeOK
  <2>4. Append(eventsQueue, e) \in Seq(Event)
    BY <2>1, <2>3, AppendProperties
  <2> QED BY <2>2, <2>3, <2>4
<1>5. strikes' \in Seq(CombatStep)
  BY <1>1, AppendProperties DEF TypeOK
<1> QED
  BY <1>1, <1>2, <1>4, <1>5

(* The handlers of a combat step keep the types.                           *)
LEMMA TypeSteps ==
  ASSUME TypeOK, OnCombatStepChange
  PROVE  TypeOK'
<1>0. /\ GameTyped /\ CardTyped /\ GuiTyped /\ combatStep \in CombatStep /\ strikes \in Seq(CombatStep)
      /\ eventsQueue \in Seq(Event) /\ calls \in Seq(Call)
  BY TypeParts
<1>1. Delivering("CombatStepChange")
  BY DEF OnCombatStepChange, OnTriggers, OnOrder, OnFirstStrike, OnDamage, OnEndFirstStrike,
         OnEndDamage, Stepping
<1>2. UNCHANGED <<turnVars, combatStep, cardVars, view, viewBlk>>
  BY DEF OnCombatStepChange
<1>3. {"TRIGGERS", "ORDER", "FIRST_STRIKE", "END_FIRST_STRIKE", "DAMAGE", "END_DAMAGE"} \subseteq CombatStep
  BY DEF CombatStep
<1> SUFFICES /\ calls' \in Seq(Call) /\ eventsQueue' \in Seq(Event) /\ strikes' \in Seq(CombatStep)
             /\ guiStep' \in CombatStep /\ cursor' \in {"NONE", "ATK", "BLK", "OK"}
             /\ activeAtk' \in Creature \cup {NoCard} /\ show' \subseteq Creature
             /\ damages' \subseteq (Creature \X Creature)
  BY <1>0, <1>2, SameTypes DEF TypeOK, GameTyped, CardTyped, GuiTyped
<1>4. CASE OnTriggers /\ UNCHANGED eventsQueue
  <2>1. calls' \in Seq(Call)
    BY <1>1, <1>4, DeliveredTyped DEF OnTriggers
  <2> QED BY <1>0, <1>3, <1>4, <2>1 DEF OnTriggers, GuiTyped
<1>5. CASE OnOrder /\ UNCHANGED eventsQueue
  <2>1. /\ \/ Delivered(<<>>) \/ Delivered(<<Do("nextGamePhase")>>) \/ Delivered(<<Do("nextCombatStep")>>)
        /\ guiStep' \in {guiStep, "ORDER"} /\ cursor' \in {cursor, "ATK"} /\ show' \subseteq show \cup view
        /\ activeAtk' \in {activeAtk, NoCard} \cup show' /\ damages' \in {damages, Assignment("DAMAGE")}
        /\ strikes' = strikes
    BY <1>5 DEF OnOrder, OpenScreen
  <2>2. calls' \in Seq(Call)
    BY <1>1, <2>1, DeliveredTyped
  <2> QED BY <1>0, <1>3, <1>5, <2>1, <2>2, AssignmentTyped DEF GuiTyped
<1>6. CASE OnFirstStrike /\ UNCHANGED eventsQueue
  <2>1. CASE AssignDamage("FIRST_STRIKE")
    <3>1. "FIRST_STRIKE" \in CombatStep
      BY <1>3
    <3> QED BY <1>0, <1>1, <1>6, <2>1, <3>1, AssignDamageTyped
  <2>2. CASE ~ AssignDamage("FIRST_STRIKE")
    <3>1. /\ guiStep' = "FIRST_STRIKE" /\ Delivered(<<Do("nextCombatStep")>>)
          /\ UNCHANGED <<cursor, activeAtk, show, damages, strikes>>
      BY <1>6, <2>2 DEF OnFirstStrike
    <3>2. calls' \in Seq(Call)
      BY <1>1, <3>1, DeliveredTyped
    <3> QED BY <1>0, <1>3, <1>6, <3>1, <3>2 DEF GuiTyped
  <2> QED BY <2>1, <2>2
<1>7. CASE OnDamage /\ UNCHANGED eventsQueue
  <2>1. "DAMAGE" \in CombatStep /\ AssignDamage("DAMAGE")
    BY <1>3, <1>7 DEF OnDamage
  <2> QED BY <1>0, <1>1, <1>7, <2>1, AssignDamageTyped
<1>8. CASE OnEndFirstStrike
  <2>1. /\ Assignment("FIRST_STRIKE") \in SUBSET (Creature \X Creature) /\ "END_FIRST_STRIKE" \in CombatStep
        /\ ResolveDamage("END_FIRST_STRIKE", Assignment("FIRST_STRIKE"), "nextCombatStep")
    BY <1>3, <1>8, AssignmentTyped DEF OnEndFirstStrike
  <2>2. /\ calls' \in Seq(Call) /\ eventsQueue' \in Seq(Event)
         /\ guiStep' \in CombatStep /\ damages' \subseteq (Creature \X Creature)
         /\ strikes' \in Seq(CombatStep) /\ UNCHANGED <<cursor, activeAtk, show>>
    BY <1>1, <2>1, ResolveDamageTyped
  <2> QED BY <1>0, <2>2 DEF GuiTyped
<1>9. CASE OnEndDamage
  <2>1. /\ damages \in SUBSET (Creature \X Creature) /\ "END_DAMAGE" \in CombatStep
        /\ ResolveDamage("END_DAMAGE", damages, "nextGamePhase")
    BY <1>0, <1>3, <1>9 DEF OnEndDamage, GuiTyped
  <2>2. /\ calls' \in Seq(Call) /\ eventsQueue' \in Seq(Event)
         /\ guiStep' \in CombatStep /\ damages' \subseteq (Creature \X Creature)
         /\ strikes' \in Seq(CombatStep) /\ UNCHANGED <<cursor, activeAtk, show>>
    BY <1>1, <2>1, ResolveDamageTyped
  <2> QED BY <1>0, <2>2 DEF GuiTyped
<1> QED
  BY <1>4, <1>5, <1>6, <1>7, <1>8, <1>9 DEF OnCombatStepChange

(* What follows from resolved damage keeps the types.                      *)
LEMMA TypeDamageResolved ==
  ASSUME TypeOK, OnDamageStackResolved
  PROVE  TypeOK'
<1>0. /\ GameTyped /\ CardTyped /\ GuiTyped /\ combatStep \in CombatStep /\ strikes \in Seq(CombatStep)
      /\ eventsQueue \in Seq(Event) /\ calls \in Seq(Call)
  BY TypeParts
<1>1. PICK dead \in SUBSET inPlay, saved \in SUBSET inPlay :
        /\ LeaveCombat(saved, dead)
        /\ eventsQueue' = eventsQueue \o Events(LeaveEvents(saved, dead))
  BY DEF OnDamageStackResolved
<1>2. dead \in SUBSET Creature /\ saved \in SUBSET Creature
  BY <1>0 DEF CardTyped
<1>3. CardTyped'
  BY <1>1, <1>2, LeaveCombatTyped
<1>4. Events(LeaveEvents(saved, dead)) \in Seq(Event)
  <2>1. LeaveEvents(saved, dead) \in SUBSET Event /\ IsFiniteSet(LeaveEvents(saved, dead))
    BY <1>2, LeaveEventsTyped
  <2> QED BY <2>1, EventsInOrder
<1>5. eventsQueue' \in Seq(Event)
  BY <1>0, <1>1, <1>4, EventSeqs
<1>6. calls' \in Seq(Call)
  BY DeliveredTyped DEF OnDamageStackResolved
<1>7. UNCHANGED <<turnVars, combatStep, guiVars, strikes>>
  BY DEF OnDamageStackResolved
<1> QED
  BY <1>0, <1>3, <1>5, <1>6, <1>7, TypeParts, SameTypes DEF GameTyped, CardTyped, GuiTyped, TypeOK

(* What reaches the engine from outside.                                   *)
LEMMA AffectTyped ==
  ASSUME TypeOK, NEW C \in SUBSET Creature, NEW D \in SUBSET Creature, Affect(C, D)
  PROVE  TypeOK'
<1>0. /\ GameTyped /\ CardTyped /\ GuiTyped /\ combatStep \in CombatStep /\ strikes \in Seq(CombatStep)
      /\ eventsQueue \in Seq(Event) /\ calls \in Seq(Call)
  BY TypeParts
<1>1. /\ LeaveCombat(C, D) /\ Raise(Events(LeaveEvents(C, D)), <<>>)
      /\ UNCHANGED <<turnVars, combatStep, guiVars, strikes>>
  BY DEF Affect
<1>2. CardTyped'
  BY <1>1, LeaveCombatTyped
<1>3. Events(LeaveEvents(C, D)) \in Seq(Event)
  <2>1. LeaveEvents(C, D) \in SUBSET Event /\ IsFiniteSet(LeaveEvents(C, D))
    BY LeaveEventsTyped
  <2> QED BY <2>1, EventsInOrder
<1>4. eventsQueue' \in Seq(Event) /\ calls' \in Seq(Call)
  BY <1>1, <1>3, RaiseTyped, CallSeqs
<1> QED
  BY <1>0, <1>1, <1>2, <1>4, SameTypes DEF GameTyped, CardTyped, GuiTyped, TypeOK

(* What comes from outside keeps the types.                                *)
LEMMA TypeEnvironment ==
  ASSUME TypeOK, Environment
  PROVE  TypeOK'
<1>0. /\ GameTyped /\ CardTyped /\ GuiTyped /\ combatStep \in CombatStep /\ strikes \in Seq(CombatStep)
      /\ eventsQueue \in Seq(Event) /\ calls \in Seq(Call)
  BY TypeParts
<1>s. <<Do("nextGamePhase")>> \in Seq(Call) /\ <<>> \in Seq(Call)
  BY CallFacts
<1>1. CASE Request \/ ClickOK
  BY <1>0, <1>1, <1>s, SameTypes DEF Request, ClickOK, GameTyped, CardTyped, GuiTyped, TypeOK
<1>2. CASE MoveCursor
  <2>1. GuiTyped'
    BY <1>0, <1>2 DEF MoveCursor, GuiTyped
  <2> QED
    BY <1>0, <1>2, <2>1, SameTypes DEF MoveCursor, GameTyped, CardTyped, GuiTyped, TypeOK
<1>3. ASSUME NEW c \in Creature, ToggleAttacker(c)
      PROVE  TypeOK'
  <2> DEFINE e == [type |-> IF c \in attacker THEN "AttackerOff" ELSE "AttackerOn", card |-> c]
  <2>1. e \in Event
    BY EventTypes
  <2>2. attacker' \subseteq Creature
    BY <1>0, <1>3 DEF ToggleAttacker, CardTyped
  <2>3. Raise(<<e>>, <<>>) /\ UNCHANGED <<turnVars, combatStep, inPlay, defenser, blockers, blocked, guiVars, strikes>>
    BY <1>3 DEF ToggleAttacker
  <2> HIDE DEF e
  <2>4. eventsQueue' \in Seq(Event) /\ calls' \in Seq(Call)
    <3>1. <<e>> \in Seq(Event)
      BY <2>1
    <3> QED BY <1>s, <2>3, <3>1, RaiseTyped
  <2> QED
    BY <1>0, <2>2, <2>3, <2>4, SameTypes DEF GameTyped, CardTyped, GuiTyped, TypeOK
<1>4. ASSUME NEW b \in Creature, NEW a \in Creature \cup {NoCard}, ToggleBlocker(b, a)
      PROVE  TypeOK'
  <2> DEFINE e == [type |-> "Blocker", card |-> b, before |-> defenser[b], after |-> a]
  <2>1. e \in Event
    BY <1>0, EventTypes DEF CardTyped
  <2>2. /\ Raise(<<e>>, <<>>)
        /\ UNCHANGED <<turnVars, combatStep, inPlay, attacker, guiVars, strikes>>
    BY <1>4 DEF ToggleBlocker
  <2>3. CardTyped'
    BY <1>0, <1>4 DEF ToggleBlocker, CardTyped
  <2> HIDE DEF e
  <2>4. eventsQueue' \in Seq(Event) /\ calls' \in Seq(Call)
    <3>1. <<e>> \in Seq(Event)
      BY <2>1
    <3> QED BY <1>s, <2>2, <3>1, RaiseTyped
  <2> QED
    BY <1>0, <2>2, <2>3, <2>4, SameTypes DEF GameTyped, CardTyped, GuiTyped, TypeOK
<1>5. ASSUME NEW c \in Creature, RemoveFromCombat(c) \/ LeavePlay(c)
      PROVE  TypeOK'
  <2>1. {c} \in SUBSET Creature /\ {} \in SUBSET Creature
    OBVIOUS
  <2>2. Affect({c}, {}) \/ Affect({}, {c})
    BY <1>5 DEF RemoveFromCombat, LeavePlay
  <2> QED
    BY <2>1, <2>2, AffectTyped
<1>6. ASSUME NEW c \in Creature, EnterPlay(c)
      PROVE  TypeOK'
  BY <1>0, <1>6, SameTypes DEF EnterPlay, GameTyped, CardTyped, GuiTyped, TypeOK
<1>7. ASSUME NEW p \in Players, ModTurn(p)
      PROVE  TypeOK'
  <2>1. extraTurn' \in [Players -> Nat] /\ skippingTurn' \in [Players -> Nat]
    <3>1. /\ extraTurn \in [Players -> Nat] /\ skippingTurn \in [Players -> Nat]
          /\ extraTurn[p] + 1 \in Nat /\ skippingTurn[p] + 1 \in Nat
      BY <1>0, SMTT(60) DEF GameTyped
    <3>2. /\ extraTurn' \in {extraTurn, [extraTurn EXCEPT ![p] = extraTurn[p] + 1]}
          /\ skippingTurn' \in {skippingTurn, [skippingTurn EXCEPT ![p] = skippingTurn[p] + 1]}
      BY <1>7 DEF ModTurn
    <3> QED BY <3>1, <3>2
  <2> QED
    BY <1>0, <1>7, <2>1, SameTypes DEF ModTurn, GameTyped, CardTyped, GuiTyped, TypeOK
<1> QED
  BY <1>1, <1>2, <1>3, <1>4, <1>5, <1>6, <1>7 DEF Environment

(* Every step keeps the types, as long as no event is popped off an empty  *)
(* queue.                                                                  *)
LEMMA TypeNext ==
  ASSUME TypeOK, Return("pop") => eventsQueue # <<>>, [Next]_vars
  PROVE  TypeOK'
<1>1. CASE UNCHANGED vars
  BY <1>1 DEF vars, turnVars, cardVars, guiVars, TypeOK
<1>2. CASE Engine
  BY <1>2, TypeCalls, TypePhaseActions, TypeCardEvents, TypePhaseChange, TypeSteps, TypeDamageResolved
     DEF Engine
<1>3. CASE Environment
  BY <1>3, TypeEnvironment
<1> QED
  BY <1>1, <1>2, <1>3 DEF Next

-----------------------------------------------------------------------------
(* Where the engine is between two of its calls.                           *)

(* The combat steps a phase may wait in (Settled), is about to be told of  *)
(* (Arriving), is left from (LeaveStep), goes on from within the phase     *)
(* (Advances).                                                             *)
Settled ==
  \/ phase = COMBATBLOCKERS /\ \/ combatStep \in {"BLOCKERS", "TRIGGERS"}
                               \/ AITurn /\ combatStep = "END_FIRST_STRIKE"
                               \/ ~ AITurn /\ combatStep = "ORDER"
  \/ phase = COMBATDAMAGE /\ \/ combatStep \in {"END_FIRST_STRIKE", "END_DAMAGE"}
                             \/ ~ AITurn /\ combatStep \in {"FIRST_STRIKE", "DAMAGE"}
  \/ phase \notin {COMBATBLOCKERS, COMBATDAMAGE} /\ combatStep = "BLOCKERS"

Arriving ==
  \/ phase = COMBATBLOCKERS /\ \/ combatStep \in {"TRIGGERS", "ORDER"}
                               \/ AITurn /\ combatStep \in {"FIRST_STRIKE", "END_FIRST_STRIKE", "DAMAGE"}
  \/ phase = COMBATDAMAGE /\ combatStep \in {"FIRST_STRIKE", "END_FIRST_STRIKE", "DAMAGE", "END_DAMAGE"}

LeaveStep(p) ==
  \/ p = COMBATBLOCKERS /\ \/ AITurn /\ combatStep \in {"FIRST_STRIKE", "END_FIRST_STRIKE", "DAMAGE"}
                           \/ ~ AITurn /\ combatStep = "ORDER"
  \/ p = COMBATDAMAGE /\ combatStep = "END_DAMAGE"
  \/ p \notin {COMBATBLOCKERS, COMBATDAMAGE} /\ combatStep = "BLOCKERS"

Advances ==
  \/ phase = COMBATBLOCKERS /\ \/ combatStep \in {"BLOCKERS", "TRIGGERS"}
                               \/ AITurn /\ combatStep \in {"ORDER", "FIRST_STRIKE", "END_FIRST_STRIKE"}
  \/ phase = COMBATDAMAGE /\ combatStep \in {"FIRST_STRIKE", "END_FIRST_STRIKE", "DAMAGE"}

(* Where the ring stands relative to currentGamePhase: at the same phase,  *)
(* one ahead, or on the way past the combat nobody attacks in.             *)
Succ(p)    == IF p = AFTER_EOT THEN BEFORE_BEGIN ELSE p + 1
Own        == {c \in inPlay \cap attacker : Owner[c] = currentPlayer}
Here       == currentGamePhase = phase
Left(p)    == currentGamePhase = p /\ phase = Succ(p) /\ LeaveStep(p)
Skipped(p) == currentGamePhase = COMBATATTACKERS /\ phase = p /\ combatStep = "BLOCKERS" /\ Own = {}

(* What holds when the calls that k names are next and no event waits.     *)
AtRest     == Here /\ phase \notin {BEFORE_BEGIN, AFTER_EOT} /\ Settled
Acting     == /\ Here /\ (phase = COMBATBLOCKERS => combatStep = "BLOCKERS")
              /\ Settled \/ (phase = COMBATEND /\ combatStep = "END_DAMAGE")
Asking     == Here /\ (LeaveStep(phase) \/ (Advances /\ combatStep # "ORDER"))
Advancing  == Here /\ Advances
Starting   == Here /\ phase = COMBATDAMAGE /\ LeaveStep(COMBATBLOCKERS)
Triggering == Here /\ phase = COMBATBLOCKERS /\ combatStep = "BLOCKERS"
Leaving    == Here /\ LeaveStep(phase)
Entering   == Skipped(COMBATEND) \/ (\E p \in Phase : Left(p))

Skipping == <<Do("forward"), Do("forward"), Do("enterPhase")>>

Ready(k) ==
  \/ k = <<>> /\ AtRest
  \/ k = <<Do("phaseActions")>> /\ Acting
  \/ k = <<Do("nextGamePhase")>> /\ Asking
  \/ k = <<Do("nextCombatStep")>> /\ Advancing
  \/ k = <<Do("nextCombatStep"), Do("phaseActions")>> /\ Starting
  \/ k = <<Do("triggersStep")>> /\ Triggering
  \/ k = <<Do("forward"), Skip(phase), Do("enterPhase")>> /\ Leaving
  \/ \E p \in Phase : k = <<Skip(p), Do("enterPhase")>> /\ Left(p)
  \/ k = <<Do("enterPhase")>> /\ Entering
  \/ k = <<Do("forward"), Do("enterPhase")>> /\ Skipped(COMBATDAMAGE)
  \/ k = Skipping /\ Skipped(COMBATBLOCKERS)

(* The damage steps resolved and GuiCombat's step, as combatStep tells     *)
(* them (Fits), and while GuiCombat has not heard of it yet (FitsSoon).    *)
FirstOnly == <<"END_FIRST_STRIKE">>
Both      == <<"END_FIRST_STRIKE", "END_DAMAGE">>

StrikesFit ==
  /\ combatStep \in {"TRIGGERS", "ORDER", "FIRST_STRIKE"} => strikes = <<>>
  /\ combatStep \in {"END_FIRST_STRIKE", "DAMAGE"} => strikes = FirstOnly
  /\ combatStep = "END_DAMAGE" => strikes = Both
  /\ combatStep = "BLOCKERS" =>
       /\ strikes \in {<<>>, FirstOnly, Both}
       /\ phase \in {COMBATBEGIN, COMBATATTACKERS, COMBATBLOCKERS} => strikes = <<>>
       /\ phase = COMBATEND => strikes = Both \/ Own = {}

GuiFits == combatStep = "TRIGGERS" => guiStep = "TRIGGERS"

Fits == StrikesFit /\ GuiFits

StrikesSoon ==
  /\ combatStep \in {"TRIGGERS", "ORDER", "FIRST_STRIKE", "END_FIRST_STRIKE"} => strikes = <<>>
  /\ combatStep \in {"DAMAGE", "END_DAMAGE"} => strikes = FirstOnly
  /\ combatStep # "BLOCKERS"

GuiFitsSoon == combatStep = "ORDER" => guiStep = "TRIGGERS"

FitsSoon == StrikesSoon /\ GuiFitsSoon

(* Outside a delivery an AI never stops in a step that assigns damage.     *)
Told  == AITurn => combatStep \notin {"FIRST_STRIKE", "DAMAGE"}

(* What a delivery may have interrupted.                                   *)
Outer == {<<>>, <<Do("phaseActions")>>}

(* The damage screen may be up while k is still to be called: nothing but  *)
(* its own keys happens while blockers are ordered, and in the damage      *)
(* phase the game goes on behind it.                                       *)
Starts == <<Do("nextCombatStep"), Do("phaseActions")>>

Screen(k) ==
  /\ Here /\ guiStep = combatStep
  /\ \/ phase = COMBATBLOCKERS /\ combatStep = "ORDER" /\ k \in Outer
     \/ phase = COMBATDAMAGE /\ k # Starts

-----------------------------------------------------------------------------
(* The inductive invariant of the engine's control.                        *)

Running ==
  /\ Ready(calls) /\ eventsQueue = <<>> /\ Fits /\ Told
  /\ cursor # "NONE" => Screen(calls)

Draining ==
  /\ calls # <<>> /\ eventsQueue # <<>>
  /\ Head(calls) \in {Do("drain"), Do("pop")}

Undelivered == IF Head(calls).op = "pop" THEN Tail(eventsQueue) ELSE eventsQueue

(* The events whose listeners make no call of the engine.                  *)
QuietEvent ==
  {e \in Event :
     /\ e.type # "CombatStepChange"
     /\ e.type = "PhaseChange" => e.to = phase /\ (e.from = COMBATATTACKERS => phase = COMBATBLOCKERS)}

(* Those that are no change of phase either.                               *)
StillEvent == {e \in Event : e.type \notin {"CombatStepChange", "PhaseChange"}}

(* The phase change that closes the screen waits.                          *)
Closing ==
  Undelivered # <<>> /\ Head(Undelivered).type = "PhaseChange" /\ Head(Undelivered).to # COMBATDAMAGE

Quiet ==
  /\ Draining /\ Undelivered \in Seq(QuietEvent)
  /\ Ready(Rest) /\ Rest # Skipping
  /\ Fits /\ Told
  /\ cursor # "NONE" => Closing \/ (Screen(Rest) /\ Undelivered \in Seq(StillEvent))

Interrupts(k) == k \in Outer /\ (k # <<>> => currentGamePhase \in {COMBATDAMAGE, COMBATEND})

(* The screen is left up behind a step of the damage phase.                *)
LeftOpen == cursor # "NONE" => phase = COMBATDAMAGE /\ combatStep # "FIRST_STRIKE"

Arrives ==
  /\ Draining /\ Interrupts(Rest) /\ Here /\ Arriving
  /\ \/ Undelivered = <<Step(combatStep)>>
     \/ phase = COMBATDAMAGE /\ Undelivered = <<TurnTo(COMBATBLOCKERS, COMBATDAMAGE), Step(combatStep)>>
  /\ FitsSoon /\ LeftOpen

(* A listener's call is under way: C is left of it, and the events q wait  *)
(* behind the one being delivered.                                         *)
Within(C, q) ==
  \E k \in Outer : /\ calls = C \o (<<Do("pop")>> \o k) /\ Interrupts(k)
                   /\ eventsQueue # <<>> /\ Tail(eventsQueue) = q

NestedWith(p) ==
  LET turned == <<TurnTo(p, p + 1)>>
  IN \/ /\ Within(<<Do("nextGamePhase")>>, <<>>)
        /\ phase = p /\ Asking /\ combatStep \notin {"BLOCKERS", "TRIGGERS"}
     \/ /\ Within(<<Do("nextCombatStep")>>, <<>>)
        /\ phase = p /\ Advancing /\ combatStep \notin {"BLOCKERS", "TRIGGERS"}
     \/ /\ Within(<<Do("forward"), Skip(p), Do("enterPhase")>>, <<>>)
        /\ phase = p /\ Leaving
     \/ Within(<<Skip(p), Do("enterPhase")>>, turned) /\ Left(p)
     \/ Within(<<Do("enterPhase")>>, turned) /\ Left(p)
     \/ /\ Within(<<Do("nextCombatStep"), Do("phaseActions")>>, turned)
        /\ p = COMBATBLOCKERS /\ Starting
     \/ /\ Within(<<Do("phaseActions")>>, turned)
        /\ p = COMBATDAMAGE /\ phase = COMBATEND /\ Acting

Nested ==
  /\ Fits
  /\ (NestedWith(COMBATBLOCKERS) /\ cursor = "NONE") \/ NestedWith(COMBATDAMAGE)

NestedArrives ==
  /\ FitsSoon /\ cursor = "NONE" /\ Here /\ phase = COMBATDAMAGE /\ Arriving
  /\ Within(<<Do("phaseActions")>>, <<TurnTo(COMBATBLOCKERS, COMBATDAMAGE), Step(combatStep)>>)

Control == Running \/ Quiet \/ Arrives \/ Nested \/ NestedArrives

AttackersInPlay == attacker \subseteq inPlay

IInv == TypeOK /\ Control /\ AttackersInPlay

-----------------------------------------------------------------------------
(* Control: shapes of the calls.                                           *)

(* Ready(k), by the call k starts with.                                    *)
LEMMA ReadyCases ==
  ASSUME TypeOK, NEW k, Ready(k)
  PROVE  /\ k \in Seq(Call)
         /\ \/ k = <<>> /\ AtRest
            \/ /\ k # <<>>
               /\ \/ Head(k) = Do("phaseActions") /\ Tail(k) = <<>> /\ Acting
                  \/ Head(k) = Do("nextGamePhase") /\ Tail(k) = <<>> /\ Asking
                  \/ Head(k) = Do("nextCombatStep") /\ Tail(k) = <<>> /\ Advancing
                  \/ Head(k) = Do("nextCombatStep") /\ Tail(k) = <<Do("phaseActions")>> /\ Starting
                  \/ Head(k) = Do("triggersStep") /\ Tail(k) = <<>> /\ Triggering
                  \/ Head(k) = Do("forward") /\ Tail(k) = <<Skip(phase), Do("enterPhase")>> /\ Leaving
                  \/ \E p \in Phase : Head(k) = Skip(p) /\ Tail(k) = <<Do("enterPhase")>> /\ Left(p)
                  \/ Head(k) = Do("enterPhase") /\ Tail(k) = <<>> /\ Entering
                  \/ Head(k) = Do("forward") /\ Tail(k) = <<Do("enterPhase")>> /\ Skipped(COMBATDAMAGE)
                  \/ k = Skipping /\ Head(k) = Do("forward")
                       /\ Tail(k) = <<Do("forward"), Do("enterPhase")>> /\ Skipped(COMBATBLOCKERS)
<1>1. /\ \A a \in {"phaseActions", "nextGamePhase", "nextCombatStep", "triggersStep", "forward", "enterPhase"} :
           Do(a) \in Call
      /\ \A p \in Phase : Skip(p) \in Call
      /\ phase \in Phase
  BY CallFacts DEF TypeOK
<1>2. CASE k = <<>> /\ AtRest
  BY <1>2, CallSeqs
<1>3. CASE k = <<Do("phaseActions")>> /\ Acting
  BY <1>1, <1>3, Short
<1>4. CASE k = <<Do("nextGamePhase")>> /\ Asking
  BY <1>1, <1>4, Short
<1>5. CASE k = <<Do("nextCombatStep")>> /\ Advancing
  BY <1>1, <1>5, Short
<1>6. CASE k = <<Do("nextCombatStep"), Do("phaseActions")>> /\ Starting
  BY <1>1, <1>6, Short
<1>7. CASE k = <<Do("triggersStep")>> /\ Triggering
  BY <1>1, <1>7, Short
<1>8. CASE k = <<Do("forward"), Skip(phase), Do("enterPhase")>> /\ Leaving
  BY <1>1, <1>8, Short
<1>9. ASSUME NEW p \in Phase, k = <<Skip(p), Do("enterPhase")>> /\ Left(p)
      PROVE  k \in Seq(Call) /\ k # <<>> /\ Head(k) = Skip(p) /\ Tail(k) = <<Do("enterPhase")>>
  BY <1>1, <1>9, Short
<1>10. CASE k = <<Do("enterPhase")>> /\ Entering
  BY <1>1, <1>10, Short
<1>11. CASE k = <<Do("forward"), Do("enterPhase")>> /\ Skipped(COMBATDAMAGE)
  BY <1>1, <1>11, Short
<1>12. CASE k = Skipping /\ Skipped(COMBATBLOCKERS)
  BY <1>1, <1>12, Short DEF Skipping
<1> QED
  BY <1>2, <1>3, <1>4, <1>5, <1>6, <1>7, <1>8, <1>9, <1>10, <1>11, <1>12 DEF Ready

(* What the position of the game is told by stays when only calls and      *)
(* eventsQueue change.                                                     *)
SameGame == UNCHANGED <<turnVars, combatStep, cardVars, guiVars, strikes>>

(* The variables, one by one, that such a step leaves alone.               *)
LEMMA SameVars ==
  ASSUME SameGame
  PROVE  /\ phase' = phase /\ currentGamePhase' = currentGamePhase
         /\ currentPlayer' = currentPlayer /\ combatStep' = combatStep
         /\ inPlay' = inPlay /\ attacker' = attacker /\ strikes' = strikes
         /\ guiStep' = guiStep /\ cursor' = cursor /\ activeAtk' = activeAtk
         /\ view' = view /\ viewBlk' = viewBlk /\ show' = show /\ damages' = damages
BY DEF SameGame, turnVars, cardVars, guiVars

(* The steps of a phase depend on the phase, combatStep and the player.    *)
LEMMA SameStep ==
  ASSUME phase' = phase, combatStep' = combatStep, currentPlayer' = currentPlayer
  PROVE  /\ Settled' <=> Settled
         /\ Arriving' <=> Arriving
         /\ \A p \in Phase : LeaveStep(p)' <=> LeaveStep(p)
         /\ Advances' <=> Advances
         /\ Told' <=> Told
         /\ QuietEvent' = QuietEvent
BY DEF Settled, Arriving, LeaveStep, Advances, Told, QuietEvent, AITurn

(* Ready(k) as long as nobody of the player's own begins to attack.        *)
LEMMA SameReady ==
  ASSUME TypeOK, phase' = phase, combatStep' = combatStep, currentPlayer' = currentPlayer,
         currentGamePhase' = currentGamePhase,
         NEW k, Ready(k), \/ Own = {} => Own' = {}
                          \/ phase = COMBATBLOCKERS /\ k # Skipping
  PROVE  Ready(k)'
<1>0. /\ phase \in Phase /\ COMBATBLOCKERS \in Phase /\ COMBATDAMAGE \in Phase
  BY DEF TypeOK, Phase, BEFORE_BEGIN, AFTER_EOT, COMBATBLOCKERS, COMBATDAMAGE
<1>1. /\ Settled' <=> Settled
      /\ \A p \in Phase : LeaveStep(p)' <=> LeaveStep(p)
      /\ Advances' <=> Advances
  BY SameStep
<1>2. Here' <=> Here
  BY DEF Here
<1>3. /\ AtRest' <=> AtRest
      /\ Acting' <=> Acting
      /\ Asking' <=> Asking
      /\ Advancing' <=> Advancing
      /\ Starting' <=> Starting
      /\ Triggering' <=> Triggering
      /\ Leaving' <=> Leaving
      /\ \A p \in Phase : Left(p)' <=> Left(p)
  BY <1>0, <1>1, <1>2 DEF AtRest, Acting, Asking, Advancing, Starting, Triggering, Leaving, Left
<1>4. \A p \in {COMBATDAMAGE, COMBATEND} : Skipped(p) => Skipped(p)'
  BY DEF Skipped, COMBATBLOCKERS, COMBATDAMAGE, COMBATEND
<1>5. k = Skipping /\ Skipped(COMBATBLOCKERS) => Skipped(COMBATBLOCKERS)'
  BY DEF Skipped
<1>6. Entering => Entering'
  BY <1>3, <1>4 DEF Entering
<1> QED
  BY <1>3, <1>4, <1>5, <1>6 DEF Ready

(* What GuiCombat and the history of the combat depend on.                 *)
LEMMA SameFits ==
  ASSUME phase' = phase, combatStep' = combatStep, strikes' = strikes,
         Own = {} => Own' = {}, guiStep' = guiStep
  PROVE  /\ Fits => Fits'
         /\ FitsSoon => FitsSoon'
BY DEF Fits, FitsSoon, StrikesFit, StrikesSoon, GuiFits, GuiFitsSoon

(* Everything the control invariant says of the position stays too.        *)
LEMMA SameAll ==
  ASSUME TypeOK, SameGame
  PROVE  /\ Fits => Fits'
         /\ FitsSoon => FitsSoon'
         /\ Told => Told'
         /\ \A k : Screen(k) => Screen(k)'
         /\ LeftOpen => LeftOpen'
         /\ QuietEvent' = QuietEvent
         /\ \A k : Ready(k) => Ready(k)'
         /\ \A k : Interrupts(k) => Interrupts(k)'
         /\ Here' <=> Here
         /\ Arriving' <=> Arriving
         /\ Settled' <=> Settled
         /\ Advances' <=> Advances
         /\ \A p \in Phase : LeaveStep(p)' <=> LeaveStep(p)
<1>1. Own' = Own
  BY SameVars DEF Own
<1>2. (Fits => Fits') /\ (FitsSoon => FitsSoon')
  BY <1>1, SameVars, SameFits
<1>3. \A k : Ready(k) => Ready(k)'
  BY <1>1, SameVars, SameReady
<1>4. (\A k : Screen(k) => Screen(k)') /\ (LeftOpen => LeftOpen') /\ (Here' <=> Here)
  BY SameVars DEF Screen, LeftOpen, Here
<1>5. \A k : Interrupts(k) => Interrupts(k)'
  BY SameVars DEF Interrupts
<1> QED
  BY <1>2, <1>3, <1>4, <1>5, SameVars, SameStep

-----------------------------------------------------------------------------
(* Control: a request for the next phase or combat step.                   *)

(* A request either goes on within the phase or leaves it.                 *)
LEMMA AskingGoesOn ==
  ASSUME Asking
  PROVE  IF \/ /\ phase = COMBATDAMAGE
               /\ combatStep \in {"FIRST_STRIKE", "END_FIRST_STRIKE", "DAMAGE"}
            \/ phase = COMBATBLOCKERS /\ combatStep \in {"BLOCKERS", "TRIGGERS"}
         THEN Advancing
         ELSE Leaving
BY DEF Asking, Advancing, Leaving, Advances, LeaveStep, AITurn, COMBATBLOCKERS, COMBATDAMAGE

(* nextCombatStep() past the blockers: the next step is on its way.        *)
LEMMA StepArrives ==
  ASSUME TypeOK, Advancing \/ Starting, combatStep # "BLOCKERS", Fits,
         combatStep' = StepAfter[combatStep], UNCHANGED <<turnVars, cardVars, guiVars, strikes>>
  PROVE  /\ combatStep # "END_DAMAGE"
         /\ Here' /\ Arriving' /\ FitsSoon'
         /\ phase' = phase /\ cursor' = cursor /\ currentGamePhase' = currentGamePhase
         /\ combatStep' \in CombatStep
<1>1. /\ phase' = phase /\ currentGamePhase' = currentGamePhase /\ strikes' = strikes
      /\ currentPlayer' = currentPlayer /\ guiStep' = guiStep /\ cursor' = cursor
      /\ view' = view /\ viewBlk' = viewBlk /\ damages' = damages
  BY DEF turnVars, guiVars
<1>2. \/ combatStep = "TRIGGERS" /\ combatStep' = "ORDER"
      \/ combatStep = "ORDER" /\ combatStep' = "FIRST_STRIKE"
      \/ combatStep = "FIRST_STRIKE" /\ combatStep' = "END_FIRST_STRIKE"
      \/ combatStep = "END_FIRST_STRIKE" /\ combatStep' = "DAMAGE"
      \/ combatStep = "DAMAGE" /\ combatStep' = "END_DAMAGE"
  BY DEF Advancing, Advances, Starting, LeaveStep, StepAfter, COMBATBLOCKERS, COMBATDAMAGE, AITurn
<1>3. Here'
  BY <1>1 DEF Advancing, Starting, Here
<1>4. Arriving'
  BY <1>1, <1>2 DEF Advancing, Advances, Starting, LeaveStep, AITurn, Arriving, COMBATBLOCKERS, COMBATDAMAGE
<1>5. StrikesSoon'
  BY <1>1, <1>2 DEF Fits, FitsSoon, StrikesFit, StrikesSoon
<1>6. GuiFitsSoon'
  BY <1>1, <1>2 DEF Fits, FitsSoon, GuiFits, GuiFitsSoon
<1> QED
  BY <1>1, <1>2, <1>3, <1>4, <1>5, <1>6 DEF Fits, FitsSoon, CombatStep

(* Once TRIGGERS is announced.                                             *)
LEMMA TriggersArrives ==
  ASSUME Triggering, Fits, combatStep' = "TRIGGERS",
         UNCHANGED <<turnVars, cardVars, guiVars, strikes>>
  PROVE  Here' /\ Arriving' /\ FitsSoon' /\ cursor' = cursor
<1>1. /\ phase' = phase /\ currentGamePhase' = currentGamePhase /\ strikes' = strikes
      /\ cursor' = cursor
  BY DEF turnVars, guiVars
<1>2. strikes = <<>>
  BY DEF Triggering, Fits, FitsSoon, StrikesFit, StrikesSoon, COMBATBEGIN, COMBATATTACKERS, COMBATBLOCKERS
<1>3. StrikesSoon' /\ GuiFitsSoon'
  BY <1>1, <1>2 DEF StrikesFit, StrikesSoon, GuiFits, GuiFitsSoon
<1> QED
  BY <1>1, <1>3 DEF Triggering, Here, Arriving, Fits, FitsSoon

(* forward() leaves a phase.                                               *)
LEMMA LeavesPhase ==
  ASSUME TypeOK, NEW p \in Phase, phase = p, Leaving, Fits, Forward
  PROVE  /\ Left(p)' /\ phase' = Succ(phase) /\ Fits'
         /\ currentGamePhase' = currentGamePhase /\ cursor' = cursor
         /\ (Told => Told') /\ combatStep' = combatStep
<1>1. /\ currentGamePhase' = currentGamePhase /\ cursor' = cursor /\ combatStep' = combatStep
      /\ currentPlayer' = currentPlayer /\ guiStep' = guiStep /\ damages' = damages
      /\ view' = view /\ viewBlk' = viewBlk /\ inPlay' = inPlay /\ attacker' = attacker
      /\ phase' = Succ(phase) /\ phase \in Phase
      /\ strikes' = IF phase' = COMBATBEGIN THEN <<>> ELSE strikes
  BY DEF Forward, guiVars, cardVars, Succ, TypeOK
<1>2. Left(p)'
  BY <1>1 DEF Leaving, Here, Left, Succ, LeaveStep, AITurn
<1>3. Own' = Own
  BY <1>1 DEF Own
<1>4. StrikesFit'
  <2>1. CASE combatStep = "BLOCKERS"
    BY <1>1, <1>3, <2>1 DEF Fits, FitsSoon, StrikesFit, StrikesSoon, Leaving, LeaveStep, Succ, Phase, BEFORE_BEGIN, AFTER_EOT,
       COMBATBEGIN, COMBATATTACKERS, COMBATBLOCKERS, COMBATDAMAGE, COMBATEND
  <2>2. CASE combatStep # "BLOCKERS"
    <3>1. phase' # COMBATBEGIN
      BY <1>1, <2>2 DEF Leaving, LeaveStep, Succ, BEFORE_BEGIN, AFTER_EOT,
         COMBATBEGIN, COMBATBLOCKERS, COMBATDAMAGE
    <3> QED BY <1>1, <2>2, <3>1 DEF Fits, FitsSoon, StrikesFit, StrikesSoon
  <2> QED BY <2>1, <2>2
<1>5. GuiFits' /\ (Told => Told')
  BY <1>1 DEF Fits, FitsSoon, GuiFits, GuiFitsSoon, Told, AITurn
<1> QED
  BY <1>1, <1>2, <1>4, <1>5 DEF Fits, FitsSoon

(* forward() goes past a phase of the combat nobody attacks in.            *)
LEMMA SkipsPhase ==
  ASSUME TypeOK, NEW p \in {COMBATBLOCKERS, COMBATDAMAGE}, Skipped(p), Fits, Forward
  PROVE  /\ Skipped(p + 1)' /\ phase' = Succ(phase) /\ Fits'
         /\ currentGamePhase' = currentGamePhase /\ cursor' = cursor
         /\ Told' /\ combatStep' = combatStep
<1>1. /\ currentGamePhase' = currentGamePhase /\ cursor' = cursor /\ combatStep' = combatStep
      /\ currentPlayer' = currentPlayer /\ guiStep' = guiStep /\ damages' = damages
      /\ view' = view /\ viewBlk' = viewBlk /\ inPlay' = inPlay /\ attacker' = attacker
      /\ phase' = p + 1 /\ phase = p /\ phase' = Succ(phase) /\ combatStep = "BLOCKERS"
      /\ strikes' = strikes /\ Own = {} /\ currentGamePhase = COMBATATTACKERS
  BY DEF Forward, guiVars, cardVars, Skipped, Succ, AFTER_EOT, COMBATBEGIN, COMBATBLOCKERS, COMBATDAMAGE
<1>2. Own' = {}
  BY <1>1 DEF Own
<1>3. Skipped(p + 1)'
  BY <1>1, <1>2 DEF Skipped
<1>4. StrikesFit'
  BY <1>1, <1>2 DEF Fits, FitsSoon, StrikesFit, StrikesSoon, COMBATBEGIN, COMBATATTACKERS, COMBATBLOCKERS, COMBATDAMAGE, COMBATEND
<1>5. GuiFits' /\ Told'
  BY <1>1 DEF Fits, FitsSoon, GuiFits, GuiFitsSoon, Told, AITurn
<1> QED
  BY <1>1, <1>3, <1>4, <1>5 DEF Fits, FitsSoon

(* What is left after the call on top, but for the start of the damage     *)
(* phase.                                                                  *)
LEMMA RestShapes ==
  /\ <<>> # <<Do("phaseActions")>>
  /\ <<Do("enterPhase")>> # <<Do("phaseActions")>>
  /\ \A x, y : <<x, y>> # <<Do("phaseActions")>>
<1>1. Head(<<Do("enterPhase")>>) # Head(<<Do("phaseActions")>>)
  BY Short, CallFacts
<1>2. \A x, y : Tail(<<x, y>>) # Tail(<<Do("phaseActions")>>)
  BY Short
<1> QED
  BY <1>1, <1>2, Short

(* The call on top, and what it tells.                                     *)
LEMMA RunningCases ==
  ASSUME TypeOK, Running, calls # <<>>
  PROVE  /\ Rest \in Seq(Call) /\ Rest \o <<>> = Rest /\ <<>> \o Rest = Rest
         /\ cursor # "NONE" /\ Head(calls).op # "phaseActions" =>
              Here /\ phase = COMBATDAMAGE /\ guiStep = combatStep /\ Rest # <<Do("phaseActions")>>
         /\ \/ Head(calls).op = "phaseActions" /\ Rest = <<>> /\ Acting
            \/ Head(calls).op = "nextGamePhase" /\ Rest = <<>> /\ Asking
            \/ Head(calls).op = "nextCombatStep" /\ Rest = <<>> /\ Advancing
            \/ Head(calls).op = "nextCombatStep" /\ Rest = <<Do("phaseActions")>> /\ Starting
            \/ Head(calls).op = "triggersStep" /\ Rest = <<>> /\ Triggering
            \/ Head(calls).op = "forward" /\ Rest = <<Skip(phase), Do("enterPhase")>> /\ Leaving
            \/ \E p \in Phase : /\ Head(calls).op = "skipCombat" /\ Head(calls).old = p
                                /\ Rest = <<Do("enterPhase")>> /\ Left(p)
            \/ Head(calls).op = "enterPhase" /\ Rest = <<>> /\ Entering
            \/ Head(calls).op = "forward" /\ Rest = <<Do("enterPhase")>> /\ Skipped(COMBATDAMAGE)
            \/ /\ Head(calls).op = "forward" /\ Rest = <<Do("forward"), Do("enterPhase")>>
               /\ Skipped(COMBATBLOCKERS)
<1>1. Ready(calls) /\ calls \in Seq(Call)
  BY DEF Running, TypeOK
<1>2. Rest \in Seq(Call) /\ Rest \o <<>> = Rest /\ <<>> \o Rest = Rest
  BY <1>1, CallSeqs DEF Rest
<1>3. \/ Head(calls) = Do("phaseActions") /\ Rest = <<>> /\ Acting
      \/ Head(calls) = Do("nextGamePhase") /\ Rest = <<>> /\ Asking
      \/ Head(calls) = Do("nextCombatStep") /\ Rest = <<>> /\ Advancing
      \/ Head(calls) = Do("nextCombatStep") /\ Rest = <<Do("phaseActions")>> /\ Starting
      \/ Head(calls) = Do("triggersStep") /\ Rest = <<>> /\ Triggering
      \/ Head(calls) = Do("forward") /\ Rest = <<Skip(phase), Do("enterPhase")>> /\ Leaving
      \/ \E p \in Phase : Head(calls) = Skip(p) /\ Rest = <<Do("enterPhase")>> /\ Left(p)
      \/ Head(calls) = Do("enterPhase") /\ Rest = <<>> /\ Entering
      \/ Head(calls) = Do("forward") /\ Rest = <<Do("enterPhase")>> /\ Skipped(COMBATDAMAGE)
      \/ /\ Head(calls) = Do("forward") /\ Rest = <<Do("forward"), Do("enterPhase")>>
         /\ Skipped(COMBATBLOCKERS)
  BY <1>1, ReadyCases DEF Rest
<1>4. cursor # "NONE" /\ Head(calls).op # "phaseActions" =>
        Here /\ phase = COMBATDAMAGE /\ guiStep = combatStep /\ Rest # <<Do("phaseActions")>>
  <2>1. calls = <<Do("phaseActions")>> => Head(calls).op = "phaseActions"
    BY Short, CallFacts
  <2>2. calls = <<Head(calls)>> \o Rest
    BY <1>1, CallSeqs DEF Rest
  <2>3. Rest = <<Do("phaseActions")>> => Head(calls) = Do("nextCombatStep")
    BY <1>3, RestShapes
  <2>4. Rest = <<Do("phaseActions")>> => calls = Starts
    BY <2>2, <2>3, Pair DEF Starts
  <2> QED BY <2>1, <2>4 DEF Running, Screen, Outer
<1> QED
  BY <1>2, <1>3, <1>4, CallFacts

(* A Running state out of what makes it one.                               *)
LEMMA RunsOn ==
  ASSUME Ready(calls)', eventsQueue' = <<>>, Fits', Told', cursor' # "NONE" => Screen(calls)'
  PROVE  Control'
BY DEF Control, Running

(* The calls of an Outer.                                                  *)
LEMMA Outers ==
  /\ <<>> \in Outer /\ <<Do("phaseActions")>> \in Outer
  /\ \A k \in Outer : k \in Seq(Call) /\ (k = <<>> \/ k = <<Do("phaseActions")>>)
  /\ \A op : op # "phaseActions" => <<Do(op)>> \notin Outer
<1>1. \A op : op # "phaseActions" => <<Do(op)>> # <<>> /\ <<Do(op)>> # <<Do("phaseActions")>>
  BY DEF Do
<1>2. <<>> \in Seq(Call) /\ <<Do("phaseActions")>> \in Seq(Call)
  BY CallFacts
<1> QED
  BY <1>1, <1>2 DEF Outer

(* The calls Ready() names are told apart by their number and their heads. *)
LEMMA ShapesDiffer ==
  /\ \A p : <<Skip(p), Do("enterPhase")>> # Skipping
  /\ <<Do("forward"), Do("enterPhase")>> # Skipping
  /\ \A op : <<Do(op)>> # Skipping /\ <<>> # Skipping
  /\ \A op : <<Do(op)>> # Starts /\ <<>> # Starts
  /\ \A p : <<Do("forward"), Skip(p), Do("enterPhase")>> # Starts
<1>1. \A p : Head(<<Skip(p), Do("enterPhase")>>) # Head(Skipping)
  <2>1. \A p : Skip(p) # Do("forward")
    <3>1. \A p : Skip(p).op = "skipCombat"
      BY DEF Skip
    <3> QED BY <3>1, CallFacts
  <2> QED BY <2>1, Short DEF Skipping
<1>2. Tail(Tail(<<Do("forward"), Do("enterPhase")>>)) # Tail(Tail(Skipping))
  BY Short DEF Skipping
<1>3. \A op : Tail(<<Do(op)>>) # Tail(Skipping)
  BY Short DEF Skipping
<1>4. \A op : Tail(<<Do(op)>>) # Tail(Starts)
  BY Short DEF Starts
<1>5. \A p : Head(<<Do("forward"), Skip(p), Do("enterPhase")>>) # Head(Starts)
  BY Short, CallFacts DEF Starts
<1> QED
  BY <1>1, <1>2, <1>3, <1>4, <1>5, Short DEF Skipping, Starts

(* It starts the next combat step or leaves the phase.                     *)
LEMMA RunningNextGamePhase ==
  ASSUME TypeOK, Running, NextGamePhase
  PROVE  Control'
<1>1. /\ calls # <<>> /\ Head(calls).op = "nextGamePhase"
      /\ SameGame /\ eventsQueue' = eventsQueue
  BY DEF NextGamePhase, Return, SameGame
<1>2. /\ Asking /\ Rest = <<>>
      /\ cursor # "NONE" => Here /\ phase = COMBATDAMAGE /\ guiStep = combatStep
  BY <1>1, RunningCases
<1>3. phase \in Phase
  BY DEF TypeOK
<1>4. Ready(calls') /\ calls' # Starts
  <2>1. CASE calls' = <<Do("nextCombatStep")>> \o Rest /\ Advancing
    <3>1. calls' = <<Do("nextCombatStep")>>
      BY <1>2, <2>1, CallFacts, CallSeqs
    <3> QED BY <2>1, <3>1, ShapesDiffer DEF Ready
  <2>2. CASE calls' = <<Do("forward"), Skip(phase), Do("enterPhase")>> \o Rest /\ Leaving
    <3> DEFINE turn == <<Do("forward"), Skip(phase), Do("enterPhase")>>
    <3>1. turn \in Seq(Call)
      BY <1>3, CallFacts
    <3> HIDE DEF turn
    <3>2. calls' = turn
      BY <1>2, <2>2, <3>1, CallSeqs DEF turn
    <3>3. turn # Starts
      BY ShapesDiffer DEF turn
    <3> QED BY <2>2, <3>2, <3>3 DEF Ready, turn
  <2> QED
    BY <1>2, <2>1, <2>2, AskingGoesOn DEF NextGamePhase, Then, Skip
<1>5. Ready(calls)'
  <2>1. \A j : Ready(j) => Ready(j)'
    BY <1>1, SameAll
  <2> QED BY <1>4, <2>1
<1>6. cursor # "NONE" => Screen(calls')
  BY <1>2, <1>4 DEF Screen
<1>7. cursor' # "NONE" => Screen(calls)'
  <2>1. (\A j : Screen(j) => Screen(j)') /\ cursor' = cursor
    BY <1>1, SameAll, SameVars
  <2> QED BY <1>6, <2>1
<1> QED
  BY <1>1, <1>5, <1>7, SameAll, RunsOn DEF Running

(* Whatever the phase, they are quiet.                                     *)
LEMMA StillQuiet ==
  ASSUME NEW es \in Seq(StillEvent)
  PROVE  es \in Seq(Event) /\ es \in Seq(QuietEvent) /\ es \in Seq(QuietEvent)'
<1>1. StillEvent \subseteq Event /\ StillEvent \subseteq QuietEvent /\ StillEvent \subseteq QuietEvent'
  BY DEF StillEvent, QuietEvent
<1> QED
  BY <1>1, SeqMonotonic

(* Events raised while nothing waited are about to be delivered.           *)
LEMMA RaisesQuiet ==
  ASSUME eventsQueue = <<>>, NEW es \in Seq(QuietEvent)', es \in Seq(Event), es # <<>>,
         NEW k \in Seq(Call), Raise(es, k), k # Skipping, Ready(k)',
         Fits', Told',
         cursor' # "NONE" =>
           \/ Screen(k)' /\ es \in Seq(StillEvent)
           \/ Head(es).type = "PhaseChange" /\ Head(es).to # COMBATDAMAGE
  PROVE  Control'
<1>1. eventsQueue' = es /\ calls' = <<Do("drain")>> \o k
  BY EventSeqs DEF Raise
<1>2. <<Do("drain")>> \in Seq(Call) /\ <<Do("drain")>> # <<>> /\ Head(<<Do("drain")>>) = Do("drain")
      /\ Tail(<<Do("drain")>>) = <<>>
  BY CallFacts, Short
<1>3. calls' # <<>> /\ Head(calls') = Do("drain") /\ Rest' = k
  <2>1. calls' # <<>> /\ Head(calls') = Do("drain") /\ Tail(calls') = <<>> \o k
    BY <1>1, <1>2, CallSeqs
  <2> QED BY <2>1, CallSeqs DEF Rest
<1>4. Undelivered' = es
  BY <1>1, <1>3, CallFacts DEF Undelivered
<1>5. Draining'
  BY <1>1, <1>3 DEF Draining
<1>6. Ready(Rest)' /\ Rest' # Skipping'
  BY <1>3 DEF Skipping
<1>7. cursor' # "NONE" => Closing' \/ (Screen(Rest)' /\ Undelivered' \in Seq(StillEvent)')
  BY <1>3, <1>4 DEF Closing, COMBATDAMAGE, Screen, StillEvent, Event
<1> QED
  BY <1>4, <1>5, <1>6, <1>7 DEF Control, Quiet

(* So is a combat step.                                                    *)
LEMMA RaisesStep ==
  ASSUME eventsQueue = <<>>, combatStep' \in CombatStep,
         NEW k \in Outer, Raise(<<Step(combatStep')>>, k), Interrupts(k)',
         Here', Arriving', FitsSoon', LeftOpen'
  PROVE  Control'
<1>0. k \in Seq(Call)
  BY Outers
<1>1. eventsQueue' = <<Step(combatStep')>> /\ calls' = <<Do("drain")>> \o k
  <2> DEFINE es == <<Step(combatStep')>>
  <2>1. es \in Seq(Event) /\ es # <<>>
    BY EventTypes
  <2> HIDE DEF es
  <2>2. eventsQueue' = es /\ calls' = <<Do("drain")>> \o k
    <3>1. Raise(es, k)
      BY DEF es
    <3> QED BY <2>1, <3>1, EventSeqs DEF Raise
  <2> QED BY <2>2 DEF es
<1>2. <<Do("drain")>> \in Seq(Call) /\ <<Do("drain")>> # <<>> /\ Head(<<Do("drain")>>) = Do("drain")
      /\ Tail(<<Do("drain")>>) = <<>>
  BY CallFacts, Short
<1>3. calls' # <<>> /\ Head(calls') = Do("drain") /\ Rest' = k
  <2>1. calls' # <<>> /\ Head(calls') = Do("drain") /\ Tail(calls') = <<>> \o k
    BY <1>0, <1>1, <1>2, CallSeqs
  <2> QED BY <1>0, <2>1, CallSeqs DEF Rest
<1>4. Undelivered' = <<Step(combatStep')>>
  BY <1>1, <1>3, CallFacts DEF Undelivered
<1>5. Draining'
  BY <1>1, <1>3 DEF Draining
<1>6. Interrupts(Rest)'
  BY <1>3
<1>7. Undelivered' = <<Step(combatStep)>>'
  BY <1>4 DEF Step
<1> QED
  BY <1>5, <1>6, <1>7 DEF Control, Arrives

(* forward() announces the change of phase.                                *)
LEMMA RunningForward ==
  ASSUME TypeOK, Running, Forward
  PROVE  Control'
<1>1. /\ calls # <<>> /\ Head(calls).op = "forward" /\ eventsQueue = <<>>
      /\ Raise(<<TurnTo(phase, phase')>>, Rest)
  BY DEF Forward, Return, Running, TurnTo
<1>2. /\ Rest \in Seq(Call) /\ Fits /\ Told /\ phase \in Phase
      /\ cursor # "NONE" => phase = COMBATDAMAGE
      /\ \/ Rest = <<Skip(phase), Do("enterPhase")>> /\ Leaving
         \/ Rest = <<Do("enterPhase")>> /\ Skipped(COMBATDAMAGE)
         \/ Rest = <<Do("forward"), Do("enterPhase")>> /\ Skipped(COMBATBLOCKERS)
  BY <1>1, RunningCases DEF Running, TypeOK
<1>3. phase' = Succ(phase) /\ phase' \in Phase /\ Fits' /\ cursor' = cursor /\ Told'
  <2>1. phase' \in Phase
    BY <1>2 DEF Forward, Phase, BEFORE_BEGIN, AFTER_EOT
  <2> QED BY <1>2, <2>1, LeavesPhase, SkipsPhase
<1>4. cursor' # "NONE" => phase' # COMBATDAMAGE
  BY <1>2, <1>3 DEF Succ, COMBATDAMAGE, AFTER_EOT
<1>5. PICK k \in Seq(Call) : k = Rest
  BY <1>2
<1>6. PICK p \in Phase : p = phase
  BY <1>2
<1>7. Ready(k)' /\ k # Skipping
  <2>1. CASE k = <<Skip(p), Do("enterPhase")>> /\ Leaving
    <3>1. Left(p)'
      BY <1>2, <1>6, <2>1, LeavesPhase
    <3> QED BY <2>1, <3>1, ShapesDiffer DEF Ready
  <2>2. CASE k = <<Do("enterPhase")>> /\ Skipped(COMBATDAMAGE)
    <3>1. Skipped(COMBATEND)'
      BY <1>2, <2>2, SkipsPhase DEF COMBATDAMAGE, COMBATEND
    <3> QED BY <2>2, <3>1, ShapesDiffer DEF Ready, Entering
  <2>3. CASE k = <<Do("forward"), Do("enterPhase")>> /\ Skipped(COMBATBLOCKERS)
    <3>1. Skipped(COMBATDAMAGE)'
      BY <1>2, <2>3, SkipsPhase DEF COMBATDAMAGE, COMBATBLOCKERS
    <3> QED BY <2>3, <3>1, ShapesDiffer DEF Ready
  <2> QED BY <1>2, <1>5, <1>6, <2>1, <2>2, <2>3
<1>8. TurnTo(phase, phase') \in QuietEvent' /\ TurnTo(phase, phase') \in Event
  <2>1. /\ TurnTo(phase, phase') \in Event /\ TurnTo(phase, phase').type = "PhaseChange"
        /\ TurnTo(phase, phase').from = phase /\ TurnTo(phase, phase').to = phase'
    BY <1>2, <1>3, EventTypes
  <2>2. phase = COMBATATTACKERS => phase' = COMBATBLOCKERS
    BY <1>3 DEF Succ, COMBATATTACKERS, COMBATBLOCKERS, AFTER_EOT
  <2> QED BY <2>1, <2>2 DEF QuietEvent
<1>9. PICK e \in QuietEvent' : e = TurnTo(phase, phase') /\ e \in Event
  BY <1>8
<1>10. <<e>> \in Seq(QuietEvent)' /\ <<e>> \in Seq(Event) /\ <<e>> # <<>>
  BY <1>9, One
<1>11. cursor' # "NONE" => Head(<<e>>).type = "PhaseChange" /\ Head(<<e>>).to # COMBATDAMAGE
  BY <1>4, <1>9, Short DEF TurnTo
<1> QED
  BY <1>1, <1>3, <1>5, <1>7, <1>9, <1>10, <1>11, RaisesQuiet

(* A phase left may be the attackers phase of a turn nobody attacks in.    *)
LEMMA RunningSkipCombat ==
  ASSUME TypeOK, Running, SkipCombat
  PROVE  Control'
<1>1. /\ calls # <<>> /\ Head(calls).op = "skipCombat" /\ SameGame /\ eventsQueue' = eventsQueue
  BY DEF SkipCombat, Return, SameGame
<1>2. PICK p \in Phase : Head(calls).old = p /\ Rest = <<Do("enterPhase")>> /\ Left(p)
  BY <1>1, RunningCases
<1>3. cursor = "NONE"
  <2>1. ~ Here
    BY <1>2 DEF Left, Here, Succ, Phase, BEFORE_BEGIN, AFTER_EOT
  <2> QED BY <1>1, <2>1, RunningCases
<1>4. Ready(calls')
  <2>1. CASE p = COMBATATTACKERS /\ Own = {}
    <3>1. calls' = <<Do("forward"), Do("forward")>> \o <<Do("enterPhase")>>
      BY <1>2, <2>1 DEF SkipCombat, Then, Own
    <3>2. calls' = Skipping
      BY <3>1, Triple DEF Skipping
    <3>3. Skipped(COMBATBLOCKERS)
      BY <1>2, <2>1 DEF Skipped, Left, Succ, LeaveStep, COMBATBLOCKERS, COMBATATTACKERS, COMBATDAMAGE, AFTER_EOT
    <3> QED BY <3>2, <3>3 DEF Ready
  <2>2. CASE ~ (p = COMBATATTACKERS /\ Own = {})
    <3>1. calls' = <<>> \o <<Do("enterPhase")>>
      BY <1>2, <2>2 DEF SkipCombat, Then, Own
    <3>2. <<Do("enterPhase")>> \in Seq(Call)
      BY CallFacts
    <3>3. calls' = <<Do("enterPhase")>>
      BY <3>1, <3>2, CallSeqs
    <3> QED BY <1>2, <3>3 DEF Ready, Entering
  <2> QED BY <2>1, <2>2
<1>5. Ready(calls)'
  <2>1. \A j : Ready(j) => Ready(j)'
    BY <1>1, SameAll
  <2> QED BY <1>4, <2>1
<1> QED
  BY <1>1, <1>2, <1>3, <1>5, SameAll, SameVars, RunsOn DEF Running

(* The new phase is entered; the damage phase starts its first step.       *)
LEMMA EntersPhase ==
  ASSUME TypeOK, Entering, EnterPhase, Fits
  PROVE  /\ phase = COMBATDAMAGE => Starting' /\ currentGamePhase' = COMBATDAMAGE
         /\ phase # COMBATDAMAGE => Acting' /\ currentGamePhase' = phase
         /\ Fits' /\ (Told => Told') /\ ~ Here
         /\ cursor' = cursor /\ eventsQueue' = eventsQueue /\ phase' = phase
<1>1. /\ currentGamePhase' = phase /\ cursor' = cursor /\ eventsQueue' = eventsQueue
      /\ phase' = phase /\ combatStep' = combatStep /\ currentPlayer' = currentPlayer
      /\ strikes' = strikes /\ guiStep' = guiStep /\ damages' = damages
      /\ view' = view /\ viewBlk' = viewBlk /\ inPlay' = inPlay /\ attacker' = attacker
  BY DEF EnterPhase, guiVars, cardVars
<1>2. Own' = Own
  BY <1>1 DEF Own
<1>3. Fits'
  BY <1>1, <1>2, SameFits
<1>4. (Told => Told') /\ (Settled' <=> Settled) /\ LeaveStep(COMBATBLOCKERS)' = LeaveStep(COMBATBLOCKERS)
  BY <1>1 DEF Told, AITurn, Settled, LeaveStep
<1>5. ~ Here
  BY DEF Here, Entering, Skipped, Left, Succ, Phase, BEFORE_BEGIN, AFTER_EOT, COMBATATTACKERS, COMBATEND
<1>6. ASSUME phase = COMBATDAMAGE
      PROVE  Starting'
  BY <1>1, <1>4, <1>6 DEF Starting, Here, Entering, Skipped, Left, Succ, COMBATBLOCKERS, COMBATDAMAGE,
     COMBATEND, Phase, BEFORE_BEGIN, AFTER_EOT
<1>7. ASSUME phase # COMBATDAMAGE
      PROVE  Acting'
  <2>1. Here'
    BY <1>1 DEF Here
  <2>2. /\ phase = COMBATBLOCKERS => combatStep = "BLOCKERS"
        /\ Settled \/ (phase = COMBATEND /\ combatStep = "END_DAMAGE")
    <3>1. CASE Skipped(COMBATEND)
      BY <3>1 DEF Skipped, Settled, COMBATBLOCKERS, COMBATDAMAGE, COMBATEND
    <3>2. ASSUME NEW p \in Phase, Left(p)
          PROVE  /\ phase = COMBATBLOCKERS => combatStep = "BLOCKERS"
                 /\ Settled \/ (phase = COMBATEND /\ combatStep = "END_DAMAGE")
      <4>1. CASE p = COMBATDAMAGE
        BY <3>2, <4>1 DEF Left, Succ, LeaveStep, COMBATBLOCKERS, COMBATDAMAGE, COMBATEND, AFTER_EOT
      <4>2. CASE p # COMBATDAMAGE /\ p # COMBATBLOCKERS
        BY <3>2, <4>2, <1>7 DEF Left, LeaveStep, Settled
      <4>3. CASE p = COMBATBLOCKERS
        BY <3>2, <4>3, <1>7 DEF Left, Succ, COMBATBLOCKERS, COMBATDAMAGE, AFTER_EOT
      <4> QED BY <4>1, <4>2, <4>3
    <3> QED BY <3>1, <3>2 DEF Entering
  <2> QED BY <1>1, <1>4, <2>1, <2>2 DEF Acting
<1> QED
  BY <1>1, <1>3, <1>4, <1>5, <1>6, <1>7

(* A running engine enters a phase.                                        *)
LEMMA RunningEnterPhase ==
  ASSUME TypeOK, Running, EnterPhase
  PROVE  Control'
<1>1. calls # <<>> /\ Head(calls).op = "enterPhase"
  BY DEF EnterPhase, Return
<1>2. /\ Rest = <<>> /\ Entering /\ Fits /\ Told /\ eventsQueue = <<>>
      /\ cursor # "NONE" => Here
  BY <1>1, RunningCases DEF Running
<1>3. <<Do("nextCombatStep")>> \in Seq(Call) /\ <<Do("phaseActions")>> \in Seq(Call)
  BY CallFacts
<1>4. Ready(calls)'
  <2>1. CASE phase = COMBATDAMAGE
    <3>1. calls' = (<<Do("nextCombatStep")>> \o <<Do("phaseActions")>>) \o <<>>
      BY <1>2, <2>1 DEF EnterPhase, Then
    <3>2. <<Do("nextCombatStep")>> \o <<Do("phaseActions")>> \in Seq(Call)
      BY <1>3, CallSeqs
    <3>3. calls' = <<Do("nextCombatStep")>> \o <<Do("phaseActions")>>
      BY <3>1, <3>2, CallSeqs
    <3>4. calls' = <<Do("nextCombatStep"), Do("phaseActions")>>
      BY <3>3, Pair
    <3> QED BY <1>2, <2>1, <3>4, EntersPhase DEF Ready
  <2>2. CASE phase # COMBATDAMAGE
    <3>1. calls' = (<<>> \o <<Do("phaseActions")>>) \o <<>>
      BY <1>2, <2>2 DEF EnterPhase, Then
    <3>2. calls' = <<Do("phaseActions")>>
      BY <1>3, <3>1, CallSeqs
    <3> QED BY <1>2, <2>2, <3>2, EntersPhase DEF Ready
  <2> QED BY <2>1, <2>2
<1> QED
  BY <1>2, <1>4, EntersPhase, RunsOn

(* nextCombatStep() announces the blockers or the next step.               *)
LEMMA RunningNextCombatStep ==
  ASSUME TypeOK, Running, NextCombatStep
  PROVE  Control'
<1>1. /\ calls # <<>> /\ Head(calls).op = "nextCombatStep" /\ eventsQueue = <<>>
      /\ UNCHANGED <<turnVars, cardVars, guiVars, strikes>>
  BY DEF NextCombatStep, Return, Running
<1>2. /\ Fits /\ Told
      /\ cursor # "NONE" => phase = COMBATDAMAGE /\ Rest # <<Do("phaseActions")>>
      /\ \/ Rest = <<>> /\ Advancing
         \/ Rest = <<Do("phaseActions")>> /\ Starting
  BY <1>1, RunningCases DEF Running
<1>3. CASE combatStep = "BLOCKERS"
  <2>1. SameGame /\ Raise(<<[type |-> "BlockersChosen"]>>, <<Do("triggersStep")>> \o Rest)
    BY <1>1, <1>3 DEF NextCombatStep, SameGame
  <2>2. Rest = <<>> /\ Triggering /\ cursor = "NONE"
    BY <1>2, <1>3 DEF Starting, LeaveStep, Advancing, Advances, Triggering, COMBATBLOCKERS, COMBATDAMAGE
  <2>3. PICK k \in Seq(Call) : k = <<Do("triggersStep")>> /\ <<Do("triggersStep")>> \o Rest = k
    <3>1. <<Do("triggersStep")>> \in Seq(Call)
      BY CallFacts
    <3>2. <<Do("triggersStep")>> \o Rest = <<Do("triggersStep")>>
      BY <2>2, <3>1, CallSeqs
    <3> QED BY <3>1, <3>2
  <2>4. PICK e \in QuietEvent' : e = [type |-> "BlockersChosen"] /\ e \in Event
    BY EventTypes DEF QuietEvent
  <2>5. <<e>> \in Seq(QuietEvent)' /\ <<e>> \in Seq(Event) /\ <<e>> # <<>>
    BY <2>4, One
  <2>6. Ready(k) /\ k # Skipping
    BY <2>2, <2>3, ShapesDiffer DEF Ready
  <2>7. /\ Ready(k)' /\ Fits' /\ Told' /\ cursor' = "NONE"
    BY <1>2, <2>1, <2>2, <2>6, SameAll, SameVars
  <2> QED
    BY <1>1, <2>1, <2>3, <2>4, <2>5, <2>6, <2>7, RaisesQuiet
<1>4. CASE combatStep # "BLOCKERS"
  <2>1. combatStep # "END_DAMAGE"
    BY <1>2 DEF Advancing, Advances, Starting, LeaveStep, COMBATBLOCKERS, COMBATDAMAGE
  <2>2. combatStep' = StepAfter[combatStep] /\ Raise(<<Step(combatStep')>>, Rest)
    BY <1>4, <2>1 DEF NextCombatStep, Step
  <2>3. /\ Here' /\ Arriving' /\ FitsSoon' /\ phase' = phase /\ cursor' = cursor
        /\ currentGamePhase' = currentGamePhase /\ combatStep' \in CombatStep
    BY <1>1, <1>2, <1>4, <2>2, StepArrives
  <2>4. PICK k \in Outer : k = Rest
    BY <1>2, Outers
  <2>5. Interrupts(k)'
    BY <1>2, <2>3, <2>4 DEF Interrupts, Starting, Here
  <2>6. LeftOpen'
    <3>1. cursor # "NONE" => phase = COMBATDAMAGE /\ combatStep' # "FIRST_STRIKE"
      BY <1>2, <2>2 DEF Advancing, Advances, StepAfter, COMBATBLOCKERS, COMBATDAMAGE
    <3> QED BY <2>3, <3>1 DEF LeftOpen, COMBATDAMAGE
  <2> QED
    BY <1>1, <2>2, <2>3, <2>4, <2>5, <2>6, RaisesStep
<1> QED
  BY <1>3, <1>4

(* Once the blockers are chosen the combat triggers come.                  *)
LEMMA RunningTriggersStep ==
  ASSUME TypeOK, Running, TriggersStep
  PROVE  Control'
<1>1. /\ calls # <<>> /\ Head(calls).op = "triggersStep" /\ eventsQueue = <<>>
      /\ UNCHANGED <<turnVars, cardVars, guiVars, strikes>> /\ combatStep' = "TRIGGERS"
      /\ Raise(<<Step(combatStep')>>, Rest)
  BY DEF TriggersStep, Return, Running, Step
<1>2. cursor = "NONE" /\ Fits /\ Rest = <<>> /\ Triggering
  BY <1>1, RunningCases DEF Running, Triggering, COMBATBLOCKERS, COMBATDAMAGE
<1>3. /\ Here' /\ Arriving' /\ FitsSoon' /\ LeftOpen' /\ combatStep' \in CombatStep
  BY <1>1, <1>2, TriggersArrives DEF CombatStep, LeftOpen
<1>4. PICK k \in Outer : k = Rest /\ k = <<>>
  BY <1>2, Outers
<1>5. Interrupts(k)'
  BY <1>4 DEF Interrupts
<1> QED
  BY <1>1, <1>3, <1>4, <1>5, RaisesStep

(* Creatures that leave the combat, or leave play, leave no new attacker.  *)
LEMMA NobodyNew ==
  ASSUME NEW C, NEW D, LeaveCombat(C, D), currentPlayer' = currentPlayer
  PROVE  Own' \subseteq Own
BY DEF LeaveCombat, Own

(* Their events are quiet ones.                                            *)
LEMMA LeaveEventsQuiet ==
  ASSUME TypeOK, NEW C \in SUBSET Creature, NEW D \in SUBSET Creature
  PROVE  /\ Events(LeaveEvents(C, D)) \in Seq(Event)
         /\ Events(LeaveEvents(C, D)) \in Seq(StillEvent)
         /\ Events(LeaveEvents(C, D)) \in Seq(QuietEvent)'
<1>1. /\ LeaveEvents(C, D) \in SUBSET {e \in Event : e.type \in {"AttackerOff", "Blocker", "ZoneChange"}}
      /\ IsFiniteSet(LeaveEvents(C, D))
  BY LeaveEventsTyped
<1>2. LeaveEvents(C, D) \in SUBSET Event /\ LeaveEvents(C, D) \in SUBSET StillEvent
  BY <1>1 DEF StillEvent
<1>3. Events(LeaveEvents(C, D)) \in Seq(Event) /\ Events(LeaveEvents(C, D)) \in Seq(StillEvent)
  BY <1>1, <1>2, EventsInOrder
<1> QED
  BY <1>3, StillQuiet

(* The damage of a combat over with ends with its phase.                   *)
LEMMA EndsCombat ==
  ASSUME TypeOK, Acting, currentGamePhase = COMBATEND, Fits,
         combatStep' = "BLOCKERS", UNCHANGED <<turnVars, cardVars, guiVars, strikes>>
  PROVE  /\ AtRest' /\ Acting' /\ Fits' /\ Told'
         /\ phase' = COMBATEND /\ currentGamePhase' = COMBATEND
         /\ cursor' = cursor
<1>1. /\ phase' = phase /\ currentGamePhase' = currentGamePhase /\ strikes' = strikes
      /\ cursor' = cursor /\ phase = COMBATEND /\ inPlay' = inPlay /\ attacker' = attacker
      /\ currentPlayer' = currentPlayer
  <2>1. /\ phase' = phase /\ currentGamePhase' = currentGamePhase
        /\ currentPlayer' = currentPlayer
    BY DEF turnVars
  <2>2. strikes' = strikes /\ cursor' = cursor /\ inPlay' = inPlay /\ attacker' = attacker
    BY DEF guiVars, cardVars
  <2>3. phase = COMBATEND
    BY DEF Acting, Here
  <2> QED BY <2>1, <2>2, <2>3
<1>2. Own' = Own
  BY <1>1 DEF Own
<1>3. combatStep \in {"BLOCKERS", "END_DAMAGE"}
  BY <1>1 DEF Acting, Settled, COMBATEND, COMBATBLOCKERS, COMBATDAMAGE
<1>4. strikes = Both \/ (Own = {} /\ strikes \in {<<>>, FirstOnly, Both})
  BY <1>1, <1>3 DEF Fits, FitsSoon, StrikesFit, StrikesSoon
<1>5. StrikesFit'
  BY <1>1, <1>2, <1>4 DEF StrikesFit, StrikesSoon, COMBATBEGIN, COMBATATTACKERS, COMBATBLOCKERS, COMBATEND
<1>6. GuiFits' /\ Told'
  BY DEF GuiFits, GuiFitsSoon, Told
<1>7. AtRest' /\ Acting'
  BY <1>1 DEF AtRest, Acting, Settled, Here, BEFORE_BEGIN, AFTER_EOT, COMBATEND, COMBATBLOCKERS, COMBATDAMAGE
<1> QED
  BY <1>1, <1>5, <1>6, <1>7 DEF Fits, FitsSoon

(* A turn that begins, or is passed on, goes to the next phase.            *)
LEMMA AsksAgain ==
  ASSUME Here, phase' = phase, currentGamePhase' = currentGamePhase,
         phase \in {BEFORE_BEGIN, AFTER_EOT},
         Settled, Fits, combatStep' = "BLOCKERS", strikes' = strikes
  PROVE  Asking' /\ Fits' /\ Told' /\ combatStep = "BLOCKERS"
<1>1. combatStep = "BLOCKERS"
  BY DEF Settled, BEFORE_BEGIN, AFTER_EOT, COMBATBLOCKERS, COMBATDAMAGE
<1>2. Asking'
  BY DEF Asking, Here, LeaveStep, BEFORE_BEGIN, AFTER_EOT, COMBATBLOCKERS, COMBATDAMAGE
<1>3. StrikesFit'
  BY <1>1 DEF Fits, FitsSoon, StrikesFit, StrikesSoon, BEFORE_BEGIN, AFTER_EOT, COMBATBEGIN, COMBATATTACKERS, COMBATBLOCKERS, COMBATEND
<1> QED
  BY <1>1, <1>2, <1>3 DEF Fits, FitsSoon, GuiFits, GuiFitsSoon, Told

(* A running engine does the actions of the phase it entered.              *)
LEMMA RunningPhaseActions ==
  ASSUME TypeOK, TypeOK', Running, PhaseActions
  PROVE  Control'
<1>1. /\ calls # <<>> /\ Head(calls).op = "phaseActions" /\ eventsQueue = <<>>
      /\ UNCHANGED <<phase, ringOwner, currentGamePhase, guiVars, strikes>>
      /\ phase' = phase /\ currentGamePhase' = currentGamePhase /\ strikes' = strikes
      /\ cursor' = cursor
  BY DEF PhaseActions, Return, Running, guiVars
<1>2. /\ Rest = <<>> /\ Acting /\ Fits /\ Told /\ Here /\ currentGamePhase = phase
  BY <1>1, RunningCases DEF Running, Acting, Here
<1>3. cursor # "NONE" => phase = COMBATDAMAGE /\ Screen(<<>>)
  <2>1. cursor # "NONE" => Screen(calls)
    BY DEF Running
  <2> QED BY <1>2, <2>1, ShapesDiffer DEF Screen, Acting
<1>4. /\ phase # COMBATEND => Settled
      /\ phase = COMBATBLOCKERS => combatStep = "BLOCKERS"
  BY <1>2 DEF Acting
<1>5. phase \notin {COMBATBLOCKERS, COMBATDAMAGE} => combatStep \in {"BLOCKERS", "END_DAMAGE"}
  BY <1>2 DEF Acting, Settled
<1>6. <<Do("nextGamePhase")>> \in Seq(Call) /\ <<Do("nextGamePhase")>> \o <<>> = <<Do("nextGamePhase")>>
      /\ <<>> \o <<>> = <<>>
  <2>1. <<Do("nextGamePhase")>> \in Seq(Call) /\ <<>> \in Seq(Call)
    BY CallFacts
  <2> QED BY <2>1, CallSeqs
<1>7. CASE phase = COMBATEND
  <2>1. /\ combatStep' = "BLOCKERS" /\ calls' = <<>>
        /\ UNCHANGED <<turnVars, cardVars, guiVars, strikes>> /\ eventsQueue' = <<>>
    BY <1>1, <1>2, <1>6, <1>7 DEF PhaseActions, Then, AFTER_EOT, BEFORE_BEGIN, COMBATEND, COMBATBLOCKERS, turnVars
  <2>2. AtRest' /\ Fits' /\ Told'
    BY <1>2, <1>7, <2>1, EndsCombat
  <2>3. cursor = "NONE"
    BY <1>3, <1>7 DEF COMBATEND, COMBATDAMAGE
  <2> QED BY <1>1, <2>1, <2>2, <2>3, RunsOn DEF Ready
<1>8. CASE phase = AFTER_EOT
  <2>1. nextPlayer /\ calls' = <<Do("nextGamePhase")>> /\ eventsQueue' = <<>> /\ combatStep' = "BLOCKERS"
    BY <1>1, <1>2, <1>6, <1>8 DEF PhaseActions, AFTER_EOT, BEFORE_BEGIN, COMBATEND, COMBATBLOCKERS, Then, nextPlayer
  <2>2. Asking' /\ Fits' /\ Told' /\ combatStep = "BLOCKERS"
    <3>1. Settled /\ phase \in {BEFORE_BEGIN, AFTER_EOT}
      BY <1>4, <1>8 DEF AFTER_EOT, COMBATEND
    <3> QED BY <1>1, <1>2, <2>1, <3>1, AsksAgain
  <2>3. cursor = "NONE"
    BY <1>3, <1>8 DEF AFTER_EOT, COMBATDAMAGE
  <2> QED BY <1>1, <2>1, <2>2, <2>3, RunsOn DEF Ready
<1>9. CASE phase = BEFORE_BEGIN
  <2>1. /\ combatStep' = "BLOCKERS" /\ LeaveCombat(inPlay, {})
        /\ Raise(Events(LeaveEvents(inPlay, {})), <<Do("nextGamePhase")>>)
    BY <1>1, <1>2, <1>6, <1>9 DEF PhaseActions, AFTER_EOT, BEFORE_BEGIN, COMBATEND, COMBATBLOCKERS
  <2>2. Asking' /\ Fits' /\ Told' /\ combatStep = "BLOCKERS"
    <3>1. Settled /\ phase \in {BEFORE_BEGIN, AFTER_EOT}
      BY <1>4, <1>9 DEF BEFORE_BEGIN, COMBATEND
    <3> QED BY <1>1, <1>2, <2>1, <3>1, AsksAgain
  <2>3. PICK es \in Seq(Event) : es = Events(LeaveEvents(inPlay, {})) /\ es \in Seq(QuietEvent)'
    BY LeaveEventsQuiet DEF TypeOK
  <2>4. PICK k \in Seq(Call) : k = <<Do("nextGamePhase")>>
    BY <1>6
  <2>5. Ready(k)' /\ k # Skipping /\ cursor' = "NONE"
    BY <1>1, <1>3, <1>9, <2>2, <2>4, ShapesDiffer DEF Ready, BEFORE_BEGIN, COMBATDAMAGE
  <2>6. CASE es = <<>>
    <3>1. eventsQueue' = <<>> \o <<>> /\ calls' = <<>> \o k
      BY <1>1, <2>1, <2>3, <2>4, <2>6 DEF Raise
    <3>2. eventsQueue' = <<>> /\ calls' = k
      BY <1>6, <3>1, CallSeqs
    <3>3. Ready(calls)'
      BY <2>5, <3>2
    <3> QED BY <2>1, <2>2, <2>5, <3>2, <3>3, RunsOn
  <2>7. CASE es # <<>>
    BY <1>1, <2>1, <2>2, <2>3, <2>4, <2>5, <2>7, RaisesQuiet
  <2> QED BY <2>6, <2>7
<1>10. CASE phase = COMBATBLOCKERS
  <2>1. Raise(<<[type |-> "AttackersChosen"]>>, <<>>) /\ SameGame
    BY <1>1, <1>2, <1>10 DEF PhaseActions, AFTER_EOT, BEFORE_BEGIN, COMBATEND, COMBATBLOCKERS, SameGame, turnVars
  <2>2. AtRest
    BY <1>2, <1>4, <1>10 DEF AtRest, BEFORE_BEGIN, AFTER_EOT, COMBATBLOCKERS, COMBATEND
  <2>3. PICK e \in QuietEvent' : e = [type |-> "AttackersChosen"] /\ e \in Event
    BY EventTypes DEF QuietEvent
  <2>4. <<e>> \in Seq(QuietEvent)' /\ <<e>> \in Seq(Event) /\ <<e>> # <<>>
    BY <2>3, One
  <2>5. PICK k \in Seq(Call) : k = <<>>
    BY CallSeqs
  <2>6. Ready(k) /\ k # Skipping
    BY <2>2, <2>5, ShapesDiffer DEF Ready
  <2>7. Ready(k)' /\ Fits' /\ Told' /\ cursor' = "NONE"
    <3>1. cursor = "NONE"
      BY <1>3, <1>10 DEF COMBATBLOCKERS, COMBATDAMAGE
    <3> QED BY <1>2, <2>1, <2>6, <3>1, SameAll, SameVars
  <2> QED BY <1>1, <2>1, <2>3, <2>4, <2>5, <2>6, <2>7, RaisesQuiet
<1>11. CASE phase \notin {COMBATEND, BEFORE_BEGIN, AFTER_EOT, COMBATBLOCKERS}
  <2>1. calls' = <<>> /\ SameGame /\ eventsQueue' = <<>>
    BY <1>1, <1>2, <1>6, <1>11 DEF PhaseActions, Then, SameGame, turnVars
  <2>2. AtRest
    BY <1>2, <1>4, <1>11 DEF AtRest
  <2>3. Ready(calls') 
    BY <2>1, <2>2 DEF Ready
  <2>4. Ready(calls)' /\ Fits' /\ Told'
    BY <1>2, <2>1, <2>3, SameAll
  <2>5. cursor' # "NONE" => Screen(calls)'
    <3>1. (\A k : Screen(k) => Screen(k)') /\ cursor' = cursor
      BY <2>1, SameAll, SameVars
    <3> QED BY <1>3, <2>1, <3>1
  <2> QED BY <2>1, <2>4, <2>5, RunsOn
<1> QED
  BY <1>7, <1>8, <1>9, <1>10, <1>11

-----------------------------------------------------------------------------
(* Control: calls made within a delivery.                                  *)

(* A call made within a delivery, and what it returns to.                  *)
LEMMA WithinTop ==
  ASSUME NEW C \in Seq(Call), C # <<>>, NEW q, Within(C, q)
  PROVE  /\ calls # <<>> /\ Head(calls) = Head(C) /\ Tail(C) \in Seq(Call)
         /\ eventsQueue # <<>> /\ Tail(eventsQueue) = q
         /\ \E k \in Outer : /\ Interrupts(k) /\ <<Do("pop")>> \o k \in Seq(Call)
                             /\ calls = C \o (<<Do("pop")>> \o k)
                             /\ Rest = Tail(C) \o (<<Do("pop")>> \o k)
<1>1. PICK k \in Outer : calls = C \o (<<Do("pop")>> \o k) /\ Interrupts(k)
  BY DEF Within
<1>2. <<Do("pop")>> \in Seq(Call)
  BY CallFacts
<1>3. <<Do("pop")>> \o k \in Seq(Call)
  BY <1>2, Outers, CallSeqs
<1>4. calls # <<>> /\ Head(calls) = Head(C) /\ Rest = Tail(C) \o (<<Do("pop")>> \o k)
      /\ Tail(C) \in Seq(Call)
  BY <1>1, <1>3, CallSeqs DEF Rest
<1> QED
  BY <1>1, <1>3, <1>4 DEF Within

(* The call on top during a delivery that is still on the way.             *)
LEMMA NestedTop ==
  ASSUME Nested \/ NestedArrives
  PROVE  /\ calls # <<>>
         /\ Head(calls).op \in {"nextGamePhase", "nextCombatStep", "forward", "skipCombat",
                                "enterPhase", "phaseActions"}
<1>1. COMBATBLOCKERS \in Phase /\ COMBATDAMAGE \in Phase
  BY DEF Phase, BEFORE_BEGIN, AFTER_EOT, COMBATBLOCKERS, COMBATDAMAGE
<1>2. /\ \A a \in {"phaseActions", "nextGamePhase", "nextCombatStep", "enterPhase"} :
           <<Do(a)>> \in Seq(Call) /\ <<Do(a)>> # <<>> /\ Head(<<Do(a)>>).op = a
  BY CallFacts, Short
<1>3. /\ <<Do("nextCombatStep"), Do("phaseActions")>> \in Seq(Call)
      /\ <<Do("nextCombatStep"), Do("phaseActions")>> # <<>>
      /\ Head(<<Do("nextCombatStep"), Do("phaseActions")>>).op = "nextCombatStep"
  BY CallFacts, Short
<1>4. \A p \in Phase : /\ <<Do("forward"), Skip(p), Do("enterPhase")>> \in Seq(Call)
                       /\ <<Do("forward"), Skip(p), Do("enterPhase")>> # <<>>
                       /\ Head(<<Do("forward"), Skip(p), Do("enterPhase")>>).op = "forward"
  BY CallFacts, Short
<1>5. \A p \in Phase : /\ <<Skip(p), Do("enterPhase")>> \in Seq(Call)
                       /\ <<Skip(p), Do("enterPhase")>> # <<>>
                       /\ Head(<<Skip(p), Do("enterPhase")>>).op = "skipCombat"
  BY CallFacts, Short
<1>6. ASSUME NEW C \in Seq(Call), C # <<>>, NEW q, Within(C, q)
      PROVE  calls # <<>> /\ Head(calls) = Head(C)
  BY <1>6, WithinTop
<1> DEFINE Top == /\ calls # <<>>
                  /\ Head(calls).op \in {"nextGamePhase", "nextCombatStep", "forward", "skipCombat",
                                         "enterPhase", "phaseActions"}
<1>7. ASSUME NEW p \in Phase, NestedWith(p)
      PROVE  Top
  BY <1>2, <1>3, <1>4, <1>5, <1>6, <1>7 DEF NestedWith
<1>8. CASE NestedArrives
  BY <1>2, <1>6, <1>8 DEF NestedArrives
<1> QED
  BY <1>1, <1>7, <1>8 DEF Nested

-----------------------------------------------------------------------------
(* Control: what comes from outside.                                       *)

(* Nothing does unless the engine is at rest.                              *)
LEMMA IdleRuns ==
  ASSUME TypeOK, Control, Idle
  PROVE  /\ Running /\ AtRest /\ calls = <<>> /\ eventsQueue = <<>>
         /\ Fits /\ Told /\ (cursor # "NONE" => Screen(<<>>))
<1>1. ~ Nested /\ ~ NestedArrives
  BY NestedTop DEF Idle
<1>2. Running /\ calls = <<>>
  BY <1>1 DEF Control, Quiet, Arrives, Draining, Idle
<1>3. AtRest
  <2>1. Ready(calls)
    BY <1>2 DEF Running
  <2> QED BY <1>2, <2>1, ReadyCases
<1> QED
  BY <1>2, <1>3, Outers DEF Running

(* A request finds something to do in every phase.                         *)
LEMMA RestAsks ==
  ASSUME AtRest
  PROVE  Asking
BY DEF AtRest, Settled, Asking, LeaveStep, Advances, AITurn, COMBATBLOCKERS, COMBATDAMAGE

(* Control: the next phase is asked for.                                   *)
LEMMA ControlRequest ==
  ASSUME TypeOK, Control, Request \/ ClickOK
  PROVE  Control'
<1>1. Idle
  BY DEF Request, ClickOK
<1>2. /\ phase' = phase /\ currentGamePhase' = currentGamePhase /\ combatStep' = combatStep
      /\ currentPlayer' = currentPlayer /\ strikes' = strikes /\ guiStep' = guiStep
      /\ inPlay' = inPlay /\ attacker' = attacker /\ eventsQueue' = eventsQueue
      /\ cursor' # "NONE" =>
           cursor # "NONE" /\ currentGamePhase = COMBATDAMAGE /\ calls' = <<Do("nextGamePhase")>>
  BY DEF Request, SkipsScreen, ClickOK, turnVars, cardVars, guiVars
<1>3. Own' = Own
  BY <1>2 DEF Own
<1>4. Fits' /\ Told' /\ eventsQueue' = <<>>
  BY <1>1, <1>2, <1>3, IdleRuns, SameFits, SameStep
<1>5. Ready(calls')
  <2>1. CASE calls' = <<Do("nextGamePhase")>>
    BY <1>1, <2>1, IdleRuns, RestAsks DEF Ready
  <2>2. CASE calls' = <<>>
    BY <1>1, <2>2, IdleRuns DEF Ready
  <2> QED BY <2>1, <2>2 DEF Request, ClickOK
<1>6. Ready(calls)'
  <2>1. \A k : Ready(k) => Ready(k)'
    BY <1>2, <1>3, SameReady
  <2> QED BY <1>5, <2>1
<1>7. cursor' # "NONE" => Screen(calls)'
  <2>1. cursor # "NONE" => Here /\ guiStep = combatStep
    BY <1>1, IdleRuns DEF Screen
  <2> QED BY <1>2, <2>1, ShapesDiffer DEF Screen, Here
<1> QED
  BY <1>4, <1>6, <1>7, RunsOn

(* Control: the cursor moves on the damage screen.                         *)
LEMMA ControlMoveCursor ==
  ASSUME TypeOK, Control, MoveCursor
  PROVE  Control'
<1>1. Idle
  BY DEF MoveCursor
<1>2. /\ phase' = phase /\ currentGamePhase' = currentGamePhase /\ combatStep' = combatStep
      /\ currentPlayer' = currentPlayer /\ strikes' = strikes /\ guiStep' = guiStep
      /\ inPlay' = inPlay /\ attacker' = attacker /\ eventsQueue' = eventsQueue
      /\ cursor # "NONE" /\ calls' = calls
  BY DEF MoveCursor, turnVars, cardVars
<1>3. Own' = Own
  BY <1>2 DEF Own
<1>4. Fits' /\ Told' /\ eventsQueue' = <<>>
  BY <1>1, <1>2, <1>3, IdleRuns, SameFits, SameStep
<1>5. Ready(calls)'
  <2>1. \A k : Ready(k) => Ready(k)'
    BY <1>2, <1>3, SameReady
  <2>2. Ready(calls)
    BY <1>1, IdleRuns DEF Running
  <2> QED BY <1>2, <2>1, <2>2
<1>6. Screen(calls)'
  <2>1. Screen(calls) /\ calls = <<>>
    BY <1>1, <1>2, IdleRuns
  <2> QED BY <1>2, <2>1 DEF Screen, Here
<1> QED
  BY <1>4, <1>5, <1>6, RunsOn

(* What changes cards while the engine is at rest: the game stays where it *)
(* is, and the events raised, if any, are to be delivered.                 *)
LEMMA ControlCards ==
  ASSUME TypeOK, Control, Idle,
         UNCHANGED <<phase, currentGamePhase, currentPlayer, combatStep, guiVars, strikes>>,
         Own = {} => Own' = {} \/ phase = COMBATATTACKERS,
         NEW es \in Seq(StillEvent), Raise(es, <<>>)
  PROVE  Control'
<1>0. es \in Seq(Event) /\ es \in Seq(QuietEvent)'
  BY StillQuiet
<1>1. /\ phase' = phase /\ currentGamePhase' = currentGamePhase /\ combatStep' = combatStep
      /\ currentPlayer' = currentPlayer /\ strikes' = strikes /\ guiStep' = guiStep
      /\ cursor' = cursor
  BY DEF guiVars
<1>2. /\ AtRest /\ Fits /\ Told /\ eventsQueue = <<>> /\ (cursor # "NONE" => Screen(<<>>))
  BY IdleRuns
<1>3. AtRest'
  BY <1>1, <1>2, SameStep DEF AtRest, Here
<1>4. StrikesFit'
  BY <1>1, <1>2 DEF Fits, FitsSoon, StrikesFit, StrikesSoon, COMBATATTACKERS, COMBATEND
<1>5. GuiFits' /\ Told'
  BY <1>1, <1>2, SameStep DEF Fits, FitsSoon, GuiFits, GuiFitsSoon
<1>6. PICK k \in Seq(Call) : k = <<>>
  BY CallSeqs
<1>7. Ready(k)' /\ k # Skipping
  BY <1>3, <1>6, ShapesDiffer DEF Ready
<1>7a. cursor' # "NONE" => Screen(k)'
  BY <1>1, <1>2, <1>6 DEF Screen, Here
<1>8. CASE es = <<>>
  <2>1. eventsQueue' = <<>> \o <<>> /\ calls' = <<>> \o k
    BY <1>2, <1>6, <1>8 DEF Raise
  <2>2. eventsQueue' = <<>> /\ calls' = k
    BY <1>6, <2>1, CallSeqs
  <2>3. Ready(calls)' /\ (cursor' # "NONE" => Screen(calls)')
    BY <1>7, <1>7a, <2>2
  <2> QED BY <1>4, <1>5, <2>2, <2>3, RunsOn DEF Fits, FitsSoon
<1>9. CASE es # <<>>
  <2>1. PICK fs \in Seq(QuietEvent)' : fs = es
    BY <1>0
  <2> QED BY <1>0, <1>2, <1>4, <1>5, <1>6, <1>7, <1>7a, <1>9, <2>1, RaisesQuiet DEF Fits, FitsSoon
<1> QED
  BY <1>8, <1>9

(* Control: every step from outside.                                       *)
LEMMA ControlEnvironment ==
  ASSUME TypeOK, Control, AttackersInPlay, Environment
  PROVE  Control'
<1>1. CASE Request \/ ClickOK
  BY <1>1, ControlRequest
<1>2. CASE MoveCursor
  BY <1>2, ControlMoveCursor
<1>3. ASSUME NEW c \in Creature, ToggleAttacker(c)
      PROVE  Control'
  <2> DEFINE e1 == [type |-> IF c \in attacker THEN "AttackerOff" ELSE "AttackerOn", card |-> c]
  <2>1. e1 \in StillEvent
    <3>1. e1 \in Event /\ e1.type \in {"AttackerOff", "AttackerOn"}
      BY EventTypes
    <3> HIDE DEF e1
    <3> QED BY <3>1 DEF StillEvent
  <2>2. /\ Idle /\ currentGamePhase = COMBATATTACKERS
        /\ UNCHANGED <<phase, currentGamePhase, currentPlayer, combatStep, guiVars, strikes>>
        /\ Raise(<<e1>>, <<>>)
    BY <1>3 DEF ToggleAttacker, turnVars
  <2>3. phase = COMBATATTACKERS
    BY <2>2, IdleRuns DEF AtRest, Here
  <2> HIDE DEF e1
  <2>4. PICK e \in StillEvent : e = e1
    BY <2>1
  <2>5. <<e>> \in Seq(StillEvent)
    BY <2>4, One
  <2> QED BY <2>2, <2>3, <2>4, <2>5, ControlCards
<1>4. ASSUME NEW b \in Creature, NEW a \in Creature \cup {NoCard}, ToggleBlocker(b, a)
      PROVE  Control'
  <2> DEFINE e1 == [type |-> "Blocker", card |-> b, before |-> defenser[b], after |-> a]
  <2>1. e1 \in StillEvent
    <3>1. e1 \in Event /\ e1.type = "Blocker"
      BY EventTypes DEF TypeOK
    <3> HIDE DEF e1
    <3> QED BY <3>1 DEF StillEvent
  <2>2. /\ Idle
        /\ UNCHANGED <<phase, currentGamePhase, currentPlayer, combatStep, guiVars, strikes>>
        /\ inPlay' = inPlay /\ attacker' = attacker /\ Raise(<<e1>>, <<>>)
    BY <1>4 DEF ToggleBlocker, turnVars
  <2>3. Own' = Own
    BY <2>2 DEF Own
  <2> HIDE DEF e1
  <2>4. PICK e \in StillEvent : e = e1
    BY <2>1
  <2>5. <<e>> \in Seq(StillEvent)
    BY <2>4, One
  <2> QED BY <2>2, <2>3, <2>4, <2>5, ControlCards
<1>5. ASSUME NEW C \in SUBSET Creature, NEW D \in SUBSET Creature, Affect(C, D)
      PROVE  Control'
  <2>1. /\ Idle /\ LeaveCombat(C, D)
        /\ UNCHANGED <<phase, currentGamePhase, currentPlayer, combatStep, guiVars, strikes>>
        /\ Raise(Events(LeaveEvents(C, D)), <<>>)
    BY <1>5 DEF Affect, MayResolve, turnVars
  <2>2. Own' \subseteq Own
    BY <2>1, NobodyNew
  <2>3. PICK es \in Seq(StillEvent) : es = Events(LeaveEvents(C, D))
    BY LeaveEventsQuiet
  <2> QED BY <2>1, <2>2, <2>3, ControlCards
<1>6. ASSUME NEW c \in Creature, RemoveFromCombat(c) \/ LeavePlay(c)
      PROVE  Control'
  <2>1. Affect({c}, {}) \/ Affect({}, {c})
    BY <1>6 DEF RemoveFromCombat, LeavePlay
  <2> QED BY <1>5, <2>1
<1>7. ASSUME \/ \E c \in Creature : EnterPlay(c)
             \/ \E p \in Players : ModTurn(p)
      PROVE  Control'
  <2>1. /\ Idle /\ eventsQueue' = eventsQueue /\ calls' = calls
        /\ UNCHANGED <<phase, currentGamePhase, currentPlayer, combatStep, guiVars, strikes>>
    BY <1>7 DEF EnterPlay, ModTurn, MayResolve, turnVars
  <2>2. Own' = Own
    <3>1. ASSUME NEW c \in Creature, EnterPlay(c) PROVE Own' = Own
      BY <3>1 DEF EnterPlay, Own, AttackersInPlay, turnVars
    <3>2. ASSUME NEW p \in Players, ModTurn(p) PROVE Own' = Own
      BY <3>2 DEF ModTurn, Own, cardVars
    <3> QED BY <1>7, <3>1, <3>2
  <2>3. guiStep' = guiStep /\ cursor' = cursor
    BY <2>1 DEF guiVars
  <2>4. /\ Ready(calls) /\ Fits /\ Told /\ eventsQueue = <<>>
        /\ cursor # "NONE" => Screen(calls)
    BY <2>1, IdleRuns DEF Running
  <2>5. Fits' /\ Told' /\ eventsQueue' = <<>>
    BY <2>1, <2>2, <2>3, <2>4, SameFits, SameStep
  <2>6. Ready(calls)'
    <3>1. \A k : Ready(k) => Ready(k)'
      BY <2>1, <2>2, SameReady
    <3> QED BY <2>1, <2>4, <3>1
  <2>7. cursor' # "NONE" => Screen(calls)'
    BY <2>1, <2>3, <2>4 DEF Screen, Here
  <2> QED BY <2>5, <2>6, <2>7, RunsOn
<1> QED
  BY <1>1, <1>2, <1>3, <1>4, <1>6, <1>7 DEF Environment

-----------------------------------------------------------------------------
(* Control: the loop of receiveEvent.                                      *)

(* The event handled is taken off the queue.                               *)
LEMMA ControlPop ==
  ASSUME TypeOK, Control, Pop
  PROVE  Control'
<1>1. /\ calls # <<>> /\ Head(calls).op = "pop" /\ SameGame /\ eventsQueue' = Tail(eventsQueue)
      /\ calls' = (IF eventsQueue' = <<>> THEN <<>> ELSE <<Do("drain")>>) \o Rest
  BY DEF Pop, Return, SameGame
<1>2. Rest \in Seq(Call) /\ <<>> \o Rest = Rest
  BY <1>1, CallSeqs DEF Rest, TypeOK
<1>3. Undelivered = eventsQueue'
  BY <1>1 DEF Undelivered
<1>4. eventsQueue' # <<>> =>
        /\ calls' # <<>> /\ Head(calls') = Do("drain") /\ Rest' = Rest
        /\ Undelivered' = eventsQueue'
  <2> SUFFICES ASSUME eventsQueue' # <<>>
               PROVE  /\ calls' # <<>> /\ Head(calls') = Do("drain") /\ Rest' = Rest
                      /\ Undelivered' = eventsQueue'
    OBVIOUS
  <2>1. <<Do("drain")>> \in Seq(Call) /\ <<Do("drain")>> # <<>>
        /\ Head(<<Do("drain")>>) = Do("drain") /\ Tail(<<Do("drain")>>) = <<>>
    BY CallFacts, Short
  <2>2. calls' = <<Do("drain")>> \o Rest
    BY <1>1
  <2>3. calls' # <<>> /\ Head(calls') = Do("drain") /\ Tail(calls') = <<>> \o Rest
    BY <1>2, <2>1, <2>2, CallSeqs
  <2> QED BY <1>2, <2>3, CallFacts DEF Rest, Undelivered
<1>5. CASE Quiet
  <2>1. CASE eventsQueue' = <<>>
    <3>1. calls' = Rest
      BY <1>1, <1>2, <2>1
    <3>2. /\ Ready(calls') /\ Fits /\ Told
          /\ cursor # "NONE" => Screen(calls')
      BY <1>3, <1>5, <2>1, <3>1 DEF Quiet, Closing
    <3>3. Ready(calls)' /\ Fits' /\ Told'
      BY <1>1, <3>2, SameAll
    <3>4. cursor' # "NONE" => Screen(calls)'
      <4>1. (\A j : Screen(j) => Screen(j)') /\ cursor' = cursor
        BY <1>1, SameAll, SameVars
      <4> QED BY <3>2, <4>1
    <3> QED BY <2>1, <3>3, <3>4, RunsOn
  <2>2. CASE eventsQueue' # <<>>
    <3>1. Draining'
      BY <1>4, <2>2 DEF Draining
    <3>2. Undelivered' \in Seq(QuietEvent)'
      BY <1>1, <1>3, <1>4, <1>5, <2>2, SameAll DEF Quiet
    <3>3. Ready(Rest)' /\ Rest' # Skipping'
      BY <1>1, <1>4, <1>5, <2>2, SameAll DEF Quiet, Skipping
    <3>4. cursor' # "NONE" => Closing' \/ (Screen(Rest)' /\ Undelivered' \in Seq(StillEvent)')
      <4>1. (\A j : Screen(j) => Screen(j)') /\ cursor' = cursor
        BY <1>1, SameAll, SameVars
      <4>2. Undelivered' = Undelivered /\ Rest' = Rest
        BY <1>3, <1>4, <2>2
      <4>3. Closing => Closing'
        BY <4>2 DEF Closing, COMBATDAMAGE
      <4>4. Screen(Rest) => Screen(Rest)'
        BY <4>1, <4>2
      <4>5. cursor # "NONE" => Closing \/ (Screen(Rest) /\ Undelivered \in Seq(StillEvent))
        BY <1>5 DEF Quiet
      <4> QED BY <4>1, <4>2, <4>3, <4>4, <4>5 DEF StillEvent, Event
    <3> QED BY <1>1, <1>5, <3>1, <3>2, <3>3, <3>4, SameAll DEF Control, Quiet
  <2> QED BY <2>1, <2>2
<1>6. CASE Arrives
  <2>1. Undelivered # <<>>
    <3>1. \A a, b : <<a>> # <<>> /\ <<a, b>> # <<>>
      BY Short
    <3> QED BY <1>6, <3>1 DEF Arrives
  <2>2. /\ Draining' /\ Rest' = Rest /\ Undelivered' = Undelivered
    BY <1>3, <1>4, <2>1 DEF Draining
  <2>3. Interrupts(Rest) /\ Here /\ Arriving /\ FitsSoon /\ LeftOpen
    BY <1>6 DEF Arrives
  <2>3a. \A k : Interrupts(k) => Interrupts(k)'
    BY <1>1, SameAll
  <2>3b. Interrupts(Rest)'
    BY <2>2, <2>3, <2>3a
  <2>3c. Here' /\ Arriving' /\ FitsSoon' /\ LeftOpen'
    BY <1>1, <2>3, SameAll
  <2>4. \/ Undelivered' = <<Step(combatStep)>>'
        \/ phase' = COMBATDAMAGE
             /\ Undelivered' = <<TurnTo(COMBATBLOCKERS, COMBATDAMAGE), Step(combatStep)>>'
    BY <1>1, <1>6, <2>2, SameVars DEF Arrives, Step, TurnTo
  <2> QED BY <2>2, <2>3b, <2>3c, <2>4 DEF Control, Arrives
<1>7. ~ Running
  BY <1>1, RunningCases
<1>8. Quiet \/ Arrives
  BY <1>1, <1>7, NestedTop DEF Control
<1> QED
  BY <1>5, <1>6, <1>8

(* What is under way when an event is handed to its listeners.             *)
LEMMA DeliveryCases ==
  ASSUME TypeOK, Control, NEW type, Delivering(type)
  PROVE  /\ Quiet \/ Arrives
         /\ Undelivered = eventsQueue /\ eventsQueue # <<>> /\ eventsQueue \in Seq(Event)
         /\ Delivery = Head(eventsQueue) /\ Delivery \in Event /\ Delivery.type = type
         /\ Rest \in Seq(Call)
<1>1. calls # <<>> /\ Head(calls).op = "drain" /\ eventsQueue # <<>>
  BY DEF Delivering, Return
<1>2. Undelivered = eventsQueue
  BY <1>1 DEF Undelivered
<1>3. ~ Running
  BY <1>1, RunningCases
<1>4. Quiet \/ Arrives
  BY <1>1, <1>3, NestedTop DEF Control
<1>5. eventsQueue \in Seq(Event) /\ Rest \in Seq(Call)
  BY <1>1, CallSeqs DEF TypeOK, Rest
<1> QED
  BY <1>1, <1>2, <1>4, <1>5, DeliveredTyped DEF Delivery

(* Where the calls stand after a delivery during which ops were made.      *)
LEMMA AfterDelivery ==
  ASSUME NEW k \in Seq(Call), k = Rest, Delivered(<<>>), eventsQueue' # <<>>
  PROVE  /\ Draining' /\ Rest' = k /\ Undelivered' = Tail(eventsQueue')
         /\ calls' # <<>> /\ Head(calls').op = "pop"
<1>1. <<Do("pop")>> \in Seq(Call) /\ <<Do("pop")>> # <<>>
        /\ Head(<<Do("pop")>>) = Do("pop") /\ Tail(<<Do("pop")>>) = <<>>
  BY CallFacts, Short
<1>2. calls' = <<>> \o <<Do("pop")>> \o k
  BY DEF Delivered
<1>3. calls' = <<Do("pop")>> \o k
  BY <1>1, <1>2, CallSeqs
<1>4. calls' # <<>> /\ Head(calls') = Do("pop") /\ Tail(calls') = <<>> \o k
  BY <1>1, <1>3, CallSeqs
<1> QED
  BY <1>4, CallFacts, CallSeqs DEF Draining, Rest, Undelivered

(* The front event and the events raised meanwhile.                        *)
LEMMA Behind ==
  ASSUME eventsQueue \in Seq(Event), eventsQueue # <<>>, NEW es \in Seq(Event),
         eventsQueue' = eventsQueue \o es
  PROVE  eventsQueue' # <<>> /\ Tail(eventsQueue') = Tail(eventsQueue) \o es
BY EventSeqs

(* No step of the combat is open in the damage phase before its first one. *)
LEMMA ReadySteps ==
  ASSUME TypeOK, NEW k, Ready(k), phase = COMBATDAMAGE
  PROVE  combatStep # "TRIGGERS"
<1>1. \/ AtRest \/ Acting \/ Asking \/ Advancing \/ Starting \/ Triggering \/ Leaving \/ Entering
      \/ \E p \in Phase : Left(p)
      \/ \E p \in {COMBATDAMAGE, COMBATBLOCKERS} : Skipped(p)
  BY DEF Ready
<1>2. ASSUME NEW p \in Phase, Left(p) PROVE combatStep # "TRIGGERS"
  BY <1>2 DEF Left, LeaveStep
<1>3. ASSUME NEW p, Skipped(p) PROVE combatStep # "TRIGGERS"
  BY <1>3 DEF Skipped
<1>4. Entering => combatStep # "TRIGGERS"
  BY <1>2, <1>3 DEF Entering
<1>5. AtRest \/ Acting \/ Asking \/ Advancing \/ Starting \/ Triggering \/ Leaving => combatStep # "TRIGGERS"
  BY DEF AtRest, Acting, Asking, Advancing, Starting, Triggering, Leaving, Settled, LeaveStep, Advances,
     COMBATBLOCKERS, COMBATDAMAGE
<1> QED
  BY <1>1, <1>2, <1>3, <1>4, <1>5

(* Listeners that make no call of the engine leave it where it was.        *)
LEMMA QuietStep ==
  ASSUME TypeOK, Quiet, NEW type, Delivering(type), Control, Delivered(<<>>),
         UNCHANGED <<turnVars, combatStep, strikes>>,
         cursor' # "NONE" => type # "PhaseChange" /\ cursor' = cursor /\ guiStep' = guiStep,
         NEW es \in Seq(StillEvent), eventsQueue' = eventsQueue \o es,
         Own = {} => Own' = {} \/ phase = COMBATBLOCKERS,
         guiStep' = guiStep \/ phase = COMBATDAMAGE
  PROVE  Control'
<1>1. /\ phase' = phase /\ currentGamePhase' = currentGamePhase /\ combatStep' = combatStep
      /\ currentPlayer' = currentPlayer /\ strikes' = strikes
  BY DEF turnVars
<1>2. /\ Undelivered = eventsQueue /\ eventsQueue # <<>> /\ eventsQueue \in Seq(Event)
      /\ Delivery = Head(eventsQueue) /\ Delivery.type = type
      /\ Rest \in Seq(Call) /\ es \in Seq(Event) /\ es \in Seq(QuietEvent)
  BY DeliveryCases, StillQuiet
<1>3. PICK k \in Seq(Call) : k = Rest
  BY <1>2
<1>4. eventsQueue' # <<>> /\ Tail(eventsQueue') = Tail(eventsQueue) \o es
  BY <1>2, Behind
<1>5. Draining' /\ Rest' = k /\ Undelivered' = Tail(eventsQueue')
  BY <1>3, <1>4, AfterDelivery
<1>6. /\ eventsQueue \in Seq(QuietEvent) /\ Ready(k) /\ k # Skipping
      /\ Fits /\ Told
      /\ cursor # "NONE" => Closing \/ (Screen(k) /\ eventsQueue \in Seq(StillEvent))
  BY <1>2, <1>3 DEF Quiet
<1>7. Undelivered' \in Seq(QuietEvent)'
  <2>1. Tail(eventsQueue) \in Seq(QuietEvent)
    BY <1>2, <1>6, Concat
  <2>2. PICK fs \in Seq(QuietEvent) : fs = es
    BY <1>2
  <2>3. Tail(eventsQueue) \o fs \in Seq(QuietEvent)
    BY <2>1, Concat
  <2> QED BY <1>1, <1>4, <1>5, <2>2, <2>3, SameStep
<1>8. Ready(k)'
  BY <1>1, <1>6, SameReady
<1>9. Ready(Rest)' /\ Rest' # Skipping'
  BY <1>5, <1>6, <1>8 DEF Skipping
<1>10. StrikesFit'
  BY <1>1, <1>6 DEF Fits, FitsSoon, StrikesFit, StrikesSoon, COMBATBLOCKERS, COMBATEND
<1>11. GuiFits'
  BY <1>1, <1>6, ReadySteps DEF Fits, FitsSoon, GuiFits, GuiFitsSoon
<1>12. Told'
  BY <1>1, <1>6, SameStep
<1>13. ASSUME cursor' # "NONE"
       PROVE  Screen(Rest)' /\ Undelivered' \in Seq(StillEvent)'
  <2>1. /\ cursor # "NONE" /\ ~ Closing /\ guiStep' = guiStep
    BY <1>2, <1>13 DEF Closing
  <2>2. Screen(k) /\ eventsQueue \in Seq(StillEvent)
    BY <1>6, <2>1
  <2>3. Screen(k)'
    BY <1>1, <2>1, <2>2 DEF Screen, Here
  <2>4. Tail(eventsQueue) \in Seq(StillEvent)
    BY <1>2, <2>2, Concat
  <2>5. Tail(eventsQueue) \o es \in Seq(StillEvent)
    BY <2>4, Concat
  <2> QED BY <1>4, <1>5, <2>3, <2>5 DEF StillEvent, Event
<1> QED
  BY <1>1, <1>5, <1>6, <1>7, <1>9, <1>10, <1>11, <1>12, <1>13 DEF Control, Quiet, Fits, FitsSoon

(* Control: the deliveries of events about cards, which call nothing.      *)
LEMMA ControlCardEvents ==
  ASSUME TypeOK, Control,
         OnChosen \/ OnAttackerOn \/ OnAttackerOff \/ OnBlocker \/ OnZoneChange
  PROVE  Control'
<1>1. PICK type \in {"AttackersChosen", "BlockersChosen", "AttackerOn", "AttackerOff", "Blocker",
                     "ZoneChange"} : Delivering(type)
  BY DEF OnChosen, OnAttackerOn, OnAttackerOff, OnBlocker, OnZoneChange
<1>2. /\ Delivered(<<>>) /\ UNCHANGED <<turnVars, combatStep, strikes, cardVars, eventsQueue, guiStep, cursor>>
  BY DEF OnChosen, OnAttackerOn, OnAttackerOff, OnBlocker, OnZoneChange, guiVars
<1>3. Own' = Own
  BY <1>2 DEF Own, turnVars, cardVars
<1>4. /\ Quiet \/ Arrives
      /\ Undelivered = eventsQueue /\ eventsQueue # <<>> /\ eventsQueue \in Seq(Event)
      /\ Delivery = Head(eventsQueue) /\ Delivery.type = type
  BY <1>1, DeliveryCases
<1>5. ~ Arrives
  <2>1. /\ \A a, b : Head(<<a>>) = a /\ Head(<<a, b>>) = a
        /\ Step(combatStep).type = "CombatStepChange"
        /\ TurnTo(COMBATBLOCKERS, COMBATDAMAGE).type = "PhaseChange"
    BY Short DEF Step, TurnTo
  <2> QED BY <1>1, <1>4, <2>1 DEF Arrives
<1>6. PICK es \in Seq(StillEvent) : eventsQueue' = eventsQueue \o es
  <2>1. <<>> \in Seq(StillEvent) /\ eventsQueue' = eventsQueue
    BY <1>2, EmptySeq
  <2>2. eventsQueue \o <<>> = eventsQueue
    BY <1>4, EventSeqs
  <2> QED BY <2>1, <2>2
<1>7. cursor' = cursor /\ guiStep' = guiStep /\ type # "PhaseChange"
  BY <1>1, <1>2
<1> QED
  BY <1>1, <1>2, <1>3, <1>4, <1>5, <1>6, <1>7, QuietStep

(* The creatures hit leave the combat, or play.                            *)
LEMMA ControlDamageResolved ==
  ASSUME TypeOK, Control, OnDamageStackResolved
  PROVE  Control'
<1>1. /\ Delivering("DamageStackResolved") /\ Delivered(<<>>)
      /\ UNCHANGED <<turnVars, combatStep, guiVars, strikes>>
      /\ currentPlayer' = currentPlayer /\ guiStep' = guiStep /\ cursor' = cursor
  BY DEF OnDamageStackResolved, turnVars, guiVars
<1>2. /\ Quiet \/ Arrives
      /\ Undelivered = eventsQueue /\ eventsQueue # <<>> /\ eventsQueue \in Seq(Event)
      /\ Delivery = Head(eventsQueue) /\ Delivery.type = "DamageStackResolved"
  BY <1>1, DeliveryCases
<1>3. ~ Arrives
  <2>1. /\ \A a, b : Head(<<a>>) = a /\ Head(<<a, b>>) = a
        /\ Step(combatStep).type = "CombatStepChange"
        /\ TurnTo(COMBATBLOCKERS, COMBATDAMAGE).type = "PhaseChange"
    BY Short DEF Step, TurnTo
  <2> QED BY <1>2, <2>1 DEF Arrives
<1>4. PICK dead \in SUBSET Creature, saved \in SUBSET Creature :
        /\ LeaveCombat(saved, dead)
        /\ eventsQueue' = eventsQueue \o Events(LeaveEvents(saved, dead))
  BY DEF OnDamageStackResolved, TypeOK
<1>5. Own' \subseteq Own
  BY <1>1, <1>4, NobodyNew
<1>6. PICK es \in Seq(StillEvent) : es = Events(LeaveEvents(saved, dead))
  BY LeaveEventsQuiet
<1>7. PICK type : type = "DamageStackResolved" /\ type # "PhaseChange" /\ Delivering(type)
  BY <1>1
<1> QED
  BY <1>1, <1>2, <1>3, <1>4, <1>5, <1>6, <1>7, QuietStep

(* The change of phase is told to the attack rule and to GuiCombat.        *)
LEMMA ControlPhaseChange ==
  ASSUME TypeOK, Control, OnPhaseChange
  PROVE  Control'
<1>1. /\ Delivering("PhaseChange") /\ Delivered(<<>>)
      /\ UNCHANGED <<turnVars, combatStep, inPlay, defenser, blockers, blocked,
                     activeAtk, view, viewBlk, show, damages, strikes>>
      /\ phase' = phase /\ currentPlayer' = currentPlayer /\ currentGamePhase' = currentGamePhase
  BY DEF OnPhaseChange, turnVars
<1>2. /\ Quiet \/ Arrives
      /\ Undelivered = eventsQueue /\ eventsQueue # <<>> /\ eventsQueue \in Seq(Event)
      /\ Delivery = Head(eventsQueue) /\ Delivery \in Event /\ Delivery.type = "PhaseChange"
      /\ Rest \in Seq(Call)
  BY <1>1, DeliveryCases
<1>3. /\ guiStep' = IF Delivery.to = COMBATDAMAGE THEN "BLOCKERS" ELSE guiStep
      /\ cursor' = IF Delivery.to = COMBATDAMAGE THEN cursor ELSE "NONE"
  BY DEF OnPhaseChange
<1>4. Delivery.from # COMBATATTACKERS => eventsQueue' = eventsQueue /\ attacker' = attacker
  BY DEF OnPhaseChange
<1>5. CASE Quiet
  <2>1. Delivery \in QuietEvent
    <3>1. eventsQueue \in Seq(QuietEvent)
      BY <1>2, <1>5 DEF Quiet
    <3> QED BY <1>2, <3>1, HeadTailProperties
  <2>2. Delivery.to = phase /\ (Delivery.from = COMBATATTACKERS => phase = COMBATBLOCKERS)
    BY <1>2, <2>1 DEF QuietEvent
  <2>3. guiStep' = guiStep \/ phase = COMBATDAMAGE
    BY <1>3, <2>2
  <2>3a. cursor' = "NONE"
    <3>1. ASSUME Delivery.to = COMBATDAMAGE PROVE cursor = "NONE"
      <4>1. ~ Closing
        BY <1>2, <3>1 DEF Closing
      <4>2. eventsQueue \notin Seq(StillEvent)
        <5>1. eventsQueue \in Seq(StillEvent) => Delivery \in StillEvent
          BY <1>2, HeadTailProperties
        <5> QED BY <1>2, <5>1 DEF StillEvent
      <4> QED BY <1>2, <1>5, <4>1, <4>2 DEF Quiet
    <3> QED BY <1>3, <3>1
  <2>4. CASE Delivery.from = COMBATATTACKERS
    <3>1. PICK forced \in SUBSET Creature, tapped \in SUBSET Creature :
            eventsQueue' = eventsQueue
                 \o Events({[type |-> "AttackerOn", card |-> c] : c \in forced})
                 \o Events({[type |-> "AttackerOff", card |-> c] : c \in tapped})
      BY <2>4 DEF OnPhaseChange, TypeOK
    <3> DEFINE on == Events({[type |-> "AttackerOn", card |-> c] : c \in forced})
               off == Events({[type |-> "AttackerOff", card |-> c] : c \in tapped})
    <3>2. /\ on \in Seq(Event) /\ on \in Seq({e \in Event : e.type = "AttackerOn"})
          /\ off \in Seq(Event) /\ off \in Seq({e \in Event : e.type = "AttackerOff"})
      BY CardEventsTyped
    <3>3. /\ {e \in Event : e.type = "AttackerOn"} \subseteq StillEvent
          /\ {e \in Event : e.type = "AttackerOff"} \subseteq StillEvent
      BY DEF StillEvent
    <3>4. eventsQueue' = (eventsQueue \o on) \o off
      BY <3>1
    <3> HIDE DEF on, off
    <3>5. on \in Seq(StillEvent) /\ off \in Seq(StillEvent)
      BY <3>2, <3>3, SeqMonotonic
    <3>6. on \o off \in Seq(StillEvent)
      BY <3>5, Concat
    <3>7. eventsQueue' = eventsQueue \o (on \o off)
      BY <1>2, <3>2, <3>4, ConcatAssociative, SMTT(60)
    <3>8. PICK es \in Seq(StillEvent) : es = on \o off
      BY <3>6
    <3> QED BY <1>1, <1>5, <2>2, <2>3, <2>3a, <2>4, <3>7, <3>8, QuietStep
  <2>5. CASE Delivery.from # COMBATATTACKERS
    <3>1. PICK es \in Seq(StillEvent) : eventsQueue' = eventsQueue \o es
      <4>1. <<>> \in Seq(StillEvent) /\ eventsQueue' = eventsQueue
        BY <1>4, <2>5, EmptySeq
      <4>2. eventsQueue \o <<>> = eventsQueue
        BY <1>2, EventSeqs
      <4> QED BY <4>1, <4>2
    <3>2. Own' = Own
      BY <1>1, <1>4, <2>5 DEF Own
    <3> QED BY <1>1, <1>5, <2>3, <2>3a, <3>1, <3>2, QuietStep
  <2> QED BY <2>4, <2>5
<1>6. CASE Arrives
  <2> DEFINE turned == TurnTo(COMBATBLOCKERS, COMBATDAMAGE)
  <2>1. phase = COMBATDAMAGE /\ eventsQueue = <<turned, Step(combatStep)>>
    <3>1. Head(<<Step(combatStep)>>).type = "CombatStepChange"
      BY Short DEF Step
    <3> QED BY <1>2, <1>6, <3>1 DEF Arrives
  <2>2. Delivery = turned /\ Tail(eventsQueue) = <<Step(combatStep)>>
    BY <1>2, <2>1, Short
  <2>3. Delivery.from = COMBATBLOCKERS /\ Delivery.to = COMBATDAMAGE
    BY <2>2 DEF TurnTo
  <2>4. eventsQueue' = eventsQueue /\ attacker' = attacker /\ guiStep' = "BLOCKERS"
    BY <1>3, <1>4, <2>3 DEF COMBATBLOCKERS, COMBATATTACKERS
  <2>5. PICK k \in Seq(Call) : k = Rest
    BY <1>2
  <2>6. Draining' /\ Rest' = k /\ Undelivered' = <<Step(combatStep)>>
    BY <1>1, <1>2, <2>2, <2>4, <2>5, AfterDelivery
  <2>7. Interrupts(k) /\ Here /\ Arriving /\ FitsSoon
    BY <1>6, <2>5 DEF Arrives
  <2>8. Interrupts(k)' /\ Here' /\ Arriving'
    BY <1>1, <2>7, SameStep DEF Interrupts, Here
  <2>9. combatStep # "ORDER"
    BY <2>1, <2>7 DEF Arriving, COMBATBLOCKERS, COMBATDAMAGE
  <2>10. Own' = Own
    BY <1>1, <2>4 DEF Own
  <2>11. FitsSoon'
    BY <1>1, <2>7, <2>9, <2>10 DEF Fits, FitsSoon, StrikesFit, StrikesSoon, GuiFits, GuiFitsSoon
  <2>12. Interrupts(Rest)' /\ Undelivered' = <<Step(combatStep)>>'
    BY <1>1, <2>6, <2>8 DEF Step
  <2>13. LeftOpen'
    <3>1. cursor' = cursor /\ combatStep' = combatStep
      BY <1>1, <1>3, <2>3
    <3> QED BY <1>1, <1>6, <3>1 DEF Arrives, LeftOpen
  <2> QED BY <2>6, <2>8, <2>11, <2>12, <2>13 DEF Control, Arrives
<1> QED
  BY <1>2, <1>5, <1>6

(* What a combat step finds when it is told.                               *)
LEMMA SteppingCases ==
  ASSUME TypeOK, Control, NEW step, Stepping(step)
  PROVE  /\ combatStep = step /\ Here /\ Arriving /\ FitsSoon /\ LeftOpen
         /\ eventsQueue # <<>> /\ Tail(eventsQueue) = <<>> /\ eventsQueue \in Seq(Event)
         /\ Interrupts(Rest) /\ Rest \in Outer
<1>1. Delivering("CombatStepChange") /\ Delivery.step = step
  BY DEF Stepping
<1>2. /\ Quiet \/ Arrives
      /\ Undelivered = eventsQueue /\ eventsQueue # <<>> /\ eventsQueue \in Seq(Event)
      /\ Delivery = Head(eventsQueue) /\ Delivery.type = "CombatStepChange"
  BY <1>1, DeliveryCases
<1>3. ~ Quiet
  <2>1. eventsQueue \in Seq(QuietEvent) => Delivery \in QuietEvent
    BY <1>2, HeadTailProperties
  <2> QED BY <1>2, <2>1 DEF Quiet, QuietEvent
<1>4. eventsQueue = <<Step(combatStep)>>
  <2>1. Head(<<TurnTo(COMBATBLOCKERS, COMBATDAMAGE), Step(combatStep)>>).type = "PhaseChange"
    BY Short DEF TurnTo
  <2> QED BY <1>2, <1>3, <2>1 DEF Arrives
<1>5. Delivery.step = combatStep /\ Tail(eventsQueue) = <<>>
  <2>1. Head(<<Step(combatStep)>>) = Step(combatStep) /\ Tail(<<Step(combatStep)>>) = <<>>
    BY Short
  <2>2. Step(combatStep).step = combatStep
    BY DEF Step
  <2> QED BY <1>2, <1>4, <2>1, <2>2
<1> QED
  BY <1>1, <1>2, <1>3, <1>5 DEF Arrives, Interrupts

(* A listener asks for the next phase or step within the delivery.         *)
LEMMA DeliveryNests ==
  ASSUME TypeOK, Control, NEW step, Stepping(step), UNCHANGED <<turnVars, combatStep, eventsQueue>>,
         \/ Delivered(<<Do("nextGamePhase")>>) /\ Asking
         \/ Delivered(<<Do("nextCombatStep")>>) /\ Advancing,
         phase \in {COMBATBLOCKERS, COMBATDAMAGE}, step \notin {"BLOCKERS", "TRIGGERS"},
         Fits', cursor' # "NONE" => phase = COMBATDAMAGE
  PROVE  Control'
<1>1. /\ combatStep = step /\ eventsQueue # <<>> /\ Tail(eventsQueue) = <<>>
      /\ Interrupts(Rest) /\ Rest \in Outer
  BY SteppingCases
<1>2. /\ phase' = phase /\ currentGamePhase' = currentGamePhase /\ combatStep' = combatStep
      /\ currentPlayer' = currentPlayer /\ eventsQueue' = eventsQueue
  BY DEF turnVars
<1>3. /\ phase \in Phase
      /\ Advances' <=> Advances
      /\ Here' <=> Here
  BY <1>2, SameStep DEF Here, TypeOK
<1>4. LeaveStep(phase)' <=> LeaveStep(phase)
  BY <1>2 DEF LeaveStep, AITurn
<1>5. (Asking => Asking') /\ (Advancing => Advancing')
  BY <1>2, <1>3, <1>4 DEF Asking, Advancing
<1>6. PICK k \in Outer : k = Rest
  BY <1>1
<1>7. Interrupts(k)'
  BY <1>1, <1>2, <1>6 DEF Interrupts
<1>8. CASE Delivered(<<Do("nextGamePhase")>>) /\ Asking
  <2>1. calls' = <<Do("nextGamePhase")>> \o (<<Do("pop")>> \o k)
    <3>1. <<Do("nextGamePhase")>> \in Seq(Call) /\ <<Do("pop")>> \in Seq(Call) /\ k \in Seq(Call)
      BY CallFacts, Outers
    <3>2. (<<Do("nextGamePhase")>> \o <<Do("pop")>>) \o k = <<Do("nextGamePhase")>> \o (<<Do("pop")>> \o k)
      BY <3>1, ConcatAssociative
    <3> QED BY <1>6, <1>8, <3>2 DEF Delivered
  <2>2. Within(<<Do("nextGamePhase")>>, <<>>)'
    BY <1>1, <1>2, <1>6, <1>7, <2>1 DEF Within, Outer
  <2> QED BY <1>1, <1>2, <1>5, <1>8, <2>2 DEF Control, Nested, NestedWith, COMBATBLOCKERS, COMBATDAMAGE
<1>9. CASE Delivered(<<Do("nextCombatStep")>>) /\ Advancing
  <2>1. calls' = <<Do("nextCombatStep")>> \o (<<Do("pop")>> \o k)
    <3>1. <<Do("nextCombatStep")>> \in Seq(Call) /\ <<Do("pop")>> \in Seq(Call) /\ k \in Seq(Call)
      BY CallFacts, Outers
    <3>2. (<<Do("nextCombatStep")>> \o <<Do("pop")>>) \o k = <<Do("nextCombatStep")>> \o (<<Do("pop")>> \o k)
      BY <3>1, ConcatAssociative
    <3> QED BY <1>6, <1>9, <3>2 DEF Delivered
  <2>2. Within(<<Do("nextCombatStep")>>, <<>>)'
    BY <1>1, <1>2, <1>6, <1>7, <2>1 DEF Within, Outer
  <2> QED BY <1>1, <1>2, <1>5, <1>9, <2>2 DEF Control, Nested, NestedWith, COMBATBLOCKERS, COMBATDAMAGE
<1> QED
  BY <1>8, <1>9

(* The step was told, and the engine goes on to rest.                      *)
LEMMA DeliveryRests ==
  ASSUME TypeOK, Control, NEW step, Stepping(step), UNCHANGED <<turnVars, combatStep>>,
         Delivered(<<>>), Settled,
         NEW es \in Seq(StillEvent), eventsQueue' = eventsQueue \o es,
         Fits', Told',
         cursor' # "NONE" => guiStep' = step /\ (phase = COMBATDAMAGE \/ step = "ORDER")
  PROVE  Control'
<1>0. es \in Seq(Event) /\ es \in Seq(QuietEvent)
  BY StillQuiet
<1>1. /\ combatStep = step /\ Here /\ Arriving /\ eventsQueue # <<>> /\ Tail(eventsQueue) = <<>>
      /\ eventsQueue \in Seq(Event) /\ Interrupts(Rest) /\ Rest \in Outer
  BY SteppingCases
<1>2. /\ phase' = phase /\ currentGamePhase' = currentGamePhase /\ combatStep' = combatStep
      /\ currentPlayer' = currentPlayer
  BY DEF turnVars
<1>3. PICK k \in Outer : k = Rest
  BY <1>1
<1>4. k \in Seq(Call) /\ (k = <<>> \/ k = <<Do("phaseActions")>>)
  BY Outers
<1>5. eventsQueue' # <<>> /\ Tail(eventsQueue') = es
  <2>1. eventsQueue' # <<>> /\ Tail(eventsQueue') = Tail(eventsQueue) \o es
    BY <1>0, <1>1, Behind
  <2>2. <<>> \o es = es
    BY <1>0, EventSeqs
  <2> QED BY <1>1, <2>1, <2>2
<1>6. Draining' /\ Rest' = k /\ Undelivered' = es
  BY <1>3, <1>4, <1>5, AfterDelivery
<1>7. AtRest /\ (k # <<>> => Acting)
  <2>1. phase \in {COMBATBLOCKERS, COMBATDAMAGE}
    BY <1>1 DEF Arriving
  <2>2. k # <<>> => phase # COMBATBLOCKERS
    BY <1>1, <1>3 DEF Interrupts, Here, COMBATBLOCKERS, COMBATDAMAGE, COMBATEND
  <2> QED BY <1>1, <2>1, <2>2 DEF AtRest, Acting, BEFORE_BEGIN, AFTER_EOT, COMBATBLOCKERS, COMBATDAMAGE
<1>8. Ready(k) /\ k # Skipping
  BY <1>4, <1>7, ShapesDiffer DEF Ready
<1>9. Ready(k)'
  <2>1. AtRest' <=> AtRest
    BY <1>2, SameStep DEF AtRest, Here
  <2>2. Acting' <=> Acting
    BY <1>2, SameStep DEF Acting, Here
  <2> QED BY <1>4, <1>7, <2>1, <2>2 DEF Ready
<1>10. Ready(Rest)' /\ Rest' # Skipping' /\ Rest' \in Outer'
  BY <1>3, <1>6, <1>8, <1>9 DEF Skipping, Outer
<1>11. Undelivered' \in Seq(QuietEvent)'
  BY <1>0, <1>2, <1>6, SameStep
<1>12. cursor' # "NONE" => Screen(Rest)' /\ Undelivered' \in Seq(StillEvent)'
  <2>1. phase \in {COMBATBLOCKERS, COMBATDAMAGE} /\ k # Starts
    BY <1>1, <1>4, ShapesDiffer DEF Arriving
  <2>2. ASSUME cursor' # "NONE" PROVE Screen(k)'
    BY <1>1, <1>2, <2>1, <2>2 DEF Screen, Here
  <2> QED BY <1>6, <2>2 DEF StillEvent, Event
<1> QED
  BY <1>6, <1>10, <1>11, <1>12 DEF Control, Quiet

(* Damage is assigned: on the screen, or at once.                          *)
LEMMA ControlAssign ==
  ASSUME TypeOK, Control, NEW s \in {"FIRST_STRIKE", "DAMAGE"}, Stepping(s), AssignDamage(s),
         UNCHANGED <<turnVars, combatStep, cardVars, view, viewBlk, eventsQueue>>
  PROVE  Control'
<1>1. /\ combatStep = s /\ Here /\ Arriving /\ FitsSoon /\ LeftOpen
      /\ eventsQueue # <<>> /\ Tail(eventsQueue) = <<>> /\ eventsQueue \in Seq(Event)
      /\ Interrupts(Rest) /\ Rest \in Outer
  BY SteppingCases
<1>2. /\ phase' = phase /\ currentGamePhase' = currentGamePhase /\ combatStep' = combatStep
      /\ currentPlayer' = currentPlayer /\ eventsQueue' = eventsQueue /\ strikes' = strikes
      /\ guiStep' = s /\ damages' = Assignment(s) /\ view' = view /\ viewBlk' = viewBlk
  BY DEF turnVars, AssignDamage
<1>3. phase \in {COMBATBLOCKERS, COMBATDAMAGE} /\ (phase = COMBATBLOCKERS => AITurn)
  BY <1>1 DEF Arriving, COMBATBLOCKERS, COMBATDAMAGE
<1>4. StrikesFit'
  BY <1>1, <1>2 DEF Fits, FitsSoon, StrikesFit, StrikesSoon
<1>5. GuiFits'
  BY <1>1, <1>2 DEF GuiFits, GuiFitsSoon, Assignment
<1>6. Fits'
  BY <1>4, <1>5 DEF Fits, FitsSoon
<1>6a. cursor # "NONE" => phase = COMBATDAMAGE
  BY <1>1 DEF LeftOpen
<1>7. CASE AITurn
  <2>1. Delivered(<<Do("nextGamePhase")>>) /\ cursor' = cursor
    BY <1>7 DEF AssignDamage
  <2>2. Asking
    BY <1>1, <1>3, <1>7 DEF Asking, LeaveStep, Advances, COMBATBLOCKERS, COMBATDAMAGE
  <2> QED BY <1>1, <1>2, <1>3, <1>6, <1>6a, <2>1, <2>2, DeliveryNests
<1>8. CASE ~ AITurn /\ show' = {}
  <2>1. Delivered(<<Do("nextCombatStep")>>) /\ cursor' = cursor
    BY <1>8 DEF AssignDamage
  <2>2. Advancing
    BY <1>1, <1>3, <1>8 DEF Advancing, Advances, COMBATBLOCKERS, COMBATDAMAGE
  <2> QED BY <1>1, <1>2, <1>3, <1>6, <1>6a, <2>1, <2>2, DeliveryNests
<1>9. CASE ~ AITurn /\ show' # {}
  <2>1. Delivered(<<>>) /\ cursor' = "ATK" /\ activeAtk' \in show' /\ show' = ToAssign(s)
    BY <1>9 DEF AssignDamage, OpenScreen
  <2>2. Settled
    BY <1>1, <1>3, <1>9 DEF Settled
  <2>3. Told' /\ ~ AITurn'
    BY <1>2, <1>9 DEF Told, AITurn
  <2>4. phase = COMBATDAMAGE /\ guiStep' = s
    BY <1>2, <1>3, <1>9
  <2>5. PICK es \in Seq(StillEvent) : eventsQueue' = eventsQueue \o es
    <3>1. <<>> \in Seq(StillEvent)
      BY EmptySeq
    <3>2. eventsQueue \o <<>> = eventsQueue
      BY <1>1, EventSeqs
    <3> QED BY <1>2, <3>1, <3>2
  <2> QED BY <1>6, <2>1, <2>2, <2>3, <2>4, <2>5, DeliveryRests
<1> QED
  BY <1>7, <1>8, <1>9

(* Damage is resolved: what follows waits for it, or comes at once.        *)
LEMMA ControlResolve ==
  ASSUME TypeOK, Control, NEW s \in {"END_FIRST_STRIKE", "END_DAMAGE"}, Stepping(s),
         NEW assigned \in SUBSET (Creature \X Creature), NEW otherwise,
         ResolveDamage(s, assigned, otherwise),
         s = "END_FIRST_STRIKE" => otherwise = "nextCombatStep",
         s = "END_DAMAGE" => otherwise = "nextGamePhase",
         UNCHANGED <<turnVars, combatStep, cardVars, view, viewBlk>>
  PROVE  Control'
<1>1. /\ combatStep = s /\ Here /\ Arriving /\ FitsSoon /\ LeftOpen
      /\ eventsQueue # <<>> /\ Tail(eventsQueue) = <<>> /\ eventsQueue \in Seq(Event)
      /\ Interrupts(Rest) /\ Rest \in Outer
  BY SteppingCases
<1>2. /\ phase' = phase /\ currentGamePhase' = currentGamePhase /\ combatStep' = combatStep
      /\ currentPlayer' = currentPlayer /\ strikes' = Append(strikes, s)
      /\ guiStep' = s /\ damages' = assigned /\ cursor' = cursor
  BY DEF turnVars, ResolveDamage
<1>3. phase \in {COMBATBLOCKERS, COMBATDAMAGE} /\ (phase = COMBATBLOCKERS => AITurn /\ s = "END_FIRST_STRIKE")
  BY <1>1 DEF Arriving, COMBATBLOCKERS, COMBATDAMAGE
<1>4. StrikesFit'
  <2>1. strikes = IF s = "END_FIRST_STRIKE" THEN <<>> ELSE FirstOnly
    BY <1>1 DEF Fits, FitsSoon, StrikesFit, StrikesSoon
  <2>2. Append(<<>>, "END_FIRST_STRIKE") = FirstOnly /\ Append(FirstOnly, "END_DAMAGE") = Both
    <3>1. /\ <<>> \in Seq(CombatStep) /\ FirstOnly \in Seq(CombatStep) /\ <<"END_FIRST_STRIKE">> \in Seq(CombatStep)
          /\ "END_FIRST_STRIKE" \in CombatStep /\ "END_DAMAGE" \in CombatStep
      BY DEF CombatStep, FirstOnly
    <3>2. Append(<<>>, "END_FIRST_STRIKE") = <<>> \o <<"END_FIRST_STRIKE">>
      BY <3>1, AppendIsConcat
    <3>3. <<>> \o <<"END_FIRST_STRIKE">> = <<"END_FIRST_STRIKE">>
      BY <3>1, ConcatEmptySeq
    <3>4. Append(FirstOnly, "END_DAMAGE") = FirstOnly \o <<"END_DAMAGE">>
      BY <3>1, AppendIsConcat
    <3>5. <<"END_FIRST_STRIKE">> \o <<"END_DAMAGE">> = <<"END_FIRST_STRIKE", "END_DAMAGE">>
      BY Pair
    <3> QED BY <3>2, <3>3, <3>4, <3>5 DEF FirstOnly, Both
  <2>3. strikes' = IF s = "END_FIRST_STRIKE" THEN FirstOnly ELSE Both
    BY <1>2, <2>1, <2>2
  <2> QED BY <1>1, <1>2, <2>3 DEF StrikesFit, StrikesSoon
<1>5. GuiFits' /\ Told'
  BY <1>1, <1>2 DEF GuiFits, GuiFitsSoon, Told
<1>6. Fits'
  BY <1>4, <1>5 DEF Fits, FitsSoon
<1>6a. cursor' # "NONE" => phase = COMBATDAMAGE
  BY <1>1, <1>2 DEF LeftOpen
<1>7. CASE Delivered(<<Do(otherwise)>>) /\ UNCHANGED eventsQueue
  <2>1. s = "END_FIRST_STRIKE" => Advancing
    BY <1>1, <1>3 DEF Advancing, Advances
  <2>2. s = "END_DAMAGE" => Asking
    BY <1>1, <1>3 DEF Asking, LeaveStep, COMBATBLOCKERS, COMBATDAMAGE
  <2> QED BY <1>1, <1>2, <1>3, <1>6, <1>6a, <1>7, <2>1, <2>2, DeliveryNests
<1>8. ASSUME Delivered(<<>>),
             eventsQueue' = Append(eventsQueue,
               [type |-> "DamageStackResolved", hit |-> {d[2] : d \in assigned}])
      PROVE  Control'
  <2> DEFINE e == [type |-> "DamageStackResolved", hit |-> {d[2] : d \in assigned}]
  <2>1. {d[2] : d \in assigned} \in SUBSET Creature
    OBVIOUS
  <2>2. e \in Event /\ e \in StillEvent
    <3>1. e \in Event /\ e.type = "DamageStackResolved"
      BY <2>1, EventTypes
    <3> HIDE DEF e
    <3> QED BY <3>1 DEF StillEvent
  <2>3. eventsQueue' = Append(eventsQueue, e)
    BY <1>8
  <2> HIDE DEF e
  <2>4. Append(eventsQueue, e) = eventsQueue \o <<e>>
    BY <1>1, <2>2, AppendIsConcat
  <2>5. PICK es \in Seq(StillEvent) : es = <<e>>
    BY <2>2, One
  <2>6. Settled
    BY <1>1, <1>3 DEF Settled
  <2> QED BY <1>2, <1>5, <1>6, <1>6a, <1>8, <2>3, <2>4, <2>5, <2>6, DeliveryRests
<1> QED
  BY <1>7, <1>8 DEF ResolveDamage

(* GuiCombat and the combat steps.                                         *)
LEMMA ControlSteps ==
  ASSUME TypeOK, Control, OnCombatStepChange
  PROVE  Control'
<1>1. UNCHANGED <<turnVars, combatStep, cardVars, view, viewBlk>>
  BY DEF OnCombatStepChange
<1>2. /\ phase' = phase /\ currentGamePhase' = currentGamePhase /\ combatStep' = combatStep
      /\ currentPlayer' = currentPlayer /\ view' = view /\ viewBlk' = viewBlk
  BY <1>1 DEF turnVars
<1>3. eventsQueue' = eventsQueue => (eventsQueue \in Seq(Event) =>
        \E es \in Seq(StillEvent) : eventsQueue' = eventsQueue \o es)
  <2>1. <<>> \in Seq(StillEvent)
    BY EmptySeq
  <2>2. eventsQueue \in Seq(Event) => eventsQueue \o <<>> = eventsQueue
    BY EventSeqs
  <2> QED BY <2>1, <2>2
<1>4. CASE OnTriggers /\ UNCHANGED eventsQueue
  <2>1. Stepping("TRIGGERS")
    BY <1>4 DEF OnTriggers
  <2>2. /\ combatStep = "TRIGGERS" /\ Here /\ Arriving /\ FitsSoon /\ LeftOpen
        /\ eventsQueue \in Seq(Event)
    BY <2>1, SteppingCases
  <2>3. /\ Delivered(<<>>) /\ guiStep' = "TRIGGERS" /\ cursor' = cursor /\ strikes' = strikes
        /\ eventsQueue' = eventsQueue
    BY <1>4 DEF OnTriggers
  <2>4. Settled
    BY <2>2 DEF Arriving, Settled
  <2>5. Fits' /\ Told'
    BY <1>2, <2>2, <2>3 DEF Fits, FitsSoon, StrikesFit, StrikesSoon, GuiFits, GuiFitsSoon, Told
  <2>6. PICK es \in Seq(StillEvent) : eventsQueue' = eventsQueue \o es
    BY <1>3, <2>2, <2>3
  <2>7. cursor' # "NONE" => phase = COMBATDAMAGE
    BY <2>2, <2>3 DEF LeftOpen
  <2> QED BY <1>1, <2>1, <2>3, <2>4, <2>5, <2>6, <2>7, DeliveryRests
<1>5. CASE OnOrder /\ UNCHANGED eventsQueue
  <2>1. Stepping("ORDER")
    BY <1>5 DEF OnOrder
  <2>2. /\ combatStep = "ORDER" /\ Here /\ Arriving /\ FitsSoon /\ LeftOpen
        /\ eventsQueue \in Seq(Event)
    BY <2>1, SteppingCases
  <2>3. guiStep = "TRIGGERS" /\ phase = COMBATBLOCKERS /\ cursor = "NONE"
    BY <2>2 DEF Fits, FitsSoon, GuiFits, GuiFitsSoon, Arriving, LeftOpen, COMBATBLOCKERS, COMBATDAMAGE
  <2>4. strikes' = strikes /\ eventsQueue' = eventsQueue
    BY <1>5 DEF OnOrder
  <2>5. Fits'
    BY <1>2, <2>2, <2>4 DEF Fits, FitsSoon, StrikesFit, StrikesSoon, GuiFits, GuiFitsSoon
  <2>6. CASE AITurn
    <3>1. Delivered(<<Do("nextCombatStep")>>) /\ cursor' = "NONE"
      BY <1>5, <2>2, <2>3, <2>6 DEF OnOrder
    <3>2. Advancing
      BY <2>2, <2>3, <2>6 DEF Advancing, Advances
    <3> QED BY <1>1, <2>1, <2>3, <2>4, <2>5, <3>1, <3>2, DeliveryNests
  <2>7. CASE ~ AITurn /\ show' = {}
    <3>1. Delivered(<<Do("nextGamePhase")>>) /\ cursor' = "NONE"
      BY <1>5, <2>2, <2>3, <2>7 DEF OnOrder
    <3>2. Asking
      BY <2>2, <2>3, <2>7 DEF Asking, LeaveStep
    <3> QED BY <1>1, <2>1, <2>3, <2>4, <2>5, <3>1, <3>2, DeliveryNests
  <2>8. CASE ~ AITurn /\ show' # {}
    <3>1. /\ Delivered(<<>>) /\ cursor' = "ATK" /\ activeAtk' \in show' /\ guiStep' = "ORDER"
          /\ show' = {a \in view : Cardinality(viewBlk[a]) > 1}
      BY <1>5, <2>3, <2>8 DEF OnOrder, OpenScreen
    <3>2. Settled
      BY <2>2, <2>3, <2>8 DEF Settled
    <3>3. Told' /\ ~ AITurn'
      BY <1>2, <2>8 DEF Told, AITurn
    <3>4. PICK es \in Seq(StillEvent) : eventsQueue' = eventsQueue \o es
      BY <1>3, <2>2, <2>4
    <3> QED BY <1>1, <2>1, <2>5, <3>1, <3>2, <3>3, <3>4, DeliveryRests
  <2> QED BY <2>6, <2>7, <2>8
<1>6. CASE OnFirstStrike /\ UNCHANGED eventsQueue
  <2>1. Stepping("FIRST_STRIKE")
    BY <1>6 DEF OnFirstStrike
  <2>2. CASE AssignDamage("FIRST_STRIKE")
    <3>1. PICK s \in {"FIRST_STRIKE", "DAMAGE"} : s = "FIRST_STRIKE"
      OBVIOUS
    <3> QED BY <1>1, <1>6, <2>1, <2>2, <3>1, ControlAssign
  <2>3. CASE ~ AssignDamage("FIRST_STRIKE")
    <3>1. /\ combatStep = "FIRST_STRIKE" /\ Here /\ Arriving /\ FitsSoon /\ LeftOpen
      BY <2>1, SteppingCases
    <3>2. /\ Delivered(<<Do("nextCombatStep")>>) /\ UNCHANGED <<cursor, strikes, eventsQueue>>
      BY <1>6, <2>3 DEF OnFirstStrike
    <3>3. Fits'
      BY <1>2, <3>1, <3>2 DEF Fits, FitsSoon, StrikesFit, StrikesSoon, GuiFits, GuiFitsSoon
    <3>4. Advancing /\ phase \in {COMBATBLOCKERS, COMBATDAMAGE}
      BY <3>1 DEF Advancing, Advances, Arriving, COMBATBLOCKERS, COMBATDAMAGE
    <3>5. cursor' = "NONE"
      BY <3>1, <3>2 DEF LeftOpen
    <3> QED BY <1>1, <2>1, <3>1, <3>2, <3>3, <3>4, <3>5, DeliveryNests
  <2> QED BY <2>2, <2>3
<1>7. CASE OnDamage /\ UNCHANGED eventsQueue
  <2>1. PICK s \in {"FIRST_STRIKE", "DAMAGE"} : s = "DAMAGE"
    OBVIOUS
  <2> QED BY <1>1, <1>7, <2>1, ControlAssign DEF OnDamage
<1>8. CASE OnEndFirstStrike
  <2>1. Assignment("FIRST_STRIKE") \in SUBSET (Creature \X Creature)
    BY AssignmentTyped
  <2>2. PICK s \in {"END_FIRST_STRIKE", "END_DAMAGE"} : s = "END_FIRST_STRIKE" /\ s # "END_DAMAGE"
    OBVIOUS
  <2>3. PICK a \in SUBSET (Creature \X Creature) : a = Assignment("FIRST_STRIKE")
    BY <2>1
  <2>4. Stepping(s) /\ ResolveDamage(s, a, "nextCombatStep")
    BY <1>8, <2>2, <2>3 DEF OnEndFirstStrike
  <2> QED BY <1>1, <2>2, <2>4, ControlResolve
<1>9. CASE OnEndDamage
  BY <1>1, <1>9, ControlResolve DEF OnEndDamage, TypeOK
<1> QED
  BY <1>4, <1>5, <1>6, <1>7, <1>8, <1>9 DEF OnCombatStepChange

-----------------------------------------------------------------------------
(* Control: the engine's calls within a delivery.                          *)

(* What k, the calls interrupted, go on from.                              *)
Back(k) == <<Do("pop")>> \o k

(* Those calls, taken apart.                                               *)
LEMMA BackTyped ==
  ASSUME NEW k \in Outer
  PROVE  Back(k) \in Seq(Call) /\ <<>> \o Back(k) = Back(k) /\ Back(k) # <<>>
         /\ Head(Back(k)) = Do("pop") /\ Tail(Back(k)) = k
<1>1. <<Do("pop")>> \in Seq(Call) /\ <<Do("pop")>> # <<>> /\ Head(<<Do("pop")>>) = Do("pop")
      /\ Tail(<<Do("pop")>>) = <<>>
  BY CallFacts, Short
<1>2. k \in Seq(Call)
  BY Outers
<1>3. Back(k) \in Seq(Call) /\ Back(k) # <<>> /\ Head(Back(k)) = Do("pop") /\ Tail(Back(k)) = <<>> \o k
  BY <1>1, <1>2, CallSeqs DEF Back
<1> QED
  BY <1>2, <1>3, CallSeqs

(* The call on top and what is left of the calls the listener made.        *)
LEMMA NestedCases ==
  ASSUME TypeOK, Nested
  PROVE  \E p \in {COMBATBLOCKERS, COMBATDAMAGE}, k \in Outer :
           LET turned == <<TurnTo(p, p + 1)>>
               Waiting(q) == Tail(eventsQueue) = q
           IN /\ Interrupts(k) /\ calls # <<>> /\ eventsQueue # <<>>
              /\ p = COMBATBLOCKERS => cursor = "NONE"
              /\ \/ /\ Head(calls).op = "nextGamePhase" /\ Rest = Back(k) /\ Waiting(<<>>)
                    /\ phase = p /\ Asking /\ combatStep \notin {"BLOCKERS", "TRIGGERS"}
                 \/ /\ Head(calls).op = "nextCombatStep" /\ Rest = Back(k) /\ Waiting(<<>>)
                    /\ phase = p /\ Advancing /\ combatStep \notin {"BLOCKERS", "TRIGGERS"}
                 \/ /\ Head(calls).op = "forward" /\ Waiting(<<>>)
                    /\ Rest = <<Skip(p), Do("enterPhase")>> \o Back(k)
                    /\ phase = p /\ Leaving
                 \/ /\ Head(calls).op = "skipCombat" /\ Head(calls).old = p /\ Waiting(turned)
                    /\ Rest = <<Do("enterPhase")>> \o Back(k)
                    /\ Left(p)
                 \/ /\ Head(calls).op = "enterPhase" /\ Rest = Back(k) /\ Waiting(turned)
                    /\ Left(p)
                 \/ /\ Head(calls).op = "nextCombatStep" /\ Waiting(turned)
                    /\ Rest = <<Do("phaseActions")>> \o Back(k)
                    /\ p = COMBATBLOCKERS /\ Starting
                 \/ /\ Head(calls).op = "phaseActions" /\ Rest = Back(k) /\ Waiting(turned)
                    /\ p = COMBATDAMAGE /\ phase = COMBATEND /\ Acting
<1>1. PICK p \in {COMBATBLOCKERS, COMBATDAMAGE} :
        NestedWith(p) /\ (p = COMBATBLOCKERS => cursor = "NONE")
  BY DEF Nested, COMBATBLOCKERS, COMBATDAMAGE
<1>2. p \in Phase
  BY <1>1 DEF Phase, BEFORE_BEGIN, AFTER_EOT, COMBATBLOCKERS, COMBATDAMAGE
<1> DEFINE turned == <<TurnTo(p, p + 1)>>
<1>3. ASSUME NEW C \in Seq(Call), C # <<>>, NEW q, Within(C, q)
      PROVE  \E k \in Outer : /\ Interrupts(k) /\ calls # <<>> /\ eventsQueue # <<>>
                              /\ Head(calls) = Head(C) /\ Tail(eventsQueue) = q
                              /\ Rest = Tail(C) \o Back(k)
  <2>1. PICK k \in Outer : /\ Interrupts(k) /\ Rest = Tail(C) \o (<<Do("pop")>> \o k)
    BY <1>3, WithinTop
  <2>2. calls # <<>> /\ Head(calls) = Head(C) /\ eventsQueue # <<>> /\ Tail(eventsQueue) = q
    BY <1>3, WithinTop
  <2> QED BY <2>1, <2>2 DEF Back
<1>4. \A a \in {"phaseActions", "nextGamePhase", "nextCombatStep", "enterPhase"} :
        <<Do(a)>> \in Seq(Call) /\ <<Do(a)>> # <<>> /\ Head(<<Do(a)>>).op = a /\ Tail(<<Do(a)>>) = <<>>
  BY CallFacts, Short
<1>5. \A k \in Outer : <<>> \o Back(k) = Back(k)
  BY BackTyped
<1>6. ASSUME NEW a \in {"phaseActions", "nextGamePhase", "nextCombatStep", "enterPhase"},
             NEW q, Within(<<Do(a)>>, q)
      PROVE  \E k \in Outer : /\ Interrupts(k) /\ calls # <<>> /\ eventsQueue # <<>>
                              /\ Head(calls).op = a /\ Tail(eventsQueue) = q
                              /\ Rest = Back(k)
  <2>1. PICK C \in Seq(Call) : C = <<Do(a)>> /\ C # <<>> /\ Head(C).op = a /\ Tail(C) = <<>>
    BY <1>4
  <2>2. Within(C, q)
    BY <1>6, <2>1
  <2> QED BY <1>3, <1>5, <2>1, <2>2
<1>7. ASSUME NEW q, Within(<<Do("nextCombatStep"), Do("phaseActions")>>, q)
      PROVE  \E k \in Outer : /\ Interrupts(k) /\ calls # <<>> /\ eventsQueue # <<>>
                              /\ Head(calls).op = "nextCombatStep" /\ Tail(eventsQueue) = q
                              /\ Rest = <<Do("phaseActions")>> \o Back(k)
  <2>1. PICK C \in Seq(Call) : C = <<Do("nextCombatStep"), Do("phaseActions")>> /\ C # <<>>
                               /\ Head(C).op = "nextCombatStep" /\ Tail(C) = <<Do("phaseActions")>>
    <3>1. <<Do("nextCombatStep"), Do("phaseActions")>> \in Seq(Call)
      BY CallFacts
    <3>2. /\ <<Do("nextCombatStep"), Do("phaseActions")>> # <<>>
          /\ Head(<<Do("nextCombatStep"), Do("phaseActions")>>) = Do("nextCombatStep")
          /\ Tail(<<Do("nextCombatStep"), Do("phaseActions")>>) = <<Do("phaseActions")>>
      BY Short
    <3>3. Do("nextCombatStep").op = "nextCombatStep"
      BY CallFacts
    <3> QED BY <3>1, <3>2, <3>3
  <2>2. Within(C, q)
    BY <1>7, <2>1
  <2> QED BY <1>3, <2>1, <2>2
<1>8. ASSUME NEW q, Within(<<Do("forward"), Skip(p), Do("enterPhase")>>, q)
      PROVE  \E k \in Outer : /\ Interrupts(k) /\ calls # <<>> /\ eventsQueue # <<>>
                              /\ Head(calls).op = "forward" /\ Tail(eventsQueue) = q
                              /\ Rest = <<Skip(p), Do("enterPhase")>> \o Back(k)
  <2>1. PICK C \in Seq(Call) : C = <<Do("forward"), Skip(p), Do("enterPhase")>> /\ C # <<>>
                               /\ Head(C).op = "forward" /\ Tail(C) = <<Skip(p), Do("enterPhase")>>
    <3>1. <<Do("forward"), Skip(p), Do("enterPhase")>> \in Seq(Call)
      BY <1>2, CallFacts
    <3>2. /\ <<Do("forward"), Skip(p), Do("enterPhase")>> # <<>>
          /\ Head(<<Do("forward"), Skip(p), Do("enterPhase")>>) = Do("forward")
          /\ Tail(<<Do("forward"), Skip(p), Do("enterPhase")>>) = <<Skip(p), Do("enterPhase")>>
      BY Short
    <3>3. Do("forward").op = "forward"
      BY CallFacts
    <3> QED BY <3>1, <3>2, <3>3
  <2>2. Within(C, q)
    BY <1>8, <2>1
  <2> QED BY <1>3, <2>1, <2>2
<1>9. ASSUME NEW q, Within(<<Skip(p), Do("enterPhase")>>, q)
      PROVE  \E k \in Outer : /\ Interrupts(k) /\ calls # <<>> /\ eventsQueue # <<>>
                              /\ Head(calls).op = "skipCombat" /\ Head(calls).old = p
                              /\ Tail(eventsQueue) = q /\ Rest = <<Do("enterPhase")>> \o Back(k)
  <2>1. PICK C \in Seq(Call) : C = <<Skip(p), Do("enterPhase")>> /\ C # <<>>
                               /\ Head(C).op = "skipCombat" /\ Head(C).old = p
                               /\ Tail(C) = <<Do("enterPhase")>>
    <3>1. <<Skip(p), Do("enterPhase")>> \in Seq(Call)
      BY <1>2, CallFacts
    <3>2. /\ <<Skip(p), Do("enterPhase")>> # <<>> /\ Head(<<Skip(p), Do("enterPhase")>>) = Skip(p)
          /\ Tail(<<Skip(p), Do("enterPhase")>>) = <<Do("enterPhase")>>
      BY Short
    <3>3. Skip(p).op = "skipCombat" /\ Skip(p).old = p
      BY <1>2, CallFacts
    <3> QED BY <3>1, <3>2, <3>3
  <2>2. Within(C, q)
    BY <1>9, <2>1
  <2> QED BY <1>3, <2>1, <2>2
<1>10. \/ /\ Within(<<Do("nextGamePhase")>>, <<>>)
          /\ phase = p /\ Asking /\ combatStep \notin {"BLOCKERS", "TRIGGERS"}
       \/ /\ Within(<<Do("nextCombatStep")>>, <<>>)
          /\ phase = p /\ Advancing /\ combatStep \notin {"BLOCKERS", "TRIGGERS"}
       \/ /\ Within(<<Do("forward"), Skip(p), Do("enterPhase")>>, <<>>)
          /\ phase = p /\ Leaving
       \/ Within(<<Skip(p), Do("enterPhase")>>, turned) /\ Left(p)
       \/ Within(<<Do("enterPhase")>>, turned) /\ Left(p)
       \/ /\ Within(<<Do("nextCombatStep"), Do("phaseActions")>>, turned)
          /\ p = COMBATBLOCKERS /\ Starting
       \/ /\ Within(<<Do("phaseActions")>>, turned)
          /\ p = COMBATDAMAGE /\ phase = COMBATEND /\ Acting
  BY <1>1 DEF NestedWith
<1> HIDE DEF turned
<1> SUFFICES \E k \in Outer :
              /\ Interrupts(k) /\ calls # <<>> /\ eventsQueue # <<>>
              /\ \/ /\ Head(calls).op = "nextGamePhase" /\ Rest = Back(k) /\ Tail(eventsQueue) = <<>>
                    /\ phase = p /\ Asking /\ combatStep \notin {"BLOCKERS", "TRIGGERS"}
                 \/ /\ Head(calls).op = "nextCombatStep" /\ Rest = Back(k) /\ Tail(eventsQueue) = <<>>
                    /\ phase = p /\ Advancing /\ combatStep \notin {"BLOCKERS", "TRIGGERS"}
                 \/ /\ Head(calls).op = "forward" /\ Tail(eventsQueue) = <<>>
                    /\ Rest = <<Skip(p), Do("enterPhase")>> \o Back(k)
                    /\ phase = p /\ Leaving
                 \/ /\ Head(calls).op = "skipCombat" /\ Head(calls).old = p /\ Tail(eventsQueue) = turned
                    /\ Rest = <<Do("enterPhase")>> \o Back(k)
                    /\ Left(p)
                 \/ /\ Head(calls).op = "enterPhase" /\ Rest = Back(k) /\ Tail(eventsQueue) = turned
                    /\ Left(p)
                 \/ /\ Head(calls).op = "nextCombatStep" /\ Tail(eventsQueue) = turned
                    /\ Rest = <<Do("phaseActions")>> \o Back(k)
                    /\ p = COMBATBLOCKERS /\ Starting
                 \/ /\ Head(calls).op = "phaseActions" /\ Rest = Back(k) /\ Tail(eventsQueue) = turned
                    /\ p = COMBATDAMAGE /\ phase = COMBATEND /\ Acting
  BY <1>1 DEF turned
<1>11. CASE Within(<<Do("nextGamePhase")>>, <<>>) /\ phase = p /\ Asking
            /\ combatStep \notin {"BLOCKERS", "TRIGGERS"}
  BY <1>6, <1>11
<1>12. CASE Within(<<Do("nextCombatStep")>>, <<>>) /\ phase = p /\ Advancing
            /\ combatStep \notin {"BLOCKERS", "TRIGGERS"}
  BY <1>6, <1>12
<1>13. CASE Within(<<Do("forward"), Skip(p), Do("enterPhase")>>, <<>>) /\ phase = p /\ Leaving
  BY <1>8, <1>13
<1>14. CASE Within(<<Skip(p), Do("enterPhase")>>, turned) /\ Left(p)
  BY <1>9, <1>14
<1>15. CASE Within(<<Do("enterPhase")>>, turned) /\ Left(p)
  BY <1>6, <1>15
<1>16. CASE /\ Within(<<Do("nextCombatStep"), Do("phaseActions")>>, turned)
            /\ p = COMBATBLOCKERS /\ Starting
  BY <1>7, <1>16
<1>17. CASE /\ Within(<<Do("phaseActions")>>, turned)
            /\ p = COMBATDAMAGE /\ phase = COMBATEND /\ Acting
  BY <1>6, <1>17
<1> QED
  BY <1>10, <1>11, <1>12, <1>13, <1>14, <1>15, <1>16, <1>17

(* The delivery stays on the way while the calls it made go on.            *)
LEMMA NestsOn ==
  ASSUME NEW C, NEW q, NEW k \in Outer, calls' = C \o Back(k), Interrupts(k)',
         eventsQueue' # <<>>, Tail(eventsQueue') = q
  PROVE  Within(C, q)'
<1>1. k \in Outer'
  BY DEF Outer
<1> QED
  BY <1>1 DEF Within, Back

(* The calls that go on within a delivery.                                 *)
LEMMA NestsAgain ==
  ASSUME NEW p \in {COMBATBLOCKERS, COMBATDAMAGE}, NestedWith(p)', Fits',
         p = COMBATBLOCKERS => cursor' = "NONE"
  PROVE  Control'
BY DEF Control, Nested

(* A listener asks for the next phase.                                     *)
LEMMA NestedNextGamePhase ==
  ASSUME TypeOK, Nested, NextGamePhase
  PROVE  Control'
<1>1. /\ calls # <<>> /\ Head(calls).op = "nextGamePhase" /\ SameGame /\ eventsQueue' = eventsQueue
  BY DEF NextGamePhase, Return, SameGame
<1>2. PICK p \in {COMBATBLOCKERS, COMBATDAMAGE}, k \in Outer :
        /\ Interrupts(k) /\ eventsQueue # <<>> /\ (p = COMBATBLOCKERS => cursor = "NONE")
        /\ Rest = Back(k) /\ Tail(eventsQueue) = <<>>
        /\ phase = p /\ Asking /\ combatStep \notin {"BLOCKERS", "TRIGGERS"}
  BY <1>1, NestedCases
<1>3. p \in Phase
  BY <1>2 DEF Phase, BEFORE_BEGIN, AFTER_EOT, COMBATBLOCKERS, COMBATDAMAGE
<1>4. Interrupts(k)' /\ Fits' /\ cursor' = cursor /\ phase' = p
      /\ combatStep' = combatStep /\ eventsQueue' # <<>> /\ Tail(eventsQueue') = <<>>
  BY <1>1, <1>2, SameAll, SameVars DEF Nested
<1>5. CASE calls' = <<Do("nextCombatStep")>> \o Back(k) /\ Advancing
  <2>1. Within(<<Do("nextCombatStep")>>, <<>>)'
    BY <1>4, <1>5, NestsOn
  <2>2. Advancing'
    BY <1>1, <1>5, SameAll DEF Advancing
  <2>3. NestedWith(p)'
    BY <1>2, <1>4, <2>1, <2>2 DEF NestedWith
  <2> QED BY <1>2, <1>4, <2>3, NestsAgain
<1>6. CASE calls' = <<Do("forward"), Skip(p), Do("enterPhase")>> \o Back(k) /\ Leaving
  <2>1. Within(<<Do("forward"), Skip(p), Do("enterPhase")>>, <<>>)'
    BY <1>4, <1>6, NestsOn
  <2>2. Leaving'
    <3>1. LeaveStep(p)' /\ Here'
      BY <1>1, <1>2, <1>3, <1>6, SameAll DEF Leaving
    <3> QED BY <1>4, <3>1 DEF Leaving, LeaveStep
  <2>3. NestedWith(p)'
    BY <1>4, <2>1, <2>2 DEF NestedWith
  <2> QED BY <1>2, <1>4, <2>3, NestsAgain
<1> QED
  BY <1>2, <1>5, <1>6, AskingGoesOn DEF NextGamePhase, Then, Skip

(* The ring moves on within a delivery: its event waits behind the one     *)
(* handled.                                                                *)
LEMMA NestedForward ==
  ASSUME TypeOK, Nested, Forward
  PROVE  Control'
<1>1. /\ calls # <<>> /\ Head(calls).op = "forward" /\ Raise(<<TurnTo(phase, phase')>>, Rest)
  BY DEF Forward, Return, TurnTo
<1>2. PICK p \in {COMBATBLOCKERS, COMBATDAMAGE}, k \in Outer :
        /\ Interrupts(k) /\ eventsQueue # <<>> /\ (p = COMBATBLOCKERS => cursor = "NONE")
        /\ Tail(eventsQueue) = <<>>
        /\ Rest = <<Skip(p), Do("enterPhase")>> \o Back(k)
        /\ phase = p /\ Leaving
  BY <1>1, NestedCases
<1>3. p \in Phase /\ p + 1 \in Phase
  BY <1>2 DEF Phase, BEFORE_BEGIN, AFTER_EOT, COMBATBLOCKERS, COMBATDAMAGE
<1>4. Left(p)' /\ phase' = Succ(phase) /\ Fits' /\ currentGamePhase' = currentGamePhase
      /\ cursor' = cursor
  BY <1>2, <1>3, LeavesPhase DEF Nested
<1>5. phase' = p + 1
  BY <1>2, <1>4 DEF Succ, AFTER_EOT, COMBATBLOCKERS, COMBATDAMAGE
<1>6. PICK e \in Event : e = TurnTo(p, p + 1) /\ e = TurnTo(phase, phase')
  BY <1>2, <1>3, <1>5, EventTypes
<1>7. eventsQueue' = eventsQueue \o <<e>> /\ calls' = <<>> \o Rest
  BY <1>1, <1>2, <1>6 DEF Raise
<1>8. eventsQueue' # <<>> /\ Tail(eventsQueue') = <<e>>
  <2>1. eventsQueue \in Seq(Event) /\ <<e>> \in Seq(Event)
    BY DEF TypeOK
  <2>2. PICK es \in Seq(Event) : es = <<e>>
    BY <2>1
  <2>3. eventsQueue' # <<>> /\ Tail(eventsQueue') = Tail(eventsQueue) \o es
    BY <1>2, <1>7, <2>1, <2>2, Behind
  <2>4. <<>> \o es = es
    BY EventSeqs
  <2> QED BY <1>2, <2>2, <2>3, <2>4
<1>9. calls' = <<Skip(p), Do("enterPhase")>> \o Back(k)
  <2>1. <<Skip(p), Do("enterPhase")>> \in Seq(Call)
    BY <1>3, CallFacts
  <2>2. Back(k) \in Seq(Call)
    BY BackTyped
  <2>3. Rest \in Seq(Call)
    BY <1>2, <2>1, <2>2, CallSeqs
  <2> QED BY <1>2, <1>7, <2>3, CallSeqs
<1>10. Interrupts(k)'
  BY <1>2, <1>4 DEF Interrupts
<1>11. Within(<<Skip(p), Do("enterPhase")>>, <<e>>)'
  BY <1>8, <1>9, <1>10, NestsOn
<1>12. NestedWith(p)'
  BY <1>4, <1>6, <1>11 DEF NestedWith, TurnTo
<1> QED
  BY <1>2, <1>4, <1>12, NestsAgain

(* There are attackers, so nothing is skipped within a delivery.           *)
LEMMA NestedSkipCombat ==
  ASSUME TypeOK, Nested, SkipCombat
  PROVE  Control'
<1>1. /\ calls # <<>> /\ Head(calls).op = "skipCombat" /\ SameGame /\ eventsQueue' = eventsQueue
  BY DEF SkipCombat, Return, SameGame
<1>2. PICK p \in {COMBATBLOCKERS, COMBATDAMAGE}, k \in Outer :
        /\ Interrupts(k) /\ eventsQueue # <<>> /\ (p = COMBATBLOCKERS => cursor = "NONE")
        /\ Tail(eventsQueue) = <<TurnTo(p, p + 1)>>
        /\ Head(calls).old = p
        /\ Rest = <<Do("enterPhase")>> \o Back(k) /\ Left(p)
  BY <1>1, NestedCases
<1>3. calls' = <<>> \o Rest
  BY <1>2 DEF SkipCombat, Then, COMBATATTACKERS, COMBATBLOCKERS, COMBATDAMAGE
<1>4. calls' = <<Do("enterPhase")>> \o Back(k)
  <2>1. <<Do("enterPhase")>> \in Seq(Call) /\ Back(k) \in Seq(Call)
    BY CallFacts, BackTyped
  <2>2. Rest \in Seq(Call)
    BY <1>2, <2>1, CallSeqs
  <2> QED BY <1>2, <1>3, <2>2, CallSeqs
<1>5. Interrupts(k)' /\ Fits' /\ cursor' = cursor
  BY <1>1, <1>2, SameAll, SameVars DEF Nested
<1>6. Left(p)'
  <2>1. p \in Phase
    BY <1>2 DEF Phase, BEFORE_BEGIN, AFTER_EOT, COMBATBLOCKERS, COMBATDAMAGE
  <2> QED BY <1>1, <1>2, <2>1, SameAll, SameVars DEF Left
<1>7. PICK q : q = <<TurnTo(p, p + 1)>>
  OBVIOUS
<1>8. Within(<<Do("enterPhase")>>, q)'
  BY <1>1, <1>2, <1>4, <1>5, <1>7, NestsOn
<1>9. NestedWith(p)'
  BY <1>6, <1>7, <1>8 DEF NestedWith, TurnTo
<1> QED
  BY <1>2, <1>5, <1>9, NestsAgain

(* The damage phase entered starts its first step; the end of combat goes  *)
(* on to its actions.                                                      *)
LEMMA NestedEnterPhase ==
  ASSUME TypeOK, Nested, EnterPhase
  PROVE  Control'
<1>1. calls # <<>> /\ Head(calls).op = "enterPhase"
  BY DEF EnterPhase, Return
<1>2. PICK p \in {COMBATBLOCKERS, COMBATDAMAGE}, k \in Outer :
        /\ Interrupts(k) /\ eventsQueue # <<>> /\ (p = COMBATBLOCKERS => cursor = "NONE")
        /\ Tail(eventsQueue) = <<TurnTo(p, p + 1)>>
        /\ Rest = Back(k) /\ Left(p)
  BY <1>1, NestedCases
<1>3. p \in Phase /\ phase = p + 1
  BY <1>2 DEF Left, Succ, Phase, BEFORE_BEGIN, AFTER_EOT, COMBATBLOCKERS, COMBATDAMAGE
<1>4. Entering
  BY <1>2, <1>3 DEF Entering
<1>5. /\ phase = COMBATDAMAGE => Starting' /\ currentGamePhase' = COMBATDAMAGE
      /\ phase # COMBATDAMAGE => Acting' /\ currentGamePhase' = phase
      /\ Fits' /\ cursor' = cursor /\ eventsQueue' = eventsQueue /\ phase' = phase
  BY <1>4, EntersPhase DEF Nested
<1>6. Interrupts(k)'
  BY <1>2, <1>3, <1>5 DEF Interrupts, COMBATBLOCKERS, COMBATDAMAGE, COMBATEND
<1>7. PICK q : q = <<TurnTo(p, p + 1)>>
  OBVIOUS
<1>8. <<Do("nextCombatStep")>> \in Seq(Call) /\ <<Do("phaseActions")>> \in Seq(Call)
      /\ <<Do("nextCombatStep")>> \o <<Do("phaseActions")>> = <<Do("nextCombatStep"), Do("phaseActions")>>
      /\ <<>> \o <<Do("phaseActions")>> = <<Do("phaseActions")>>
  BY CallFacts, CallSeqs, Pair
<1>9. CASE p = COMBATBLOCKERS
  <2>1. phase = COMBATDAMAGE
    BY <1>3, <1>9 DEF COMBATBLOCKERS, COMBATDAMAGE
  <2>2. calls' = <<Do("nextCombatStep"), Do("phaseActions")>> \o Back(k)
    BY <1>2, <1>8, <2>1 DEF EnterPhase, Then
  <2>3. Within(<<Do("nextCombatStep"), Do("phaseActions")>>, q)'
    BY <1>2, <1>5, <1>6, <1>7, <2>2, NestsOn
  <2>4. NestedWith(p)'
    BY <1>5, <1>7, <1>9, <2>1, <2>3 DEF NestedWith, TurnTo
  <2> QED BY <1>2, <1>5, <2>4, NestsAgain
<1>10. CASE p = COMBATDAMAGE
  <2>1. phase = COMBATEND /\ phase # COMBATDAMAGE
    BY <1>3, <1>10 DEF COMBATDAMAGE, COMBATEND
  <2>2. calls' = <<Do("phaseActions")>> \o Back(k)
    BY <1>2, <1>8, <2>1 DEF EnterPhase, Then
  <2>3. Within(<<Do("phaseActions")>>, q)'
    BY <1>2, <1>5, <1>6, <1>7, <2>2, NestsOn
  <2>4. NestedWith(p)'
    BY <1>5, <1>7, <1>10, <2>1, <2>3 DEF NestedWith, TurnTo
  <2> QED BY <1>2, <1>5, <2>4, NestsAgain
<1> QED
  BY <1>2, <1>9, <1>10

(* After the calls of the listener: the delivery it interrupted.           *)
LEMMA BackAgain ==
  ASSUME NEW k \in Outer, calls' = Back(k), eventsQueue' # <<>>, Interrupts(k)'
  PROVE  /\ Draining' /\ Undelivered' = Tail(eventsQueue')
         /\ Rest' = k /\ Interrupts(Rest)'
<1>1. calls' # <<>> /\ Head(calls') = Do("pop") /\ Rest' = k
  BY BackTyped DEF Rest
<1>2. Head(calls').op = "pop"
  BY <1>1, CallFacts
<1>3. Draining' /\ Undelivered' = Tail(eventsQueue')
  BY <1>1, <1>2 DEF Draining, Undelivered
<1> QED
  BY <1>1, <1>3

(* The next step of the combat is told once the delivery is over.          *)
LEMMA NestedNextCombatStep ==
  ASSUME TypeOK, Nested, NextCombatStep
  PROVE  Control'
<1>1. /\ calls # <<>> /\ Head(calls).op = "nextCombatStep"
      /\ UNCHANGED <<turnVars, cardVars, guiVars, strikes>>
      /\ Fits
  BY DEF NextCombatStep, Return, Nested
<1>2. PICK p \in {COMBATBLOCKERS, COMBATDAMAGE}, k \in Outer :
        /\ Interrupts(k) /\ eventsQueue # <<>> /\ (p = COMBATBLOCKERS => cursor = "NONE")
        /\ \/ /\ Rest = Back(k) /\ Tail(eventsQueue) = <<>>
              /\ phase = p /\ Advancing /\ combatStep \notin {"BLOCKERS", "TRIGGERS"}
           \/ /\ Tail(eventsQueue) = <<TurnTo(p, p + 1)>>
              /\ Rest = <<Do("phaseActions")>> \o Back(k)
              /\ p = COMBATBLOCKERS /\ Starting
  BY <1>1, NestedCases
<1>3. combatStep # "BLOCKERS" /\ (Advancing \/ Starting)
  BY <1>2 DEF Starting, LeaveStep
<1>4. combatStep # "END_DAMAGE"
  BY <1>3 DEF Advancing, Advances, Starting, LeaveStep, COMBATBLOCKERS, COMBATDAMAGE
<1>5. combatStep' = StepAfter[combatStep] /\ Raise(<<Step(combatStep')>>, Rest)
  BY <1>3, <1>4 DEF NextCombatStep, Step
<1>6. /\ Here' /\ Arriving' /\ FitsSoon' /\ phase' = phase /\ cursor' = cursor
      /\ currentGamePhase' = currentGamePhase /\ combatStep' \in CombatStep
  BY <1>1, <1>3, <1>5, StepArrives
<1>7. Interrupts(k)'
  BY <1>2, <1>6 DEF Interrupts
<1>8. PICK e \in Event : e = Step(combatStep')
  BY <1>6, EventTypes
<1>9. PICK es \in Seq(Event) : es = <<e>>
  BY One
<1>10. eventsQueue' = eventsQueue \o es /\ calls' = <<>> \o Rest
  BY <1>2, <1>5, <1>8, <1>9 DEF Raise
<1>11. eventsQueue' # <<>> /\ Tail(eventsQueue') = Tail(eventsQueue) \o es
  BY <1>2, <1>10, Behind DEF TypeOK
<1>12. CASE Rest = Back(k) /\ Tail(eventsQueue) = <<>> /\ phase = p /\ Advancing
  <2>1. calls' = Back(k)
    BY <1>10, <1>12, BackTyped
  <2>2. Tail(eventsQueue') = es
    BY <1>11, <1>12, EventSeqs
  <2>3. Draining' /\ Undelivered' = es /\ Interrupts(Rest)'
    BY <1>7, <1>11, <2>1, <2>2, BackAgain
  <2>4. Undelivered' = <<Step(combatStep)>>'
    BY <1>8, <1>9, <2>3 DEF Step
  <2>5. LeftOpen'
    <3>1. phase = COMBATDAMAGE => combatStep' # "FIRST_STRIKE"
      BY <1>5, <1>12 DEF Advancing, Advances, StepAfter, COMBATBLOCKERS, COMBATDAMAGE
    <3> QED BY <1>2, <1>6, <1>12, <3>1 DEF LeftOpen
  <2> QED BY <1>6, <2>3, <2>4, <2>5 DEF Control, Arrives
<1>13. CASE /\ Tail(eventsQueue) = <<TurnTo(p, p + 1)>> /\ Rest = <<Do("phaseActions")>> \o Back(k)
            /\ p = COMBATBLOCKERS /\ Starting
  <2>1. calls' = <<Do("phaseActions")>> \o Back(k)
    <3>1. <<Do("phaseActions")>> \o Back(k) \in Seq(Call)
      BY BackTyped, CallFacts, CallSeqs
    <3> QED BY <1>10, <1>13, <3>1, CallSeqs
  <2>2. PICK q : q = <<TurnTo(COMBATBLOCKERS, COMBATDAMAGE), e>>
    OBVIOUS
  <2>3. COMBATBLOCKERS + 1 = COMBATDAMAGE
    BY DEF COMBATBLOCKERS, COMBATDAMAGE
  <2>4. Tail(eventsQueue') = q
    BY <1>9, <1>11, <1>13, <2>2, <2>3, Pair
  <2>5. Within(<<Do("phaseActions")>>, q)'
    BY <1>7, <1>11, <2>1, <2>4, NestsOn
  <2>6. phase' = COMBATDAMAGE
    BY <1>6, <1>13 DEF Starting
  <2>7. Within(<<Do("phaseActions")>>, <<TurnTo(COMBATBLOCKERS, COMBATDAMAGE), Step(combatStep)>>)'
    BY <1>8, <2>2, <2>5 DEF Step, TurnTo
  <2>8. cursor' = "NONE"
    BY <1>2, <1>6, <1>13
  <2> QED BY <1>6, <2>6, <2>7, <2>8 DEF Control, NestedArrives
<1> QED
  BY <1>2, <1>12, <1>13

(* The combat entered its end during the delivery.                         *)
LEMMA NestedPhaseActions ==
  ASSUME TypeOK, Nested, PhaseActions
  PROVE  Control'
<1>1. /\ calls # <<>> /\ Head(calls).op = "phaseActions" /\ Fits
      /\ UNCHANGED <<phase, ringOwner, currentGamePhase, guiVars, strikes>>
  BY DEF PhaseActions, Return, Nested
<1>2. PICK k \in Outer :
        /\ Interrupts(k) /\ eventsQueue # <<>> /\ Rest = Back(k)
        /\ Tail(eventsQueue) = <<TurnTo(COMBATDAMAGE, COMBATEND)>>
        /\ phase = COMBATEND /\ Acting
  <2>1. COMBATDAMAGE + 1 = COMBATEND
    BY DEF COMBATDAMAGE, COMBATEND
  <2> QED BY <1>1, <2>1, NestedCases
<1>3. currentGamePhase = COMBATEND
  BY <1>2 DEF Acting, Here
<1>4. /\ combatStep' = "BLOCKERS" /\ calls' = <<>> \o Rest /\ eventsQueue' = eventsQueue
      /\ UNCHANGED <<turnVars, cardVars, guiVars, strikes>>
  BY <1>1, <1>3 DEF PhaseActions, Then, turnVars, COMBATEND, COMBATBLOCKERS, BEFORE_BEGIN, AFTER_EOT
<1>5. /\ AtRest' /\ Acting' /\ Fits' /\ Told' /\ phase' = COMBATEND
      /\ currentGamePhase' = COMBATEND
  BY <1>1, <1>2, <1>3, <1>4, EndsCombat
<1>6. Interrupts(k)'
  BY <1>2, <1>5 DEF Interrupts
<1>7. calls' = Back(k)
  BY <1>2, <1>4, BackTyped
<1>8. Draining' /\ Undelivered' = <<TurnTo(COMBATDAMAGE, COMBATEND)>> /\ Rest' = k
  BY <1>2, <1>4, <1>6, <1>7, BackAgain
<1>9. PICK e \in QuietEvent' : e = TurnTo(COMBATDAMAGE, COMBATEND)
  <2>1. COMBATDAMAGE \in Phase /\ COMBATEND \in Phase /\ COMBATDAMAGE # COMBATATTACKERS
    BY DEF Phase, BEFORE_BEGIN, AFTER_EOT, COMBATDAMAGE, COMBATEND, COMBATATTACKERS
  <2>2. TurnTo(COMBATDAMAGE, COMBATEND) \in QuietEvent'
    BY <1>5, <2>1, EventTypes DEF QuietEvent
  <2> QED BY <2>2
<1>10. Undelivered' \in Seq(QuietEvent)'
  BY <1>8, <1>9, One
<1>11. Ready(k)' /\ k # Skipping
  BY <1>5, ShapesDiffer, Outers DEF Ready
<1>12. Ready(Rest)' /\ Rest' # Skipping'
  BY <1>8, <1>11 DEF Skipping
<1>13. Closing'
  <2>1. /\ <<TurnTo(COMBATDAMAGE, COMBATEND)>> # <<>>
        /\ Head(<<TurnTo(COMBATDAMAGE, COMBATEND)>>) = TurnTo(COMBATDAMAGE, COMBATEND)
    BY Short
  <2> QED BY <1>8, <2>1 DEF Closing, TurnTo, COMBATDAMAGE, COMBATEND
<1> QED
  BY <1>4, <1>5, <1>8, <1>10, <1>12, <1>13 DEF Control, Quiet

(* The step of the damage phase announced during the delivery waits for    *)
(* the actions of the phase.                                               *)
LEMMA NestedArrivesActions ==
  ASSUME TypeOK, NestedArrives, PhaseActions
  PROVE  Control'
<1>1. /\ FitsSoon /\ cursor = "NONE" /\ Here /\ phase = COMBATDAMAGE /\ Arriving
      /\ currentGamePhase = COMBATDAMAGE
  BY DEF NestedArrives, Here
<1> DEFINE waiting == <<TurnTo(COMBATBLOCKERS, COMBATDAMAGE), Step(combatStep)>>
<1>2. PICK k \in Outer : /\ Interrupts(k) /\ eventsQueue # <<>> /\ Tail(eventsQueue) = waiting
                         /\ Rest = Back(k)
  <2>1. PICK C \in Seq(Call) : C = <<Do("phaseActions")>> /\ C # <<>> /\ Tail(C) = <<>>
    <3>1. <<Do("phaseActions")>> \in Seq(Call)
      BY CallFacts
    <3>2. <<Do("phaseActions")>> # <<>> /\ Tail(<<Do("phaseActions")>>) = <<>>
      BY Short
    <3> QED BY <3>1, <3>2
  <2>2. Within(C, waiting)
    BY <2>1 DEF NestedArrives
  <2>3. eventsQueue # <<>> /\ Tail(eventsQueue) = waiting
    BY <2>1, <2>2, WithinTop
  <2>4. PICK k \in Outer : Interrupts(k) /\ Rest = Tail(C) \o (<<Do("pop")>> \o k)
    BY <2>1, <2>2, WithinTop
  <2>5. Rest = Back(k)
    <3>1. Rest = <<>> \o Back(k)
      BY <2>1, <2>4 DEF Back
    <3> QED BY <3>1, BackTyped
  <2> QED BY <2>3, <2>4, <2>5
<1>3. SameGame /\ eventsQueue' = eventsQueue /\ calls' = <<>> \o Rest
  BY <1>1 DEF PhaseActions, Then, SameGame, turnVars, COMBATDAMAGE, COMBATEND, COMBATBLOCKERS,
     BEFORE_BEGIN, AFTER_EOT
<1>4. calls' = Back(k)
  BY <1>2, <1>3, BackTyped
<1>5. Interrupts(k)' /\ Here' /\ Arriving' /\ FitsSoon' /\ cursor' = "NONE" /\ phase' = COMBATDAMAGE
      /\ combatStep' = combatStep
  BY <1>1, <1>2, <1>3, SameAll, SameVars
<1>6. PICK w : w = waiting
  OBVIOUS
<1>7. Draining' /\ Undelivered' = w /\ Interrupts(Rest)'
  BY <1>2, <1>3, <1>4, <1>5, <1>6, BackAgain
<1>8. Undelivered' = <<TurnTo(COMBATBLOCKERS, COMBATDAMAGE), Step(combatStep)>>'
  BY <1>5, <1>6, <1>7 DEF Step, TurnTo
<1> QED
  BY <1>5, <1>7, <1>8 DEF Control, Arrives, LeftOpen

-----------------------------------------------------------------------------
(* Control: every step.                                                    *)

(* What may be under way when a call of the engine itself is on top.       *)
LEMMA EngineCalls ==
  ASSUME Control, NEW op \in {"nextGamePhase", "forward", "skipCombat", "enterPhase",
                              "phaseActions", "nextCombatStep", "triggersStep"}, Return(op)
  PROVE  /\ Running \/ Nested \/ NestedArrives
         /\ op = "triggersStep" => Running
         /\ op # "phaseActions" => ~ NestedArrives
<1>1. calls # <<>> /\ Head(calls).op = op
  BY DEF Return
<1>2. ~ Quiet /\ ~ Arrives
  <2>1. Do("drain").op = "drain" /\ Do("pop").op = "pop"
    BY CallFacts
  <2>2. Quiet \/ Arrives => Head(calls) \in {Do("drain"), Do("pop")}
    BY DEF Quiet, Arrives, Draining
  <2> QED BY <1>1, <2>1, <2>2
<1>3. op = "triggersStep" => ~ Nested /\ ~ NestedArrives
  BY <1>1, NestedTop
<1>4. NestedArrives => op = "phaseActions"
  <2>1. ASSUME NestedArrives PROVE op = "phaseActions"
    <3>1. PICK C \in Seq(Call) : C = <<Do("phaseActions")>> /\ C # <<>> /\ Head(C).op = "phaseActions"
      <4>1. <<Do("phaseActions")>> \in Seq(Call)
        BY CallFacts
      <4>2. <<Do("phaseActions")>> # <<>> /\ Head(<<Do("phaseActions")>>) = Do("phaseActions")
        BY Short
      <4>3. Do("phaseActions").op = "phaseActions"
        BY CallFacts
      <4> QED BY <4>1, <4>2, <4>3
    <3>2. PICK q : Within(C, q)
      BY <2>1, <3>1 DEF NestedArrives
    <3> QED BY <1>1, <3>1, <3>2, WithinTop
  <2> QED BY <2>1
<1> QED
  BY <1>2, <1>3, <1>4 DEF Control

(* The loop of receiveEvent always finds the event it pops.                *)
LEMMA PopFindsEvent ==
  ASSUME TypeOK, Control, Return("pop")
  PROVE  eventsQueue # <<>>
<1>1. calls # <<>> /\ Head(calls).op = "pop"
  BY DEF Return
<1>2. ~ Running
  BY <1>1, RunningCases
<1>3. Quiet \/ Arrives
  BY <1>1, <1>2, NestedTop DEF Control
<1> QED
  BY <1>3 DEF Quiet, Arrives, Draining

(* A delivery stays on the way, whatever else happens.                     *)
LEMMA SameWithin ==
  ASSUME calls' = calls, eventsQueue' = eventsQueue, currentGamePhase' = currentGamePhase,
         NEW C, NEW q, Within(C, q)
  PROVE  Within(C, q)'
BY DEF Within, Interrupts, Outer

(* A step that changes nothing.                                            *)
LEMMA ControlStutters ==
  ASSUME TypeOK, Control, UNCHANGED vars
  PROVE  Control'
<1>1. SameGame /\ calls' = calls /\ eventsQueue' = eventsQueue
  BY DEF vars, SameGame
<1>2. CASE Running
  <2>1. Ready(calls)' /\ Fits' /\ Told' /\ cursor' = cursor /\ combatStep' = combatStep
    BY <1>1, <1>2, SameAll, SameVars DEF Running
  <2>2. Screen(calls) => Screen(calls)'
    <3>1. \A j : Screen(j) => Screen(j)'
      BY <1>1, SameAll
    <3> QED BY <1>1, <3>1
  <2> QED BY <1>1, <1>2, <2>1, <2>2 DEF Control, Running
<1>3. CASE Quiet \/ Arrives
  <2>1. Rest' = Rest /\ Undelivered' = Undelivered /\ Draining'
    BY <1>1, <1>3 DEF Rest, Undelivered, Draining, Quiet, Arrives
  <2>2. CASE Quiet
    <3>1. Ready(Rest)' /\ Fits' /\ Told' /\ cursor' = cursor /\ combatStep' = combatStep
          /\ QuietEvent' = QuietEvent
      BY <1>1, <2>1, <2>2, SameAll, SameVars DEF Quiet
    <3>2. Screen(Rest) => Screen(Rest)'
      <4>1. \A j : Screen(j) => Screen(j)'
        BY <1>1, SameAll
      <4> QED BY <2>1, <4>1
    <3>3. Closing => Closing'
      BY <2>1 DEF Closing, COMBATDAMAGE
    <3>4. cursor' # "NONE" => Closing' \/ (Screen(Rest)' /\ Undelivered' \in Seq(StillEvent)')
      BY <2>1, <2>2, <3>1, <3>2, <3>3 DEF Quiet, StillEvent, Event
    <3> QED BY <1>1, <2>1, <2>2, <3>1, <3>4 DEF Control, Quiet, Skipping
  <2>3. CASE Arrives
    <3>1. Interrupts(Rest)' /\ Here' /\ Arriving' /\ FitsSoon' /\ cursor' = cursor
          /\ combatStep' = combatStep /\ phase' = phase /\ LeftOpen'
      BY <1>1, <2>1, <2>3, SameAll, SameVars DEF Arrives
    <3>2. Step(combatStep)' = Step(combatStep)
      BY <3>1 DEF Step
    <3> QED BY <1>1, <2>1, <2>3, <3>1, <3>2 DEF Control, Arrives, TurnTo
  <2> QED BY <1>3, <2>2, <2>3
<1>4. \A C, q : Within(C, q) => Within(C, q)'
  BY <1>1, SameVars, SameWithin
<1>5. CASE Nested
  <2>1. PICK p \in {COMBATBLOCKERS, COMBATDAMAGE} :
          NestedWith(p) /\ p \in Phase /\ (p = COMBATBLOCKERS => cursor = "NONE")
    BY <1>5 DEF Nested, Phase, BEFORE_BEGIN, AFTER_EOT, COMBATBLOCKERS, COMBATDAMAGE
  <2>2. /\ phase' = phase /\ combatStep' = combatStep /\ cursor' = cursor /\ Fits'
        /\ currentGamePhase' = currentGamePhase /\ currentPlayer' = currentPlayer
    BY <1>1, <1>5, SameAll, SameVars DEF Nested
  <2>3. /\ Asking => Asking'
        /\ Advancing => Advancing'
        /\ Leaving => Leaving'
        /\ Left(p) => Left(p)'
        /\ Starting => Starting'
        /\ Acting => Acting'
    BY <2>2 DEF Asking, Advancing, Leaving, Left, Starting, Acting, Here, LeaveStep, Advances, Settled, AITurn
  <2>4. NestedWith(p)'
    BY <1>4, <2>1, <2>2, <2>3 DEF NestedWith, TurnTo
  <2> QED BY <2>1, <2>2, <2>4, NestsAgain
<1>6. CASE NestedArrives
  <2>1. Here' /\ Arriving' /\ FitsSoon' /\ cursor' = cursor /\ combatStep' = combatStep /\ phase' = phase
    BY <1>1, <1>6, SameAll, SameVars DEF NestedArrives
  <2>2. PICK w : w = <<TurnTo(COMBATBLOCKERS, COMBATDAMAGE), Step(combatStep)>>
    OBVIOUS
  <2>3. Within(<<Do("phaseActions")>>, w)'
    BY <1>4, <1>6, <2>2 DEF NestedArrives
  <2>4. Within(<<Do("phaseActions")>>, <<TurnTo(COMBATBLOCKERS, COMBATDAMAGE), Step(combatStep)>>)'
    BY <2>1, <2>2, <2>3 DEF Step, TurnTo
  <2> QED BY <1>6, <2>1, <2>4 DEF Control, NestedArrives
<1> QED
  BY <1>2, <1>3, <1>5, <1>6 DEF Control

(* Every step keeps the control invariant.                                 *)
LEMMA ControlNext ==
  ASSUME TypeOK, Control, AttackersInPlay, [Next]_vars
  PROVE  Control'
<1>1. CASE NextGamePhase
  BY <1>1, EngineCalls, RunningNextGamePhase, NestedNextGamePhase DEF NextGamePhase
<1>2. CASE Forward
  BY <1>2, EngineCalls, RunningForward, NestedForward DEF Forward
<1>3. CASE SkipCombat
  BY <1>3, EngineCalls, RunningSkipCombat, NestedSkipCombat DEF SkipCombat
<1>4. CASE EnterPhase
  BY <1>4, EngineCalls, RunningEnterPhase, NestedEnterPhase DEF EnterPhase
<1>5. CASE PhaseActions
  <2>1. Return("phaseActions") /\ ~ Return("pop")
    BY <1>5 DEF PhaseActions, Return
  <2>2. TypeOK'
    BY <2>1, TypeNext
  <2>3. Running \/ Nested \/ NestedArrives
    BY <2>1, EngineCalls
  <2> QED BY <1>5, <2>2, <2>3, RunningPhaseActions, NestedPhaseActions, NestedArrivesActions
<1>6. CASE NextCombatStep
  BY <1>6, EngineCalls, RunningNextCombatStep, NestedNextCombatStep DEF NextCombatStep
<1>7. CASE TriggersStep
  BY <1>7, EngineCalls, RunningTriggersStep DEF TriggersStep
<1>8. CASE Pop
  BY <1>8, ControlPop
<1>9. CASE OnChosen \/ OnAttackerOn \/ OnAttackerOff \/ OnBlocker \/ OnZoneChange
  BY <1>9, ControlCardEvents
<1>10. CASE OnPhaseChange
  BY <1>10, ControlPhaseChange
<1>11. CASE OnCombatStepChange
  BY <1>11, ControlSteps
<1>12. CASE OnDamageStackResolved
  BY <1>12, ControlDamageResolved
<1>13. CASE Environment
  BY <1>13, ControlEnvironment
<1>14. CASE UNCHANGED vars
  BY <1>14, ControlStutters
<1> QED
  BY <1>1, <1>2, <1>3, <1>4, <1>5, <1>6, <1>7, <1>8, <1>9, <1>10, <1>11, <1>12, <1>13, <1>14
     DEF Next, Engine

(* Only creatures in play attack.                                          *)
LEMMA AttackersNext ==
  ASSUME TypeOK, AttackersInPlay, [Next]_vars
  PROVE  AttackersInPlay'
<1>1. ASSUME NEW C, NEW D, LeaveCombat(C, D)
      PROVE  AttackersInPlay'
  BY <1>1 DEF LeaveCombat, AttackersInPlay
<1>2. ASSUME UNCHANGED <<inPlay, attacker>>
      PROVE  AttackersInPlay'
  BY <1>2 DEF AttackersInPlay
<1>3. CASE NextGamePhase \/ Forward \/ SkipCombat \/ EnterPhase \/ NextCombatStep \/ TriggersStep \/ Pop
  BY <1>2, <1>3 DEF NextGamePhase, Forward, SkipCombat, EnterPhase, NextCombatStep, TriggersStep, Pop,
     cardVars
<1>4. CASE PhaseActions
  BY <1>1, <1>2, <1>4 DEF PhaseActions, cardVars
<1>5. CASE OnChosen \/ OnAttackerOn \/ OnAttackerOff \/ OnBlocker \/ OnZoneChange \/ OnCombatStepChange
  BY <1>2, <1>5 DEF OnChosen, OnAttackerOn, OnAttackerOff, OnBlocker, OnZoneChange, OnCombatStepChange,
     cardVars
<1>6. CASE OnPhaseChange
  BY <1>6 DEF OnPhaseChange, AttackersInPlay
<1>7. CASE OnDamageStackResolved
  BY <1>1, <1>7 DEF OnDamageStackResolved
<1>8. CASE Environment
  <2>1. CASE Request \/ MoveCursor \/ ClickOK \/ (\E p \in Players : ModTurn(p))
    BY <1>2, <2>1 DEF Request, MoveCursor, ClickOK, ModTurn, cardVars
  <2>2. CASE \E c \in Creature : ToggleAttacker(c) \/ EnterPlay(c)
    BY <2>2 DEF ToggleAttacker, EnterPlay, AttackersInPlay
  <2>3. CASE \E c \in Creature : RemoveFromCombat(c) \/ LeavePlay(c)
    BY <1>1, <2>3 DEF RemoveFromCombat, LeavePlay, Affect
  <2>4. CASE \E b \in Creature, a \in Creature \cup {NoCard} : ToggleBlocker(b, a)
    BY <1>2, <2>4 DEF ToggleBlocker
  <2> QED BY <1>8, <2>1, <2>2, <2>3, <2>4 DEF Environment
<1>9. CASE UNCHANGED vars
  BY <1>2, <1>9 DEF vars, cardVars
<1> QED
  BY <1>3, <1>4, <1>5, <1>6, <1>7, <1>8, <1>9 DEF Next, Engine

-----------------------------------------------------------------------------
(* The invariant.                                                          *)

(* It holds at the start of a game.                                        *)
LEMMA InvInit == Init => IInv
<1> SUFFICES ASSUME Init
             PROVE  IInv
  OBVIOUS
<1>1. TypeOK
  BY TypeInit
<1>2. AttackersInPlay
  BY DEF Init, AttackersInPlay
<1>3. /\ calls = <<>> /\ eventsQueue = <<>> /\ cursor = "NONE" /\ combatStep = "BLOCKERS"
      /\ strikes = <<>> /\ Own = {} /\ phase = StartPhase /\ currentGamePhase = StartPhase
  BY DEF Init, Own
<1>4. AtRest
  BY <1>3, GameAssumption DEF AtRest, Here, Settled, COMBATBLOCKERS, COMBATDAMAGE, UNTAP, CLEANUP,
     BEFORE_BEGIN, AFTER_EOT
<1>5. Fits /\ Told
  BY <1>3 DEF Fits, FitsSoon, StrikesFit, StrikesSoon, GuiFits, GuiFitsSoon, Told
<1>6. Running
  BY <1>3, <1>4, <1>5 DEF Running, Ready
<1> QED
  BY <1>1, <1>2, <1>6 DEF IInv, Control

(* Every step keeps it.                                                    *)
LEMMA InvNext == IInv /\ [Next]_vars => IInv'
<1> SUFFICES ASSUME IInv, [Next]_vars
             PROVE  IInv'
  OBVIOUS
<1>1. TypeOK /\ Control /\ AttackersInPlay
  BY DEF IInv
<1>2. TypeOK'
  BY <1>1, PopFindsEvent, TypeNext
<1> QED
  BY <1>1, <1>2, ControlNext, AttackersNext DEF IInv

(* Type correctness, and the inductive invariant with it, in every game:   *)
(* whatever the creatures, their strikes, the AI players and the phase the *)
(* rules file starts in.                                                   *)
THEOREM Invariant == Spec => []IInv
<1> QED
  BY InvInit, InvNext, PTL DEF Spec

(* Every variable keeps its type.                                          *)
THEOREM TypeCorrect == Spec => []TypeOK
<1>1. IInv => TypeOK
  BY DEF IInv
<1> QED
  BY <1>1, Invariant, PTL

(* The loop of receiveEvent never pops an empty queue, nor is it left with *)
(* events in the queue once control is back in the game loop.              *)
QueueSound ==
  /\ Return("pop") => eventsQueue # <<>>
  /\ Idle => eventsQueue = <<>>

(* The queue of events is sound in every behaviour of the engine.          *)
THEOREM QueueIsSound == Spec => []QueueSound
<1>1. IInv => QueueSound
  BY PopFindsEvent, IdleRuns DEF IInv, QueueSound
<1> QED
  BY <1>1, Invariant, PTL

(* Between calls the ring's position, currentGamePhase and combatStep      *)
(* agree (nextGamePhase, nextCombatStep and the listeners that call them   *)
(* back).                                                                  *)
THEOREM StepAlwaysFits == Spec => []StepFitsPhase
<1>1. IInv => StepFitsPhase
  <2> SUFFICES ASSUME IInv, Idle
               PROVE  /\ currentGamePhase = phase /\ phase \notin {BEFORE_BEGIN, AFTER_EOT}
                      /\ CASE phase = COMBATBLOCKERS ->
                                combatStep \in {"BLOCKERS", "TRIGGERS"}
                                  \cup (IF AITurn THEN {"END_FIRST_STRIKE"} ELSE {"ORDER"})
                           [] phase = COMBATDAMAGE ->
                                combatStep \in {"END_FIRST_STRIKE", "END_DAMAGE"}
                                  \cup (IF AITurn THEN {} ELSE {"FIRST_STRIKE", "DAMAGE"})
                           [] OTHER -> combatStep = "BLOCKERS"
    BY DEF StepFitsPhase
  <2>1. AtRest
    BY IdleRuns DEF IInv
  <2> QED
    BY <2>1 DEF AtRest, Here, Settled, COMBATBLOCKERS, COMBATDAMAGE
<1> QED
  BY <1>1, Invariant, PTL

(* The damage steps of a combat are resolved in order and once each, and a *)
(* creature that still attacks at the end of combat went through both.     *)
THEOREM CombatIsFull == Spec => []FullCombat
<1>1. IInv => FullCombat
  <2> SUFFICES ASSUME IInv
               PROVE  FullCombat
    OBVIOUS
  <2>1. Fits \/ FitsSoon
    BY DEF IInv, Control, Running, Quiet, Arrives, Nested, NestedArrives
  <2>2. strikes \in {<<>>, FirstOnly, Both}
    BY <2>1 DEF Fits, FitsSoon, StrikesFit, StrikesSoon, IInv, TypeOK, CombatStep
  <2>3. IsPrefix(strikes, Both)
    <3>1. CASE strikes = <<>>
      BY <3>1 DEF IsPrefix, Both
    <3>2. CASE strikes = FirstOnly
      BY <3>2 DEF IsPrefix, Both, FirstOnly
    <3>3. CASE strikes = Both
      BY <3>3 DEF IsPrefix, Both
    <3> QED BY <2>2, <3>1, <3>2, <3>3
  <2>4. ASSUME Idle, phase = COMBATEND, Own # {}
        PROVE  Len(strikes) = 2
    <3>1. AtRest /\ Fits
      BY <2>4, IdleRuns DEF IInv
    <3>2. strikes = Both
      BY <2>4, <3>1 DEF AtRest, Settled, Fits, FitsSoon, StrikesFit, StrikesSoon, COMBATEND, COMBATBLOCKERS, COMBATDAMAGE
    <3> QED BY <3>2 DEF Both
  <2> QED BY <2>3, <2>4 DEF FullCombat, Both, Own
<1> QED
  BY <1>1, Invariant, PTL

-----------------------------------------------------------------------------
(* The order of turns: TurnEngine implements TurnOrder.                    *)

(* Whether the actions of a phase are still to be done.                    *)
Acts(s) == \E i \in DOMAIN s : s[i].op = "phaseActions"

(* They are looked for in a call and the calls behind it.                  *)
LEMMA ActsFacts ==
  /\ ~ Acts(<<>>)
  /\ \A c \in Call : Acts(<<c>>) <=> c.op = "phaseActions"
  /\ \A s, t \in Seq(Call) : Acts(s \o t) <=> Acts(s) \/ Acts(t)
  /\ \A s \in Seq(Call) : s # <<>> => (Acts(s) <=> Head(s).op = "phaseActions" \/ Acts(Tail(s)))
<1>1. ~ Acts(<<>>)
  BY DEF Acts
<1>2. \A c \in Call : Acts(<<c>>) <=> c.op = "phaseActions"
  BY DEF Acts
<1>3. ASSUME NEW s \in Seq(Call), NEW t \in Seq(Call)
      PROVE  Acts(s \o t) <=> Acts(s) \/ Acts(t)
  <2>1. /\ s \o t \in Seq(Call) /\ Len(s \o t) = Len(s) + Len(t)
        /\ Len(s) \in Nat /\ Len(t) \in Nat
        /\ \A i \in 1..Len(s) + Len(t) : (s \o t)[i] = IF i <= Len(s) THEN s[i] ELSE t[i - Len(s)]
    BY ConcatProperties
  <2>2. DOMAIN (s \o t) = 1..Len(s) + Len(t) /\ DOMAIN s = 1..Len(s) /\ DOMAIN t = 1..Len(t)
    BY <2>1
  <2>3. ASSUME Acts(s \o t) PROVE Acts(s) \/ Acts(t)
    <3>1. PICK i \in 1..Len(s) + Len(t) : (s \o t)[i].op = "phaseActions"
      BY <2>2, <2>3 DEF Acts
    <3>2. CASE i <= Len(s)
      BY <2>1, <2>2, <3>1, <3>2 DEF Acts
    <3>3. CASE ~ i <= Len(s)
      <4>1. i - Len(s) \in 1..Len(t) /\ (s \o t)[i] = t[i - Len(s)]
        BY <2>1, <3>1, <3>3
      <4> QED BY <2>2, <3>1, <4>1 DEF Acts
    <3> QED BY <3>2, <3>3
  <2>4. ASSUME Acts(s) PROVE Acts(s \o t)
    <3>1. PICK i \in 1..Len(s) : s[i].op = "phaseActions"
      BY <2>2, <2>4 DEF Acts
    <3>2. i \in 1..Len(s) + Len(t) /\ (s \o t)[i] = s[i]
      BY <2>1, <3>1
    <3> QED BY <2>2, <3>1, <3>2 DEF Acts
  <2>5. ASSUME Acts(t) PROVE Acts(s \o t)
    <3>1. PICK i \in 1..Len(t) : t[i].op = "phaseActions"
      BY <2>2, <2>5 DEF Acts
    <3>2. i + Len(s) \in 1..Len(s) + Len(t) /\ (s \o t)[i + Len(s)] = t[i]
      BY <2>1, <3>1
    <3> QED BY <2>2, <3>1, <3>2 DEF Acts
  <2> QED BY <2>3, <2>4, <2>5
<1>4. ASSUME NEW s \in Seq(Call), s # <<>>
      PROVE  Acts(s) <=> Head(s).op = "phaseActions" \/ Acts(Tail(s))
  <2>1. Head(s) \in Call /\ Tail(s) \in Seq(Call) /\ s = <<Head(s)>> \o Tail(s)
    BY <1>4, CallSeqs
  <2>2. <<Head(s)>> \in Seq(Call)
    BY <2>1, One
  <2>3. PICK u \in Seq(Call) : u = <<Head(s)>>
    BY <2>2
  <2>4. PICK t \in Seq(Call) : t = Tail(s)
    BY <2>1
  <2>5. Acts(u \o t) <=> Acts(u) \/ Acts(t)
    BY <1>3
  <2>6. Acts(u) <=> Head(s).op = "phaseActions"
    BY <1>2, <2>1, <2>3
  <2> QED BY <2>1, <2>3, <2>4, <2>5, <2>6
<1> QED
  BY <1>1, <1>2, <1>3, <1>4

(* Calls that are not phase actions make no difference to that.            *)
LEMMA ActsOn ==
  ASSUME TypeOK, calls # <<>>, Head(calls).op # "phaseActions",
         NEW C \in Seq(Call), ~ Acts(C), calls' = C \o Rest
  PROVE  Acts(calls') <=> Acts(calls)
<1>1. calls \in Seq(Call) /\ Rest \in Seq(Call)
  BY CallSeqs DEF TypeOK, Rest
<1>2. Acts(calls) <=> Acts(Rest)
  BY <1>1, ActsFacts DEF Rest
<1> QED
  BY <1>1, <1>2, ActsFacts

(* Phase actions come last, and never while a turn is being passed on.     *)
LEMMA PassedFacts ==
  ASSUME TypeOK, Control
  PROVE  /\ Passed <=> currentGamePhase = AFTER_EOT /\ ~ Acts(calls)
         /\ Idle => ~ Passed /\ currentGamePhase # AFTER_EOT
<1>1. Passed <=> currentGamePhase = AFTER_EOT /\ ~ Acts(calls)
  BY DEF Passed, Acts
<1>2. Idle => currentGamePhase # AFTER_EOT
  BY IdleRuns DEF AtRest, Here
<1> QED
  BY <1>1, <1>2

(* A delivery never happens to span the end of a turn.                     *)
LEMMA NestedInCombat ==
  ASSUME TypeOK, Nested \/ NestedArrives
  PROVE  currentGamePhase \in {COMBATBLOCKERS, COMBATDAMAGE, COMBATEND}
<1>1. CASE NestedArrives
  BY <1>1 DEF NestedArrives, Here
<1>2. CASE Nested
  <2>1. PICK p \in {COMBATBLOCKERS, COMBATDAMAGE} : NestedWith(p)
    BY <1>2 DEF Nested
  <2> QED BY <2>1 DEF NestedWith, Asking, Advancing, Leaving, Left, Starting, Acting, Here
<1> QED
  BY <1>1, <1>2

(* A phase is entered from the one before, or from the attackers phase,    *)
(* and its actions are then still to be done, those of the one before not. *)
LEMMA EnterFacts ==
  ASSUME TypeOK, Control, EnterPhase
  PROVE  /\ calls # <<>> /\ Rest \in Seq(Call) /\ (Running \/ Nested)
         /\ currentGamePhase' = phase /\ phase \in Phase
         /\ UNCHANGED <<currentPlayer, extraTurn, skippingTurn>>
         /\ Entering /\ Acts(calls')
         /\ currentGamePhase \notin {COMBATBLOCKERS, COMBATDAMAGE, COMBATEND} => Running /\ ~ Acts(calls)
<1>1. calls # <<>> /\ Head(calls).op = "enterPhase" /\ (Running \/ Nested) /\ Rest \in Seq(Call)
  BY EngineCalls, CallSeqs DEF EnterPhase, Return, TypeOK, Rest
<1>2. /\ currentGamePhase' = phase /\ phase \in Phase
      /\ UNCHANGED <<currentPlayer, extraTurn, skippingTurn>>
  BY <1>1 DEF EnterPhase, TypeOK
<1>3. Acts(calls')
  <2>1. PICK C \in Seq(Call) : calls' = C \o Rest /\ Acts(C)
    <3>1. Do("nextCombatStep") \in Call /\ Do("phaseActions") \in Call /\ Do("phaseActions").op = "phaseActions"
      BY CallFacts
    <3>2. /\ <<>> \in Seq(Call) /\ <<Do("nextCombatStep")>> \in Seq(Call) /\ <<Do("phaseActions")>> \in Seq(Call)
          /\ Acts(<<Do("phaseActions")>>)
      BY <3>1, One, ActsFacts, CallSeqs
    <3>3. PICK s \in Seq(Call) : calls' = (s \o <<Do("phaseActions")>>) \o Rest
      BY <3>2 DEF EnterPhase, Then
    <3>4. PICK t \in Seq(Call) : t = <<Do("phaseActions")>> /\ Acts(t)
      BY <3>2
    <3>5. s \o t \in Seq(Call) /\ Acts(s \o t)
      <4>1. s \o t \in Seq(Call)
        BY CallSeqs
      <4>2. Acts(s \o t) <=> Acts(s) \/ Acts(t)
        BY ActsFacts
      <4> QED BY <3>4, <4>1, <4>2
    <3> QED BY <3>3, <3>4, <3>5
  <2> QED BY <1>1, <2>1, ActsFacts
<1>4. Entering
  <2>1. CASE Running
    BY <1>1, <2>1, RunningCases
  <2>2. CASE Nested
    <3>1. PICK p \in {COMBATBLOCKERS, COMBATDAMAGE} : Left(p)
      BY <1>1, <2>2, NestedCases
    <3> QED BY <3>1 DEF Entering, Phase, BEFORE_BEGIN, AFTER_EOT, COMBATBLOCKERS, COMBATDAMAGE
  <2> QED BY <1>1, <2>1, <2>2
<1>5. ASSUME currentGamePhase \notin {COMBATBLOCKERS, COMBATDAMAGE, COMBATEND}
      PROVE  Running /\ ~ Acts(calls)
  <2>1. Running
    BY <1>1, <1>5, NestedInCombat
  <2>2. Rest = <<>>
    BY <1>1, <2>1, RunningCases
  <2>3. ~ Acts(calls)
    BY <1>1, <2>2, ActsFacts DEF Rest, TypeOK
  <2> QED BY <2>1, <2>3
<1> QED
  BY <1>1, <1>2, <1>3, <1>4, <1>5

(* Entering a phase takes the game to the next one, from the attackers to  *)
(* the end of combat if nobody attacks, or to a new turn.                  *)
LEMMA EnterRefines ==
  ASSUME IInv, EnterPhase
  PROVE  Turns!Next
<1>1. TypeOK /\ Control
  BY DEF IInv
<1>2. /\ currentGamePhase' = phase /\ phase \in Phase /\ Entering
      /\ UNCHANGED <<currentPlayer, extraTurn, skippingTurn>>
  BY <1>1, EnterFacts
<1>3. ~ Passed'
  <2>1. Acts(calls')
    BY <1>1, EnterFacts
  <2> QED BY <2>1 DEF Passed, Acts
<1>5. CASE Skipped(COMBATEND)
  <2>1. currentGamePhase = 6 /\ currentGamePhase' = 9
    BY <1>2, <1>5 DEF Skipped, COMBATATTACKERS, COMBATEND
  <2>2. ~ Passed
    BY <2>1 DEF Passed, AFTER_EOT
  <2>3. Passed' = Passed
    BY <1>3, <2>2 DEF Passed
  <2> QED BY <1>2, <2>1, <2>3 DEF Turns!Next, Turns!NextPhase, Turns!LastPhase, Turns!Attackers, Turns!CombatEnds
<1>6. ASSUME NEW p \in Phase, Left(p), p # AFTER_EOT
      PROVE  Turns!Next
  <2>1. currentGamePhase = p /\ currentGamePhase' = p + 1
    BY <1>2, <1>6 DEF Left, Succ
  <2>2. ~ Passed
    BY <1>6, <2>1 DEF Passed
  <2>3. Passed' = Passed
    BY <1>3, <2>2 DEF Passed
  <2> QED BY <1>2, <1>6, <2>1, <2>3 DEF Turns!Next, Turns!NextPhase, Turns!LastPhase, AFTER_EOT
<1>7. CASE Left(AFTER_EOT)
  <2>1. currentGamePhase = 13 /\ currentGamePhase' = 0
    BY <1>2, <1>7 DEF Left, Succ, AFTER_EOT, BEFORE_BEGIN
  <2>2. ~ Acts(calls)
    BY <1>1, <2>1, EnterFacts DEF COMBATBLOCKERS, COMBATDAMAGE, COMBATEND
  <2>3. Passed
    BY <1>1, <2>1, <2>2, PassedFacts DEF AFTER_EOT
  <2> QED BY <1>2, <1>3, <2>1, <2>3 DEF Turns!Next, Turns!BeginTurn, Turns!LastPhase
<1> QED
  BY <1>2, <1>5, <1>6, <1>7 DEF Entering

(* The actions of the last phase pass the turn on.                         *)
LEMMA ActionsRefine ==
  ASSUME IInv, PhaseActions
  PROVE  [Turns!Next]_(Turns!vars)
<1>1. TypeOK /\ Control /\ calls # <<>> /\ Head(calls).op = "phaseActions"
      /\ (Running \/ Nested \/ NestedArrives)
  BY EngineCalls DEF IInv, PhaseActions, Return
<1>2. currentGamePhase' = currentGamePhase /\ calls \in Seq(Call) /\ Acts(calls)
  BY <1>1, ActsFacts DEF PhaseActions, TypeOK
<1>3. ~ Passed
  BY <1>1, <1>2, PassedFacts
<1>4. CASE currentGamePhase = AFTER_EOT
  <2>1. Running
    BY <1>1, <1>4, NestedInCombat DEF AFTER_EOT, COMBATBLOCKERS, COMBATDAMAGE, COMBATEND
  <2>2. Rest = <<>>
    BY <1>1, <2>1, RunningCases
  <2>3. nextPlayer /\ calls' = <<Do("nextGamePhase")>> \o Rest
    BY <1>4 DEF PhaseActions, Then, AFTER_EOT, BEFORE_BEGIN, COMBATEND, COMBATBLOCKERS
  <2>4. Passed'
    <3>1. Do("nextGamePhase") \in Call /\ Do("nextGamePhase").op = "nextGamePhase"
      BY CallFacts
    <3>2. <<Do("nextGamePhase")>> \in Seq(Call) /\ ~ Acts(<<Do("nextGamePhase")>>)
      BY <3>1, One, ActsFacts
    <3>3. calls' = <<Do("nextGamePhase")>>
      BY <2>2, <2>3, <3>2, CallSeqs
    <3>4. ~ Acts(calls')
      BY <3>2, <3>3
    <3> QED BY <1>2, <1>4, <3>4 DEF Passed, Acts
  <2>5. /\ currentPlayer \in 0..1 /\ extraTurn \in [0..1 -> Nat] /\ skippingTurn \in [0..1 -> Nat]
    BY <1>1 DEF TypeOK, Players
  <2> DEFINE again == extraTurn[currentPlayer] # 0
             p     == IF again THEN currentPlayer ELSE 1 - currentPlayer
  <2>6. p \in 0..1 /\ (~ again => p # currentPlayer) /\ (again => p = currentPlayer)
    BY <2>5
  <2>7. /\ extraTurn' = IF again THEN [extraTurn EXCEPT ![currentPlayer] = @ - 1] ELSE extraTurn
        /\ skippingTurn' = IF skippingTurn[p] # 0 THEN [skippingTurn EXCEPT ![p] = @ - 1] ELSE skippingTurn
        /\ currentPlayer' = IF skippingTurn[p] # 0 THEN 1 - p ELSE p
    BY <2>3 DEF nextPlayer, Opponent
  <2>8. /\ again => extraTurn[currentPlayer] > 0
        /\ skippingTurn[p] # 0 => skippingTurn[p] > 0
    BY <2>5, <2>6
  <2> HIDE DEF again, p
  <2>9. /\ \/ extraTurn[currentPlayer] > 0 /\ p = currentPlayer
              /\ extraTurn' = [extraTurn EXCEPT ![currentPlayer] = @ - 1]
           \/ extraTurn[currentPlayer] = 0 /\ p # currentPlayer /\ extraTurn' = extraTurn
        /\ \/ skippingTurn[p] > 0 /\ currentPlayer' = 1 - p
              /\ skippingTurn' = [skippingTurn EXCEPT ![p] = @ - 1]
           \/ skippingTurn[p] = 0 /\ currentPlayer' = p /\ skippingTurn' = skippingTurn
    BY <2>6, <2>7, <2>8 DEF again
  <2> QED
    BY <1>2, <1>3, <1>4, <2>4, <2>6, <2>9
       DEF Turns!Next, Turns!PassTurn, Turns!LastPhase, Turns!Players, Turns!Use, AFTER_EOT
<1>5. CASE currentGamePhase # AFTER_EOT
  <2>1. UNCHANGED <<currentPlayer, extraTurn, skippingTurn>>
    BY <1>5 DEF PhaseActions
  <2>2. ~ Passed'
    BY <1>2, <1>5 DEF Passed
  <2>3. Passed' = Passed
    BY <1>3, <2>2 DEF Passed
  <2> QED BY <1>2, <2>1, <2>3 DEF Turns!vars
<1> QED
  BY <1>4, <1>5

(* The calls an action puts on top, when none of them acts on a phase.     *)
Puts(C) == C \in Seq(Call) /\ ~ Acts(C) /\ calls' = C \o Rest

(* No call, or one that is not phaseActions.                               *)
LEMMA FewCalls ==
  /\ <<>> \in Seq(Call) /\ ~ Acts(<<>>)
  /\ \A op \in {"drain", "pop", "nextGamePhase", "forward", "enterPhase",
                "nextCombatStep", "triggersStep"} :
       <<Do(op)>> \in Seq(Call) /\ ~ Acts(<<Do(op)>>)
<1>1. ASSUME NEW op \in {"drain", "pop", "nextGamePhase", "forward", "enterPhase",
                         "nextCombatStep", "triggersStep"}
      PROVE  <<Do(op)>> \in Seq(Call) /\ ~ Acts(<<Do(op)>>)
  <2>1. Do(op) \in Call /\ Do(op).op # "phaseActions"
    BY CallFacts
  <2> QED BY <2>1, ActsFacts, One
<1> QED
  BY <1>1, ActsFacts, CallSeqs

(* Two sequences of such calls, one after the other.                       *)
LEMMA MoreCalls ==
  ASSUME NEW s \in Seq(Call), NEW t \in Seq(Call), ~ Acts(s), ~ Acts(t)
  PROVE  s \o t \in Seq(Call) /\ ~ Acts(s \o t)
<1>1. s \o t \in Seq(Call)
  BY CallSeqs
<1>2. Acts(s \o t) <=> Acts(s) \/ Acts(t)
  BY ActsFacts
<1> QED
  BY <1>1, <1>2

(* The engine's own calls and deliveries, the phase actions aside.         *)
LEMMA EnginePuts ==
  ASSUME TypeOK, calls # <<>>,
         \/ NextGamePhase \/ Forward \/ SkipCombat \/ NextCombatStep \/ TriggersStep \/ Pop
         \/ OnChosen \/ OnAttackerOn \/ OnAttackerOff \/ OnBlocker \/ OnZoneChange
         \/ OnPhaseChange \/ OnCombatStepChange \/ OnDamageStackResolved
  PROVE  \E C : Puts(C)
<1>1. phase \in Phase /\ Rest \in Seq(Call)
  BY CallSeqs DEF TypeOK, Rest
<1>2. ASSUME NEW es, Raise(es, Rest)
      PROVE  \E C : Puts(C)
  <2>1. calls' = <<Do("drain")>> \o Rest \/ calls' = <<>> \o Rest
    BY <1>2 DEF Raise
  <2> QED BY <2>1, FewCalls DEF Puts
<1>3. ASSUME NEW ops \in Seq(Call), ~ Acts(ops), Delivered(ops)
      PROVE  \E C : Puts(C)
  <2>1. PICK t \in Seq(Call) : t = <<Do("pop")>> /\ ~ Acts(t)
    BY FewCalls
  <2>2. calls' = (ops \o t) \o Rest
    BY <1>3, <2>1 DEF Delivered
  <2> QED BY <1>3, <2>1, <2>2, MoreCalls DEF Puts
<1>4. ASSUME Delivered(<<>>)
      PROVE  \E C : Puts(C)
  <2>1. PICK ops \in Seq(Call) : ops = <<>> /\ ~ Acts(ops)
    BY FewCalls
  <2> QED BY <1>3, <1>4, <2>1
<1>5. ASSUME NEW op \in {"nextGamePhase", "nextCombatStep"}, Delivered(<<Do(op)>>)
      PROVE  \E C : Puts(C)
  <2>1. PICK ops \in Seq(Call) : ops = <<Do(op)>> /\ ~ Acts(ops)
    BY FewCalls
  <2> QED BY <1>3, <1>5, <2>1
<1>6. CASE NextGamePhase
  <2>1. CASE calls' = <<Do("nextCombatStep")>> \o Rest
    BY <2>1, FewCalls DEF Puts
  <2>2. CASE calls' = <<Do("forward"), Skip(phase), Do("enterPhase")>> \o Rest
    <3>1. PICK s \in Seq(Call), t \in Seq(Call), u \in Seq(Call) :
            /\ s = <<Do("forward")>> /\ t = <<Skip(phase)>> /\ u = <<Do("enterPhase")>>
            /\ ~ Acts(s) /\ ~ Acts(t) /\ ~ Acts(u)
      <4>1. Skip(phase) \in Call /\ Skip(phase).op # "phaseActions"
        BY <1>1, CallFacts
      <4>2. <<Skip(phase)>> \in Seq(Call) /\ ~ Acts(<<Skip(phase)>>)
        BY <4>1, One, ActsFacts
      <4> QED BY <4>2, FewCalls
    <3>2. <<Do("forward"), Skip(phase), Do("enterPhase")>> = s \o (t \o u)
      BY <3>1, Pair, Triple
    <3>3. PICK v \in Seq(Call) : v = t \o u /\ ~ Acts(v)
      BY <3>1, MoreCalls
    <3>4. s \o v \in Seq(Call) /\ ~ Acts(s \o v)
      BY <3>1, <3>3, MoreCalls
    <3> QED BY <2>2, <3>2, <3>3, <3>4 DEF Puts
  <2> QED BY <1>6, <2>1, <2>2 DEF NextGamePhase, Then, Skip
<1>7. CASE Forward
  BY <1>2, <1>7 DEF Forward
<1>8. CASE SkipCombat
  <2>1. CASE calls' = <<>> \o Rest
    BY <2>1, FewCalls DEF Puts
  <2>2. CASE calls' = <<Do("forward"), Do("forward")>> \o Rest
    <3>1. PICK s \in Seq(Call) : s = <<Do("forward")>> /\ ~ Acts(s)
      BY FewCalls
    <3>2. <<Do("forward"), Do("forward")>> = s \o s
      BY <3>1, Pair
    <3> QED BY <2>2, <3>1, <3>2, MoreCalls DEF Puts
  <2> QED BY <1>8, <2>1, <2>2 DEF SkipCombat, Then
<1>9. CASE NextCombatStep
  <2>1. CASE \E es : Raise(es, <<Do("triggersStep")>> \o Rest)
    <3>1. PICK t \in Seq(Call) : t = <<Do("triggersStep")>> /\ ~ Acts(t)
      BY FewCalls
    <3>2. PICK s \in Seq(Call) : ~ Acts(s) /\ calls' = s \o (t \o Rest)
      <4>1. calls' = <<Do("drain")>> \o (t \o Rest) \/ calls' = <<>> \o (t \o Rest)
        BY <2>1, <3>1 DEF Raise
      <4> QED BY <4>1, FewCalls
    <3>3. calls' = (s \o t) \o Rest
      BY <1>1, <3>2, ConcatAssociative, SMTT(60)
    <3> QED BY <3>1, <3>2, <3>3, MoreCalls DEF Puts
  <2>2. CASE \E es : Raise(es, Rest)
    BY <1>2, <2>2
  <2>3. CASE calls' = <<>> \o Rest
    BY <2>3, FewCalls DEF Puts
  <2> QED BY <1>9, <2>1, <2>2, <2>3 DEF NextCombatStep, Then
<1>10. CASE TriggersStep
  BY <1>2, <1>10 DEF TriggersStep
<1>11. CASE Pop
  <2>1. calls' = <<Do("drain")>> \o Rest \/ calls' = <<>> \o Rest
    BY <1>11 DEF Pop
  <2> QED BY <2>1, FewCalls DEF Puts
<1>12. CASE OnChosen \/ OnAttackerOn \/ OnAttackerOff \/ OnBlocker \/ OnZoneChange
            \/ OnPhaseChange \/ OnDamageStackResolved
  BY <1>4, <1>12 DEF OnChosen, OnAttackerOn, OnAttackerOff, OnBlocker, OnZoneChange, OnPhaseChange,
     OnDamageStackResolved
<1>13. CASE OnCombatStepChange
  <2>1. \/ Delivered(<<>>)
        \/ Delivered(<<Do("nextGamePhase")>>)
        \/ Delivered(<<Do("nextCombatStep")>>)
    <3>1. CASE OnTriggers
      BY <3>1 DEF OnTriggers
    <3>2. CASE OnOrder
      BY <3>2 DEF OnOrder
    <3>3. CASE OnFirstStrike \/ OnDamage
      BY <3>3 DEF OnFirstStrike, OnDamage, AssignDamage
    <3>4. CASE OnEndFirstStrike \/ OnEndDamage
      BY <3>4 DEF OnEndFirstStrike, OnEndDamage, ResolveDamage
    <3> QED BY <1>13, <3>1, <3>2, <3>3, <3>4 DEF OnCombatStepChange
  <2> QED BY <1>4, <1>5, <2>1
<1> QED
  BY <1>6, <1>7, <1>8, <1>9, <1>10, <1>11, <1>12, <1>13

(* Every other action of the engine leaves the turn where it is.           *)
LEMMA EngineRefines ==
  ASSUME IInv,
         \/ NextGamePhase \/ Forward \/ SkipCombat \/ NextCombatStep \/ TriggersStep \/ Pop
         \/ OnChosen \/ OnAttackerOn \/ OnAttackerOff \/ OnBlocker \/ OnZoneChange
         \/ OnPhaseChange \/ OnCombatStepChange \/ OnDamageStackResolved
  PROVE  UNCHANGED Turns!vars
<1>1. /\ calls # <<>> /\ Head(calls).op # "phaseActions"
      /\ UNCHANGED <<currentGamePhase, currentPlayer, extraTurn, skippingTurn>>
  BY DEF NextGamePhase, Forward, SkipCombat, NextCombatStep, TriggersStep, Pop, OnChosen, OnAttackerOn,
     OnAttackerOff, OnBlocker, OnZoneChange, OnPhaseChange, OnCombatStepChange, OnDamageStackResolved,
     OnTriggers, OnOrder, OnFirstStrike, OnDamage, OnEndFirstStrike, OnEndDamage, Stepping,
     Delivering, Return, turnVars
<1>2. PICK C : Puts(C)
  BY <1>1, EnginePuts DEF IInv
<1>3. Acts(calls') <=> Acts(calls)
  BY <1>1, <1>2, ActsOn DEF Puts, IInv
<1>4. Passed' = Passed
  BY <1>1, <1>3 DEF Passed, Acts
<1> QED
  BY <1>1, <1>4 DEF Turns!vars

(* What comes from outside gives turns, and never while one is passed on.  *)
LEMMA EnvironmentRefines ==
  ASSUME IInv, Environment
  PROVE  [Turns!Next]_(Turns!vars)
<1>1. Idle /\ UNCHANGED <<currentGamePhase, currentPlayer>>
  BY DEF Environment, Request, MoveCursor, ClickOK, ToggleAttacker, RemoveFromCombat, LeavePlay,
     EnterPlay, ToggleBlocker, ModTurn, Affect, MayResolve, turnVars
<1>2. currentGamePhase # AFTER_EOT
  BY <1>1, PassedFacts DEF IInv
<1>3. Passed' = Passed
  BY <1>1, <1>2 DEF Passed
<1>4. CASE UNCHANGED <<extraTurn, skippingTurn>>
  BY <1>1, <1>3, <1>4 DEF Turns!vars
<1>5. ASSUME NEW p \in Players, ModTurn(p)
      PROVE  Turns!Next
  <2>1. /\ currentGamePhase # 13 /\ p \in 0..1
        /\ \/ extraTurn' = [extraTurn EXCEPT ![p] = @ + 1] /\ UNCHANGED skippingTurn
           \/ skippingTurn' = [skippingTurn EXCEPT ![p] = @ + 1] /\ UNCHANGED extraTurn
    BY <1>2, <1>5 DEF ModTurn, AFTER_EOT, Players
  <2> QED BY <1>1, <1>3, <2>1 DEF Turns!Next, Turns!ModTurn, Turns!LastPhase, Turns!Players
<1> QED
  BY <1>4, <1>5 DEF Environment, Request, MoveCursor, ClickOK, ToggleAttacker, RemoveFromCombat, LeavePlay,
     EnterPlay, ToggleBlocker, Affect, turnVars

(* Phases and turns succeed one another as TurnOrder promises, whatever    *)
(* the combat, the listeners and the players do.                           *)
THEOREM TurnsAreInOrder == Spec => TurnsInOrder
<1>1. Init => Turns!Init
  <2> SUFFICES ASSUME Init
               PROVE  Turns!Init
    OBVIOUS
  <2>1. Passed = FALSE
    BY GameAssumption DEF Init, Passed, UNTAP, CLEANUP, AFTER_EOT
  <2> QED BY <2>1 DEF Init, Turns!Init, Turns!Players, Players
<1>2. IInv /\ [Next]_vars => [Turns!Next]_(Turns!vars)
  <2> SUFFICES ASSUME IInv, [Next]_vars
               PROVE  [Turns!Next]_(Turns!vars)
    OBVIOUS
  <2>1. CASE UNCHANGED vars
    BY <2>1 DEF vars, turnVars, Turns!vars, Passed
  <2> QED
    BY <2>1, EnterRefines, ActionsRefine, EngineRefines, EnvironmentRefines DEF Next, Engine
<1> QED
  BY <1>1, <1>2, Invariant, PTL DEF Spec, TurnsInOrder, Turns!Spec

-----------------------------------------------------------------------------
(***************************************************************************)
(* What is proved of the cards and the views of a combat, for any          *)
(* creatures, owners, bounds and starting phase: the lists the cards keep  *)
(* agree with the blockers' own pointers, GuiCombat's views show the       *)
(* attackers and the blockers there really are, and an attacker that was   *)
(* blocked stays blocked when its blockers die of the combat damage.       *)
(*                                                                         *)
(* The views are kept from events delivered late, so what is inductive is  *)
(* stated relative to the events W that wait: a view is right unless one   *)
(* of W is about to change it, and each of W still tells the truth about   *)
(* its creature.                                                           *)
(***************************************************************************)

(* The events of a sequence.                                               *)

(* Those of two sequences put together.                                    *)
LEMMA SetOfConcat ==
  ASSUME NEW S, NEW s \in Seq(S), NEW t \in Seq(S)
  PROVE  ToSet(s \o t) = ToSet(s) \cup ToSet(t)
<1>1. /\ s \o t \in Seq(S) /\ Len(s \o t) = Len(s) + Len(t)
      /\ \A i \in 1..(Len(s) + Len(t)) : (s \o t)[i] = IF i <= Len(s) THEN s[i] ELSE t[i - Len(s)]
  BY ConcatProperties
<1>2. Len(s) \in Nat /\ Len(t) \in Nat
  BY LenProperties
<1>3. DOMAIN s = 1..Len(s) /\ DOMAIN t = 1..Len(t) /\ DOMAIN (s \o t) = 1..(Len(s) + Len(t))
  BY <1>1, LenProperties
<1>4. ASSUME NEW i \in DOMAIN (s \o t)
      PROVE  (s \o t)[i] \in ToSet(s) \cup ToSet(t)
  <2>1. CASE i <= Len(s)
    <3>1. i \in DOMAIN s /\ (s \o t)[i] = s[i]
      BY <1>1, <1>2, <1>3, <2>1
    <3> QED BY <3>1 DEF ToSet
  <2>2. CASE ~ (i <= Len(s))
    <3>1. i - Len(s) \in DOMAIN t /\ (s \o t)[i] = t[i - Len(s)]
      BY <1>1, <1>2, <1>3, <2>2
    <3> QED BY <3>1 DEF ToSet
  <2> QED BY <2>1, <2>2
<1>5. ASSUME NEW i \in DOMAIN s
      PROVE  s[i] \in ToSet(s \o t)
  <2>1. i \in DOMAIN (s \o t) /\ (s \o t)[i] = s[i]
    BY <1>1, <1>2, <1>3
  <2> QED BY <2>1 DEF ToSet
<1>6. ASSUME NEW i \in DOMAIN t
      PROVE  t[i] \in ToSet(s \o t)
  <2>1. PICK j \in Int : j = i + Len(s)
    BY <1>2, <1>3
  <2>2. j \in DOMAIN (s \o t) /\ ~ (j <= Len(s)) /\ j - Len(s) = i
    BY <1>2, <1>3, <2>1
  <2>3. (s \o t)[j] = t[i]
    BY <1>1, <1>3, <2>2
  <2> QED BY <2>2, <2>3 DEF ToSet
<1> QED
  BY <1>4, <1>5, <1>6 DEF ToSet

(* None, and one.                                                          *)
LEMMA SetOfOne ==
  /\ ToSet(<<>>) = {}
  /\ \A e : ToSet(<<e>>) = {e}
<1>1. ToSet(<<>>) = {}
  BY DEF ToSet
<1>2. ASSUME NEW e
      PROVE  ToSet(<<e>>) = {e}
  <2>1. DOMAIN <<e>> = {1} /\ <<e>>[1] = e
    BY SMT
  <2> QED BY <2>1 DEF ToSet
<1> QED
  BY <1>1, <1>2

(* The front one and the others.                                           *)
LEMMA SetOfRest ==
  ASSUME NEW S, NEW s \in Seq(S), s # <<>>
  PROVE  /\ Head(s) \in S /\ Tail(s) \in Seq(S)
         /\ ToSet(s) = {Head(s)} \cup ToSet(Tail(s))
<1>1. Head(s) \in S /\ Tail(s) \in Seq(S) /\ s = <<Head(s)>> \o Tail(s)
  BY EmptySeq, Concat
<1>2. PICK h \in Seq(S) : h = <<Head(s)>>
  BY <1>1, One
<1>3. ToSet(s) = ToSet(h) \cup ToSet(Tail(s))
  BY <1>1, <1>2, SetOfConcat
<1> QED
  BY <1>1, <1>2, <1>3, SetOfOne

(* They are events, and none of none.                                      *)
LEMMA SetOfSeq ==
  ASSUME NEW S, NEW s \in Seq(S)
  PROVE  ToSet(s) \subseteq S
BY DEF ToSet

(* A finite set of events put in an order has the events it was made of.   *)
LEMMA SetOfEvents ==
  ASSUME NEW S, IsFiniteSet(S)
  PROVE  /\ ToSet(Events(S)) = S
         /\ Events(S) = <<>> <=> S = {}
<1>1. PICK n \in Nat : n = Cardinality(S) /\ ExistsBijection(1..n, S)
  BY FS_CardinalityType
<1>2. PICK f \in [1..n -> S] : IsInjective(f)
  BY <1>1 DEF ExistsBijection, Bijection, Injection
<1>3. Events(S) \in [1..n -> S] /\ IsInjective(Events(S))
  BY <1>1, <1>2 DEF Events, SetToSeq
<1>4. PICK g : g = Events(S)
  OBVIOUS
<1>5. g \in Injection(1..n, S)
  BY <1>3, <1>4 DEF Injection
<1>6. Cardinality(1..n) = n
  BY FS_Interval
<1>7. g \in Surjection(1..n, S)
  <2>1. PICK m : m = 1..n
    OBVIOUS
  <2>2. g \in Injection(m, S) /\ Cardinality(m) = Cardinality(S)
    BY <1>1, <1>5, <1>6, <2>1
  <2>3. g \in Surjection(m, S)
    BY <2>2, FS_Injection
  <2> QED BY <2>1, <2>3
<1>8. ToSet(g) = S
  BY <1>3, <1>4, <1>7 DEF ToSet, Surjection
<1>9. g = <<>> <=> S = {}
  <2>1. g = <<>> => S = {}
    BY <1>8, SetOfOne
  <2>2. S = {} => n = 0
    BY <1>1, FS_EmptySet
  <2>3. n = 0 => g = <<>>
    BY <1>3, <1>4
  <2> QED BY <2>1, <2>2, <2>3
<1> QED
  BY <1>4, <1>8, <1>9

-----------------------------------------------------------------------------
(* The cards, the views and the queue.                                    *)

(* The creatures that fight and who faces an attacker.                     *)
Fighting  == inPlay \cap attacker
Facing(a) == {b \in inPlay : defenser[b] = a}

(* The events no listener has been handed yet.                             *)
Pending ==
  IF eventsQueue = <<>> THEN <<>>
  ELSE IF Return("drain") THEN eventsQueue ELSE Tail(eventsQueue)
Waiting == ToSet(Pending)

(* Of those, the ones about a creature; e touches c when it puts c among   *)
(* the views of attackers or takes it off, and moves b when it puts b      *)
(* among the blockers of one or takes it off.                              *)
CardTypes == {"AttackerOn", "AttackerOff", "Blocker", "ZoneChange"}
Touches(e, c) == e.type \in {"AttackerOn", "AttackerOff", "ZoneChange"} /\ e.card = c
Moves(e, b)   == e.type \in {"Blocker", "ZoneChange"} /\ e.card = b

(* Fresh: since the turn began nobody has blocked; Turn: the attackers are *)
(* those of the current turn.                                              *)
Opened == currentGamePhase = BEFORE_BEGIN /\ ~ Acts(calls)
Fresh  == currentGamePhase \in UNTAP..COMBATATTACKERS \/ Opened
Turn   == currentGamePhase \in UNTAP..CLEANUP \/ Opened

(* The flags of the cards.                                                 *)
OutOfPlay  == \A c \in Creature \ inPlay : defenser[c] = NoCard /\ blockers[c] = {}
FreshClear == Fresh => \A c \in Creature : defenser[c] = NoCard /\ blockers[c] = {}
OwnAttack  == Turn => \A c \in attacker : Owner[c] = currentPlayer
NoneBlocks == \A c \in attacker : defenser[c] = NoCard
CardsSound == OutOfPlay /\ FreshClear /\ OwnAttack /\ NoneBlocks /\ ListsAgree

(* The views of GuiCombat, while the events W wait.                        *)
ViewSound(W) ==
  \A c \in Creature : (\A e \in W : ~ Touches(e, c)) => (c \in view <=> c \in Fighting)
TouchSound(W) ==
  \A e \in W :
    /\ e.type = "AttackerOn" => e.card \in Fighting /\ currentGamePhase = COMBATATTACKERS
    /\ e.type \in {"AttackerOff", "ZoneChange"} => e.card \notin Fighting
    /\ e.type = "ZoneChange" => e.card \notin inPlay
MoveSound(W) ==
  \A e \in W : e.type = "Blocker" =>
    /\ defenser[e.card] = e.after /\ e.before # e.after
    /\ \A a \in view : e.card \in viewBlk[a] => a = e.before
    /\ e.after # NoCard => e.after \in view \cap Fighting /\ e.card \in inPlay \ view
FaceSound(W) ==
  \A a \in view \cap Fighting : \A b \in Creature :
    (\A e \in W : ~ Moves(e, b)) => (b \in viewBlk[a] <=> b \in Facing(a))
OneFaced   == \A b \in Creature : \A x, y \in view : b \in viewBlk[x] /\ b \in viewBlk[y] => x = y
ViewsApart == \A a \in view : viewBlk[a] \cap view = {}
ViewsFresh == currentGamePhase = COMBATATTACKERS => \A a \in view : viewBlk[a] = {}
Views(W) ==
  /\ ViewSound(W) /\ TouchSound(W) /\ MoveSound(W) /\ FaceSound(W)
  /\ OneFaced /\ ViewsApart /\ ViewsFresh

(* The events that are handled alone, since their listeners raise others   *)
(* or the cards they are about change once more.                           *)
Lone(e) ==
  \/ e.type = "DamageStackResolved"
  \/ e.type = "PhaseChange" /\ e.from = COMBATATTACKERS
  \/ e.type = "Blocker" /\ e.after # NoCard
LoneSound    == \A e \in Waiting : Lone(e) => Len(Pending) = 1
LeavesAttack ==
  \A e \in Waiting :
    e.type = "PhaseChange" /\ e.from = COMBATATTACKERS => currentGamePhase = COMBATATTACKERS
HitsAttack ==
  \A e \in Waiting :
    e.type = "DamageStackResolved" /\ currentGamePhase = COMBATBLOCKERS =>
      \A c \in e.hit : defenser[c] = NoCard
BlocksEarly ==
  \A e \in Waiting : e.type = "Blocker" /\ e.after # NoCard => combatStep = "BLOCKERS"
QueueFits == LoneSound /\ LeavesAttack /\ HitsAttack /\ BlocksEarly

(* First strike damage is dealt in the blockers phase only when no         *)
(* attacker strikes first.                                                 *)
NoFirst ==
  /\ phase = COMBATBLOCKERS
  /\ \/ combatStep = "END_FIRST_STRIKE"
     \/ combatStep = "FIRST_STRIKE" /\ Return("nextCombatStep")
  => \A a \in view : Strike[a] = "normal"

-----------------------------------------------------------------------------
(* The cards.                                                              *)

(* They stay as they are when nothing touches them.                        *)
LEMMA SameCards ==
  ASSUME CardsSound, UNCHANGED cardVars, Fresh' => Fresh,
         Turn' => Turn /\ currentPlayer' = currentPlayer
  PROVE  CardsSound'
<1>1. /\ inPlay' = inPlay /\ attacker' = attacker /\ defenser' = defenser
      /\ blockers' = blockers /\ blocked' = blocked
  BY DEF cardVars
<1>2. OutOfPlay' /\ NoneBlocks' /\ ListsAgree'
  BY <1>1 DEF CardsSound, OutOfPlay, NoneBlocks, ListsAgree
<1>3. FreshClear'
  BY <1>1 DEF CardsSound, FreshClear
<1>4. OwnAttack'
  BY <1>1 DEF CardsSound, OwnAttack
<1> QED
  BY <1>2, <1>3, <1>4 DEF CardsSound

(* What initAttackersDefensers() and the departures leave of each card.    *)
LEMMA LeaveFacts ==
  ASSUME TypeOK, NEW C \in SUBSET Creature, NEW D \in SUBSET Creature, LeaveCombat(C, D)
  PROVE  /\ inPlay' = inPlay \ D /\ attacker' = attacker \ (C \cup D)
         /\ \A b \in Creature : defenser'[b] = IF b \in C \cup D THEN NoCard ELSE defenser[b]
         /\ \A a \in Creature : blockers'[a] \subseteq blockers[a]
         /\ \A a \in C \cup D : blockers'[a] = {}
         /\ \A a \in inPlay \ (C \cup D) : blockers'[a] = blockers[a] \ {b \in C : defenser[b] = a}
         /\ \A a \in blocked \ (C \cup D) : blockers'[a] # {} => a \in blocked'
BY DEF LeaveCombat, Freed, TypeOK

(* Creatures that leave the combat, or leave play, keep the cards sound.   *)
LEMMA LeavesSound ==
  ASSUME TypeOK, AttackersInPlay, CardsSound,
         NEW C \in SUBSET inPlay, NEW D \in SUBSET inPlay, LeaveCombat(C, D),
         C = inPlay \/ /\ Fresh' => Fresh
                       /\ Turn' => Turn /\ currentPlayer' = currentPlayer
  PROVE  CardsSound'
<1>0. /\ inPlay \subseteq Creature /\ attacker \subseteq Creature /\ NoCard \notin Creature
      /\ C \subseteq Creature /\ D \subseteq Creature
  BY CreatureAssumption DEF TypeOK
<1>1. /\ inPlay' = inPlay \ D /\ attacker' = attacker \ (C \cup D)
      /\ \A b \in Creature : defenser'[b] = IF b \in C \cup D THEN NoCard ELSE defenser[b]
      /\ \A a \in Creature : blockers'[a] \subseteq blockers[a]
      /\ \A a \in C \cup D : blockers'[a] = {}
      /\ \A a \in inPlay \ (C \cup D) : blockers'[a] = blockers[a] \ {b \in C : defenser[b] = a}
      /\ \A a \in blocked \ (C \cup D) : blockers'[a] # {} => a \in blocked'
  BY <1>0, LeaveFacts, ZenonT(60)
<1>2. OutOfPlay'
  BY <1>0, <1>1 DEF CardsSound, OutOfPlay
<1>3. C = inPlay => \A c \in Creature : defenser'[c] = NoCard /\ blockers'[c] = {}
  BY <1>0, <1>1 DEF CardsSound, OutOfPlay
<1>4. FreshClear'
  <2>1. CASE C = inPlay
    BY <1>3, <2>1 DEF FreshClear
  <2>2. CASE Fresh' => Fresh
    BY <1>0, <1>1, <2>2 DEF CardsSound, FreshClear
  <2> QED BY <2>1, <2>2
<1>5. OwnAttack'
  <2>1. CASE C = inPlay
    BY <1>1, <2>1 DEF OwnAttack, AttackersInPlay
  <2>2. CASE Turn' => Turn /\ currentPlayer' = currentPlayer
    BY <1>1, <2>2 DEF CardsSound, OwnAttack
  <2> QED BY <2>1, <2>2
<1>6. NoneBlocks'
  BY <1>0, <1>1 DEF CardsSound, NoneBlocks
<1>7. ListsAgree'
  <2> SUFFICES ASSUME NEW a \in inPlay' \cap attacker'
               PROVE  /\ {b \in inPlay' : defenser'[b] = a} = blockers'[a] \cap inPlay'
                      /\ blockers'[a] # {} => a \in blocked'
    BY DEF ListsAgree
  <2>1. a \in inPlay \cap attacker /\ a \notin C \cup D /\ a \in Creature /\ a # NoCard
    BY <1>0, <1>1
  <2>2. /\ {b \in inPlay : defenser[b] = a} = blockers[a] \cap inPlay
        /\ blockers[a] # {} => a \in blocked
    BY <2>1 DEF CardsSound, ListsAgree
  <2>3. blockers'[a] = blockers[a] \ {b \in C : defenser[b] = a}
    BY <1>1, <2>1
  <2>4. \A b \in inPlay \ D : defenser'[b] = a <=> defenser[b] = a /\ b \notin C
    BY <1>0, <1>1, <2>1
  <2>5. {b \in inPlay' : defenser'[b] = a} = blockers'[a] \cap inPlay'
    BY <1>1, <2>2, <2>3, <2>4
  <2>6. blockers'[a] # {} => a \in blocked'
    BY <1>1, <2>1, <2>2, <2>3
  <2> QED BY <2>5, <2>6
<1> QED
  BY <1>2, <1>4, <1>5, <1>6, <1>7 DEF CardsSound

(* A creature that attacks or no longer does, in the attackers phase.      *)
LEMMA ToggleAttackerSound ==
  ASSUME TypeOK, CardsSound, currentGamePhase = COMBATATTACKERS,
         UNCHANGED <<currentGamePhase, currentPlayer, inPlay, defenser, blockers, blocked>>,
         \A c \in attacker' \ attacker : c \in Creature /\ Owner[c] = currentPlayer
  PROVE  CardsSound'
<1>1. /\ Fresh /\ Turn
      /\ \A c \in Creature : defenser[c] = NoCard /\ blockers[c] = {}
  BY DEF Fresh, Turn, CardsSound, FreshClear, COMBATATTACKERS, UNTAP, CLEANUP
<1>2. attacker \subseteq Creature /\ attacker' \subseteq Creature /\ NoCard \notin Creature
      /\ inPlay \subseteq Creature
  BY CreatureAssumption DEF TypeOK
<1>3. OutOfPlay' /\ FreshClear' /\ NoneBlocks'
  BY <1>1, <1>2 DEF OutOfPlay, FreshClear, NoneBlocks
<1>4. OwnAttack'
  BY <1>1 DEF CardsSound, OwnAttack
<1>5. ListsAgree'
  BY <1>1, <1>2 DEF ListsAgree
<1> QED
  BY <1>3, <1>4, <1>5 DEF CardsSound

(* A blocker chosen, or taken back, in the blockers phase.                 *)
LEMMA ToggleBlockerSound ==
  ASSUME TypeOK, AttackersInPlay, CardsSound, NEW b \in Creature, NEW a \in Creature \cup {NoCard},
         ToggleBlocker(b, a)
  PROVE  CardsSound'
<1> DEFINE old == defenser[b]
<1>1. /\ currentGamePhase = COMBATBLOCKERS /\ currentGamePhase' = currentGamePhase
      /\ currentPlayer' = currentPlayer /\ inPlay' = inPlay /\ attacker' = attacker
      /\ b \in inPlay /\ Owner[b] # currentPlayer /\ old # a
      /\ a \in (inPlay \cap attacker) \cup {NoCard}
  BY DEF ToggleBlocker, turnVars
<1>2. /\ defenser' = [defenser EXCEPT ![b] = a]
      /\ blockers' = [c \in Creature |->
                         IF c = a THEN blockers[c] \cup {b}
                         ELSE IF c = old /\ c \in inPlay THEN blockers[c] \ {b} ELSE blockers[c]]
      /\ blocked' = (blocked \ (IF old \in inPlay /\ blockers[old] = {b} THEN {old} ELSE {}))
                       \cup ({a} \ {NoCard})
  BY DEF ToggleBlocker
<1>3. /\ inPlay \subseteq Creature /\ attacker \subseteq inPlay /\ NoCard \notin Creature
      /\ defenser \in [Creature -> Creature \cup {NoCard}] /\ blockers \in [Creature -> SUBSET Creature]
      /\ old \in Creature \cup {NoCard}
  BY CreatureAssumption DEF TypeOK, AttackersInPlay
<1>4. Turn /\ Turn' /\ ~ Fresh' /\ b \notin attacker
  BY <1>1 DEF Turn, Fresh, Opened, CardsSound, OwnAttack, COMBATBLOCKERS, COMBATATTACKERS, UNTAP, CLEANUP,
     BEFORE_BEGIN
<1> HIDE DEF old
<1>5. \A c \in Creature : defenser'[c] = IF c = b THEN a ELSE defenser[c]
  BY <1>2, <1>3
<1>6. OutOfPlay'
  BY <1>1, <1>2, <1>3, <1>5 DEF CardsSound, OutOfPlay
<1>7. FreshClear' /\ OwnAttack'
  BY <1>1, <1>4 DEF CardsSound, FreshClear, OwnAttack
<1>8. NoneBlocks'
  BY <1>1, <1>3, <1>4, <1>5 DEF CardsSound, NoneBlocks
<1>9. ListsAgree'
  <2> SUFFICES ASSUME NEW x \in inPlay \cap attacker
               PROVE  /\ {c \in inPlay : defenser'[c] = x} = blockers'[x] \cap inPlay
                      /\ blockers'[x] # {} => x \in blocked'
    BY <1>1 DEF ListsAgree
  <2>1. /\ {c \in inPlay : defenser[c] = x} = blockers[x] \cap inPlay
        /\ blockers[x] # {} => x \in blocked
        /\ x \in Creature /\ x # NoCard
    BY <1>3 DEF CardsSound, ListsAgree
  <2>2. defenser[b] = old
    BY DEF old
  <2>3. CASE x = a
    <3>1. blockers'[x] = blockers[x] \cup {b} /\ x \in blocked'
      BY <1>2, <2>1, <2>3
    <3>2. {c \in inPlay : defenser'[c] = x} = {c \in inPlay : defenser[c] = x} \cup {b}
      BY <1>1, <1>3, <1>5, <2>3
    <3> QED BY <1>1, <2>1, <3>1, <3>2
  <2>4. CASE x # a /\ x = old
    <3>1. blockers'[x] = blockers[x] \ {b}
      BY <1>2, <2>1, <2>4
    <3>2. {c \in inPlay : defenser'[c] = x} = {c \in inPlay : defenser[c] = x} \ {b}
      BY <1>1, <1>3, <1>5, <2>4
    <3>3. blockers'[x] # {} => x \in blocked'
      BY <1>2, <2>1, <2>4, <3>1
    <3> QED BY <2>1, <3>1, <3>2, <3>3
  <2>5. CASE x # a /\ x # old
    <3>1. blockers'[x] = blockers[x]
      BY <1>2, <2>1, <2>5
    <3>2. {c \in inPlay : defenser'[c] = x} = {c \in inPlay : defenser[c] = x}
      BY <1>1, <1>3, <1>5, <2>2, <2>5
    <3>3. x \in blocked => x \in blocked'
      BY <1>2, <2>5
    <3> QED BY <2>1, <3>1, <3>2, <3>3
  <2> QED BY <2>3, <2>4, <2>5
<1> QED
  BY <1>6, <1>7, <1>8, <1>9 DEF CardsSound

(* A creature that enters play.                                            *)
LEMMA EnterPlaySound ==
  ASSUME TypeOK, AttackersInPlay, CardsSound, NEW c \in Creature, EnterPlay(c)
  PROVE  CardsSound'
<1>1. /\ inPlay' = inPlay \cup {c} /\ c \notin inPlay
      /\ \A d \in Creature : defenser[d] # c /\ c \notin blockers[d]
      /\ attacker' = attacker /\ defenser' = defenser /\ blockers' = blockers /\ blocked' = blocked
      /\ calls' = calls /\ currentGamePhase' = currentGamePhase /\ currentPlayer' = currentPlayer
  BY DEF EnterPlay, turnVars
<1>2. attacker \subseteq inPlay /\ inPlay \subseteq Creature /\ NoCard \notin Creature /\ defenser[c] = NoCard
  BY <1>1, CreatureAssumption DEF AttackersInPlay, TypeOK, CardsSound, OutOfPlay
<1>3. (Fresh' <=> Fresh) /\ (Turn' <=> Turn)
  BY <1>1 DEF Fresh, Turn, Opened
<1>4. OutOfPlay' /\ FreshClear' /\ OwnAttack' /\ NoneBlocks'
  BY <1>1, <1>3 DEF CardsSound, OutOfPlay, FreshClear, OwnAttack, NoneBlocks
<1>5. ListsAgree'
  <2> SUFFICES ASSUME NEW a \in inPlay \cap attacker
               PROVE  /\ {b \in inPlay \cup {c} : defenser[b] = a} = blockers[a] \cap (inPlay \cup {c})
                      /\ blockers[a] # {} => a \in blocked
    BY <1>1, <1>2 DEF ListsAgree
  <2>1. /\ {b \in inPlay : defenser[b] = a} = blockers[a] \cap inPlay
        /\ blockers[a] # {} => a \in blocked
    BY DEF CardsSound, ListsAgree
  <2>2. defenser[c] # a /\ c \notin blockers[a]
    BY <1>1, <1>2
  <2> QED BY <2>1, <2>2
<1> QED
  BY <1>4, <1>5 DEF CardsSound

-----------------------------------------------------------------------------
(* The views, while the events W wait.                                     *)

(* Only the events about creatures matter to them.                         *)
LEMMA ViewsByCards ==
  ASSUME NEW W, NEW V, Views(W),
         \A e \in V : e.type \in CardTypes => e \in W,
         \A e \in W : e.type \in CardTypes => e \in V
  PROVE  Views(V)
<1>1. /\ \A e, c : Touches(e, c) => e.type \in CardTypes
      /\ \A e, c : Moves(e, c) => e.type \in CardTypes
  BY DEF Touches, Moves, CardTypes
<1>2. ViewSound(V)
  BY <1>1 DEF Views, ViewSound
<1>3. TouchSound(V)
  BY DEF Views, TouchSound, CardTypes
<1>4. MoveSound(V)
  BY DEF Views, MoveSound, CardTypes
<1>5. FaceSound(V)
  BY <1>1 DEF Views, FaceSound
<1> QED
  BY <1>2, <1>3, <1>4, <1>5 DEF Views

(* They stay as they are when nothing touches them.                        *)
LEMMA SameViews ==
  ASSUME NEW W, Views(W), currentGamePhase' = currentGamePhase, inPlay' = inPlay,
         attacker' = attacker, defenser' = defenser, view' = view, viewBlk' = viewBlk
  PROVE  Views(W)'
<1>1. Fighting' = Fighting /\ \A a : Facing(a)' = Facing(a)
  BY DEF Fighting, Facing
<1>2. ViewSound(W)' /\ TouchSound(W)'
  BY <1>1 DEF Views, ViewSound, TouchSound
<1>3. MoveSound(W)'
  BY <1>1 DEF Views, MoveSound
<1>4. FaceSound(W)'
  BY <1>1 DEF Views, FaceSound
<1>5. OneFaced' /\ ViewsApart' /\ ViewsFresh'
  BY DEF Views, OneFaced, ViewsApart, ViewsFresh
<1> QED
  BY <1>2, <1>3, <1>4, <1>5 DEF Views

(* When no event about a creature waits, they show what there is.          *)
LEMMA ViewsSettled ==
  ASSUME TypeOK, NEW W, Views(W), \A e \in W : e.type \notin CardTypes
  PROVE  /\ view = Fighting
         /\ \A a \in view : viewBlk[a] = Facing(a)
<1>1. \A e \in W : \A c : ~ Touches(e, c) /\ ~ Moves(e, c)
  BY DEF Touches, Moves, CardTypes
<1>2. view \subseteq Creature /\ Fighting \subseteq Creature
  BY DEF TypeOK, Fighting
<1>3. view = Fighting
  <2>1. \A c \in Creature : c \in view <=> c \in Fighting
    BY <1>1 DEF Views, ViewSound
  <2> QED BY <1>2, <2>1
<1>4. ASSUME NEW a \in view
      PROVE  viewBlk[a] = Facing(a)
  <2>1. viewBlk[a] \subseteq Creature /\ Facing(a) \subseteq Creature
    BY <1>2 DEF TypeOK, Facing
  <2>2. \A b \in Creature : b \in viewBlk[a] <=> b \in Facing(a)
    BY <1>1, <1>3 DEF Views, FaceSound
  <2> QED BY <2>1, <2>2
<1> QED
  BY <1>3, <1>4

(* A new phase begins while no event about a creature waits.               *)
LEMMA EnterViews ==
  ASSUME TypeOK, NEW W, Views(W), \A e \in W : e.type \notin CardTypes,
         currentGamePhase' = COMBATATTACKERS => FreshClear /\ Fresh,
         inPlay' = inPlay, attacker' = attacker, defenser' = defenser,
         view' = view, viewBlk' = viewBlk
  PROVE  Views(W)'
<1>1. view = Fighting /\ \A a \in view : viewBlk[a] = Facing(a)
  BY ViewsSettled
<1>2. Fighting' = Fighting /\ \A a : Facing(a)' = Facing(a)
  BY DEF Fighting, Facing
<1>3. ViewSound(W)'
  BY <1>2 DEF Views, ViewSound
<1>4. TouchSound(W)' /\ MoveSound(W)'
  BY DEF TouchSound, MoveSound, CardTypes
<1>5. FaceSound(W)'
  BY <1>2 DEF Views, FaceSound
<1>6. OneFaced' /\ ViewsApart'
  BY DEF Views, OneFaced, ViewsApart
<1>7. ViewsFresh'
  <2> SUFFICES ASSUME currentGamePhase' = COMBATATTACKERS, NEW a \in view
               PROVE  viewBlk[a] = {}
    BY DEF ViewsFresh
  <2>1. a \in Creature /\ inPlay \subseteq Creature /\ NoCard \notin Creature
    BY CreatureAssumption DEF TypeOK
  <2>2. \A b \in Creature : defenser[b] = NoCard
    BY DEF FreshClear
  <2>3. Facing(a) = {}
    BY <2>1, <2>2 DEF Facing
  <2> QED BY <1>1, <2>3
<1> QED
  BY <1>3, <1>4, <1>5, <1>6, <1>7 DEF Views

(* Creatures leave the combat, or leave play: the events that say so wait. *)
LEMMA LeaveViews ==
  ASSUME TypeOK, NEW W, Views(W), \A e \in W : e.type \notin CardTypes,
         NEW C \in SUBSET inPlay, NEW D \in SUBSET inPlay, LeaveCombat(C, D),
         currentGamePhase' = currentGamePhase, view' = view, viewBlk' = viewBlk,
         NEW E, E = LeaveEvents(C, D)
  PROVE  Views(E)'
<1>0. /\ inPlay \subseteq Creature /\ attacker \subseteq Creature /\ NoCard \notin Creature
      /\ C \in SUBSET Creature /\ D \in SUBSET Creature
  BY CreatureAssumption DEF TypeOK
<1>1. view = Fighting /\ \A a \in view : viewBlk[a] = Facing(a)
  BY ViewsSettled
<1>2. /\ inPlay' = inPlay \ D /\ attacker' = attacker \ (C \cup D)
      /\ \A b \in Creature : defenser'[b] = IF b \in C \cup D THEN NoCard ELSE defenser[b]
  BY <1>0, LeaveFacts, ZenonT(60)
<1>3. ASSUME NEW e \in E
      PROVE  \/ e.type = "AttackerOff" /\ e.card \in C \cap attacker
             \/ /\ e.type = "Blocker" /\ e.card \in C /\ defenser[e.card] # NoCard
                /\ e.before = defenser[e.card] /\ e.after = NoCard
             \/ e.type = "ZoneChange" /\ e.card \in D
  <2>1. \/ \E c \in C \cap attacker : e = [type |-> "AttackerOff", card |-> c]
        \/ \E c \in {x \in C : defenser[x] # NoCard} :
             e = [type |-> "Blocker", card |-> c, before |-> defenser[c], after |-> NoCard]
        \/ \E c \in D : e = [type |-> "ZoneChange", card |-> c]
    BY <1>3 DEF LeaveEvents
  <2> QED BY <2>1
<1>4. /\ \A c \in C \cap attacker : [type |-> "AttackerOff", card |-> c] \in E
      /\ \A c \in C : defenser[c] # NoCard =>
           [type |-> "Blocker", card |-> c, before |-> defenser[c], after |-> NoCard] \in E
      /\ \A c \in D : [type |-> "ZoneChange", card |-> c] \in E
  BY DEF LeaveEvents
<1>5. Fighting' = Fighting \ (C \cup D)
  BY <1>2 DEF Fighting
<1>6. ViewSound(E)'
  <2> SUFFICES ASSUME NEW c \in Creature, \A e \in E : ~ Touches(e, c)
               PROVE  c \in Fighting <=> c \in Fighting'
    BY <1>1 DEF ViewSound
  <2>1. c \notin D
    BY <1>4 DEF Touches
  <2>2. ASSUME c \in C, c \in attacker
        PROVE  FALSE
    <3>1. PICK e \in E : e = [type |-> "AttackerOff", card |-> c]
      BY <1>4, <2>2
    <3>2. Touches(e, c)
      BY <3>1 DEF Touches
    <3> QED BY <3>2
  <2> QED BY <1>5, <2>1, <2>2 DEF Fighting
<1>7. TouchSound(E)'
  <2> SUFFICES ASSUME NEW e \in E
               PROVE  /\ e.type # "AttackerOn"
                      /\ e.type \in {"AttackerOff", "ZoneChange"} => e.card \notin Fighting'
                      /\ e.type = "ZoneChange" => e.card \notin inPlay'
    BY DEF TouchSound
  <2> QED BY <1>2, <1>3, <1>5
<1>8. MoveSound(E)'
  <2> SUFFICES ASSUME NEW e \in E, e.type = "Blocker"
               PROVE  /\ defenser'[e.card] = e.after /\ e.before # e.after
                      /\ \A a \in view : e.card \in viewBlk[a] => a = e.before
                      /\ e.after = NoCard
    BY DEF MoveSound
  <2>1. /\ e.card \in C /\ defenser[e.card] # NoCard
        /\ e.before = defenser[e.card] /\ e.after = NoCard
    BY <1>3
  <2>2. defenser'[e.card] = NoCard
    BY <1>0, <1>2, <2>1
  <2>3. \A a \in view : e.card \in viewBlk[a] => a = e.before
    BY <1>1, <2>1 DEF Facing
  <2> QED BY <2>1, <2>2, <2>3
<1>9. FaceSound(E)'
  <2> SUFFICES ASSUME NEW a \in view \cap Fighting', NEW b \in Creature, \A e \in E : ~ Moves(e, b)
               PROVE  b \in Facing(a) <=> b \in Facing(a)'
    BY <1>1 DEF FaceSound
  <2>1. b \notin D
    BY <1>4 DEF Moves
  <2>2. b \in C => defenser[b] = NoCard
    BY <1>4 DEF Moves
  <2>3. a # NoCard
    BY <1>0, <1>1 DEF Fighting
  <2>4. defenser'[b] = defenser[b]
    BY <1>2, <2>1, <2>2
  <2> QED BY <1>2, <2>1, <2>4 DEF Facing
<1>10. OneFaced' /\ ViewsApart' /\ ViewsFresh'
  BY DEF Views, OneFaced, ViewsApart, ViewsFresh
<1> QED
  BY <1>6, <1>7, <1>8, <1>9, <1>10 DEF Views

(* A creature attacks, or no longer does: the event that says so waits.    *)
(* On are those declared, Off those taken off.                             *)
LEMMA AttackViews ==
  ASSUME TypeOK, CardsSound, NEW W, Views(W), \A e \in W : e.type \notin CardTypes,
         NEW On \in SUBSET (inPlay \ attacker), NEW Off \in SUBSET attacker,
         attacker' = (attacker \cup On) \ Off, currentGamePhase = COMBATATTACKERS,
         UNCHANGED <<currentGamePhase, inPlay, defenser, view, viewBlk>>,
         Off \subseteq inPlay,
         NEW E, E = {[type |-> "AttackerOn", card |-> c] : c \in On}
                      \cup {[type |-> "AttackerOff", card |-> c] : c \in Off}
  PROVE  Views(E)'
<1>0. inPlay \subseteq Creature /\ attacker \subseteq Creature /\ NoCard \notin Creature
  BY CreatureAssumption DEF TypeOK
<1>1. view = Fighting /\ \A a \in view : viewBlk[a] = Facing(a)
  BY ViewsSettled
<1>2. ASSUME NEW e \in E
      PROVE  \/ e.type = "AttackerOn" /\ e.card \in On
             \/ e.type = "AttackerOff" /\ e.card \in Off
  <2>1. \/ \E c \in On : e = [type |-> "AttackerOn", card |-> c]
        \/ \E c \in Off : e = [type |-> "AttackerOff", card |-> c]
    BY <1>2
  <2> QED BY <2>1
<1>3. /\ \A c \in On : [type |-> "AttackerOn", card |-> c] \in E
      /\ \A c \in Off : [type |-> "AttackerOff", card |-> c] \in E
  OBVIOUS
<1>4. Fighting' = (Fighting \cup On) \ Off
  BY DEF Fighting
<1>5. ViewSound(E)'
  <2> SUFFICES ASSUME NEW c \in Creature, \A e \in E : ~ Touches(e, c)
               PROVE  c \in Fighting <=> c \in Fighting'
    BY <1>1 DEF ViewSound
  <2>1. ASSUME c \in On
        PROVE  FALSE
    <3>1. PICK e \in E : e = [type |-> "AttackerOn", card |-> c]
      BY <1>3, <2>1
    <3> QED BY <3>1 DEF Touches
  <2>2. ASSUME c \in Off
        PROVE  FALSE
    <3>1. PICK e \in E : e = [type |-> "AttackerOff", card |-> c]
      BY <1>3, <2>2
    <3> QED BY <3>1 DEF Touches
  <2> QED BY <1>4, <2>1, <2>2
<1>6. TouchSound(E)'
  <2> SUFFICES ASSUME NEW e \in E
               PROVE  /\ e.type = "AttackerOn" => e.card \in Fighting'
                      /\ e.type \in {"AttackerOff", "ZoneChange"} => e.card \notin Fighting'
                      /\ e.type # "ZoneChange"
    BY DEF TouchSound
  <2>1. On \cap Off = {}
    OBVIOUS
  <2> QED BY <1>2, <1>4, <2>1
<1>7. MoveSound(E)'
  BY <1>2 DEF MoveSound
<1>8. FaceSound(E)'
  <2>1. \A a : Facing(a)' = Facing(a)
    BY DEF Facing
  <2> QED BY <1>1, <2>1 DEF FaceSound
<1>9. OneFaced' /\ ViewsApart' /\ ViewsFresh'
  BY DEF Views, OneFaced, ViewsApart, ViewsFresh
<1> QED
  BY <1>5, <1>6, <1>7, <1>8, <1>9 DEF Views

(* A creature blocks another one than before, or none.                     *)
LEMMA BlockViews ==
  ASSUME TypeOK, CardsSound, NEW W, Views(W), \A e \in W : e.type \notin CardTypes,
         NEW b \in Creature, NEW a \in Creature \cup {NoCard}, ToggleBlocker(b, a),
         NEW d, d = [type |-> "Blocker", card |-> b, before |-> defenser[b], after |-> a]
  PROVE  Views({d})'
<1>0. /\ inPlay \subseteq Creature /\ NoCard \notin Creature
      /\ defenser \in [Creature -> Creature \cup {NoCard}]
  BY CreatureAssumption DEF TypeOK
<1>1. view = Fighting /\ \A x \in view : viewBlk[x] = Facing(x)
  BY ViewsSettled
<1>2. /\ currentGamePhase = COMBATBLOCKERS /\ currentGamePhase' = currentGamePhase
      /\ inPlay' = inPlay /\ attacker' = attacker /\ view' = view /\ viewBlk' = viewBlk
      /\ b \in inPlay /\ Owner[b] # currentPlayer /\ defenser[b] # a
      /\ a \in (inPlay \cap attacker) \cup {NoCard}
      /\ defenser' = [defenser EXCEPT ![b] = a]
  BY DEF ToggleBlocker, turnVars, guiVars
<1>3. b \notin attacker
  BY <1>2 DEF Turn, CardsSound, OwnAttack, COMBATBLOCKERS, UNTAP, CLEANUP
<1>4. d.type = "Blocker" /\ d.card = b /\ d.before = defenser[b] /\ d.after = a
  OBVIOUS
<1>5. Fighting' = Fighting
  BY <1>2 DEF Fighting
<1>6. ViewSound({d})' /\ TouchSound({d})'
  BY <1>1, <1>2, <1>4, <1>5 DEF ViewSound, TouchSound
<1>7. MoveSound({d})'
  <2>1. defenser'[b] = a
    BY <1>0, <1>2
  <2>2. \A x \in view : b \in viewBlk[x] => x = defenser[b]
    BY <1>1 DEF Facing
  <2>3. a # NoCard => a \in view \cap Fighting /\ b \in inPlay \ view
    BY <1>1, <1>2, <1>3 DEF Fighting
  <2> QED BY <1>2, <1>4, <1>5, <2>1, <2>2, <2>3 DEF MoveSound
<1>8. FaceSound({d})'
  <2> SUFFICES ASSUME NEW x \in view \cap Fighting, NEW c \in Creature, ~ Moves(d, c)
               PROVE  c \in Facing(x) <=> c \in Facing(x)'
    BY <1>1, <1>2, <1>5 DEF FaceSound
  <2>1. c # b
    BY <1>4 DEF Moves
  <2>2. defenser'[c] = defenser[c]
    BY <1>0, <1>2, <2>1
  <2> QED BY <1>2, <2>2 DEF Facing
<1>9. OneFaced' /\ ViewsApart' /\ ViewsFresh'
  BY <1>2 DEF Views, OneFaced, ViewsApart, ViewsFresh
<1> QED
  BY <1>6, <1>7, <1>8, <1>9 DEF Views

(* A creature enters play.                                                 *)
LEMMA EnterPlayViews ==
  ASSUME TypeOK, AttackersInPlay, CardsSound, NEW W, Views(W), \A e \in W : e.type \notin CardTypes,
         NEW c \in Creature, EnterPlay(c)
  PROVE  Views(W)'
<1>0. /\ inPlay \subseteq Creature /\ attacker \subseteq inPlay /\ NoCard \notin Creature
      /\ defenser \in [Creature -> Creature \cup {NoCard}]
  BY CreatureAssumption DEF TypeOK, AttackersInPlay
<1>1. view = Fighting /\ \A x \in view : viewBlk[x] = Facing(x)
  BY ViewsSettled
<1>2. /\ currentGamePhase' = currentGamePhase /\ c \notin inPlay
      /\ inPlay' = inPlay \cup {c} /\ attacker' = attacker /\ view' = view /\ viewBlk' = viewBlk
      /\ defenser' = defenser
  BY DEF EnterPlay, turnVars, guiVars
<1>3. Fighting' = Fighting
  BY <1>0, <1>2 DEF Fighting
<1>4. \A x \in Creature : Facing(x)' = Facing(x)
  <2>1. defenser[c] = NoCard
    BY <1>2 DEF CardsSound, OutOfPlay
  <2> QED BY <1>0, <1>2, <2>1 DEF Facing
<1>5. ViewSound(W)' /\ TouchSound(W)' /\ MoveSound(W)'
  BY <1>1, <1>2, <1>3 DEF ViewSound, TouchSound, MoveSound, CardTypes
<1>6. FaceSound(W)'
  BY <1>0, <1>1, <1>2, <1>3, <1>4 DEF FaceSound, Fighting
<1>7. OneFaced' /\ ViewsApart' /\ ViewsFresh'
  BY <1>2 DEF Views, OneFaced, ViewsApart, ViewsFresh
<1> QED
  BY <1>5, <1>6, <1>7 DEF Views

(* GuiCombat is told that a creature attacks.                              *)
LEMMA AttackerOnViews ==
  ASSUME TypeOK, CardsSound, NEW T, NEW d, Views({d} \cup T), d.type = "AttackerOn",
         d = Delivery, OnAttackerOn
  PROVE  Views(T)'
<1> DEFINE c == d.card
<1>0. /\ inPlay \subseteq Creature /\ view \subseteq Creature /\ NoCard \notin Creature
      /\ viewBlk \in [Creature -> SUBSET Creature]
  BY CreatureAssumption DEF TypeOK
<1>1. /\ view' = view \cup {c} /\ viewBlk' = [viewBlk EXCEPT ![c] = {}]
      /\ currentGamePhase' = currentGamePhase /\ inPlay' = inPlay /\ attacker' = attacker
      /\ defenser' = defenser
  BY DEF OnAttackerOn, turnVars, cardVars
<1>2. c \in Fighting /\ c \in Creature /\ currentGamePhase = COMBATATTACKERS
  BY <1>0 DEF Views, TouchSound, Fighting
<1>3. \A b \in Creature : defenser[b] = NoCard
  BY <1>2 DEF CardsSound, FreshClear, Fresh, COMBATATTACKERS, UNTAP
<1>4. \A a \in view : viewBlk[a] = {}
  BY <1>2 DEF Views, ViewsFresh
<1> HIDE DEF c
<1>5. \A a \in view' : viewBlk'[a] = {}
  BY <1>0, <1>1, <1>2, <1>4
<1>6. \A a \in Creature : Facing(a) = {} /\ Facing(a)' = {}
  BY <1>0, <1>1, <1>3 DEF Facing
<1>7. Fighting' = Fighting /\ Fighting \subseteq Creature
  BY <1>0, <1>1 DEF Fighting
<1>8. ViewSound(T)'
  <2> SUFFICES ASSUME NEW x \in Creature, \A e \in T : ~ Touches(e, x)
               PROVE  x \in view' <=> x \in Fighting
    BY <1>7 DEF ViewSound
  <2>1. CASE x = c
    BY <1>1, <1>2, <2>1
  <2>2. CASE x # c
    <3>1. \A e \in {d} \cup T : ~ Touches(e, x)
      BY <2>2 DEF Touches, c
    <3>2. x \in view <=> x \in Fighting
      BY <3>1 DEF Views, ViewSound
    <3> QED BY <1>1, <2>2, <3>2
  <2> QED BY <2>1, <2>2
<1>9. TouchSound(T)'
  BY <1>1, <1>7 DEF Views, TouchSound
<1>10. MoveSound(T)'
  <2> SUFFICES ASSUME NEW e \in T, e.type = "Blocker"
               PROVE  /\ defenser[e.card] = e.after /\ e.before # e.after
                      /\ \A a \in view' : e.card \in viewBlk'[a] => a = e.before
                      /\ e.after # NoCard => e.after \in view' \cap Fighting /\ e.card \in inPlay \ view'
    BY <1>1, <1>7 DEF MoveSound
  <2>1. /\ defenser[e.card] = e.after /\ e.before # e.after
        /\ e.after # NoCard => e.card \in inPlay
    BY DEF Views, MoveSound
  <2>2. e.after = NoCard
    BY <1>0, <1>3, <2>1
  <2> QED BY <1>5, <2>1, <2>2
<1>11. FaceSound(T)'
  BY <1>5, <1>6, <1>7 DEF FaceSound
<1>12. OneFaced' /\ ViewsApart' /\ ViewsFresh'
  BY <1>5 DEF OneFaced, ViewsApart, ViewsFresh
<1> QED
  BY <1>8, <1>9, <1>10, <1>11, <1>12 DEF Views

(* GuiCombat takes the view of an attacker off: what is left is right, but *)
(* for the events that still wait.                                         *)
LEMMA DropViews ==
  ASSUME TypeOK, NEW T, NEW d, Views({d} \cup T),
         d.type \in {"AttackerOff", "ZoneChange"}, NEW c \in Creature, d.card = c,
         view' = view \ {c}, \A a \in view \ {c} : viewBlk'[a] = viewBlk[a],
         d.type = "ZoneChange" => c \in view,
         UNCHANGED <<currentGamePhase, inPlay, attacker, defenser>>
  PROVE  Views(T)'
<1>0. /\ inPlay \subseteq Creature /\ view \subseteq Creature /\ NoCard \notin Creature
      /\ viewBlk \in [Creature -> SUBSET Creature]
  BY CreatureAssumption DEF TypeOK
<1>1. view' = view \ {c} /\ \A a \in view \ {c} : viewBlk'[a] = viewBlk[a]
  OBVIOUS
<1>2. c \notin Fighting /\ (d.type = "ZoneChange" => c \notin inPlay)
  BY DEF Views, TouchSound
<1>3. \A a \in view' : a \in view /\ a # c /\ viewBlk'[a] = viewBlk[a]
  BY <1>0, <1>1
<1>4. Fighting' = Fighting /\ \A a : Facing(a)' = Facing(a)
  BY DEF Fighting, Facing
<1>5. ViewSound(T)'
  <2> SUFFICES ASSUME NEW x \in Creature, \A e \in T : ~ Touches(e, x)
               PROVE  x \in view' <=> x \in Fighting
    BY <1>4 DEF ViewSound
  <2>1. CASE x = c
    BY <1>1, <1>2, <2>1
  <2>2. CASE x # c
    <3>1. \A e \in {d} \cup T : ~ Touches(e, x)
      BY <2>2 DEF Touches
    <3>2. x \in view <=> x \in Fighting
      BY <3>1 DEF Views, ViewSound
    <3> QED BY <1>1, <2>2, <3>2
  <2> QED BY <2>1, <2>2
<1>6. TouchSound(T)'
  BY <1>4 DEF Views, TouchSound
<1>7. MoveSound(T)'
  <2> SUFFICES ASSUME NEW e \in T, e.type = "Blocker"
               PROVE  /\ defenser[e.card] = e.after /\ e.before # e.after
                      /\ \A a \in view' : e.card \in viewBlk'[a] => a = e.before
                      /\ e.after # NoCard => e.after \in view' \cap Fighting /\ e.card \in inPlay \ view'
    BY <1>4 DEF MoveSound
  <2>1. /\ defenser[e.card] = e.after /\ e.before # e.after
        /\ \A a \in view : e.card \in viewBlk[a] => a = e.before
        /\ e.after # NoCard => e.after \in view \cap Fighting /\ e.card \in inPlay \ view
    BY DEF Views, MoveSound
  <2> QED BY <1>1, <1>2, <1>3, <2>1
<1>8. FaceSound(T)'
  <2> SUFFICES ASSUME NEW a \in view' \cap Fighting, NEW b \in Creature, \A e \in T : ~ Moves(e, b)
               PROVE  b \in viewBlk[a] <=> b \in Facing(a)
    BY <1>3, <1>4 DEF FaceSound
  <2>1. CASE \A e \in {d} \cup T : ~ Moves(e, b)
    BY <1>3, <2>1 DEF Views, FaceSound
  <2>2. CASE Moves(d, b)
    <3>1. b = c /\ c \in view /\ c \notin inPlay
      BY <1>2, <2>2 DEF Moves
    <3>2. b \notin viewBlk[a]
      BY <1>3, <3>1 DEF Views, ViewsApart
    <3> QED BY <3>1, <3>2 DEF Facing
  <2> QED BY <2>1, <2>2
<1>9. OneFaced' /\ ViewsApart' /\ ViewsFresh'
  BY <1>1, <1>3 DEF Views, OneFaced, ViewsApart, ViewsFresh
<1> QED
  BY <1>5, <1>6, <1>7, <1>8, <1>9 DEF Views

(* The view of c goes, and no other.                                       *)
LEMMA Dropped ==
  ASSUME TypeOK, NEW c \in Creature, DropAttacker(c)
  PROVE  view' = view \ {c} /\ \A a \in view \ {c} : viewBlk'[a] = viewBlk[a]
<1>1. view \subseteq Creature /\ viewBlk \in [Creature -> SUBSET Creature]
  BY DEF TypeOK
<1> QED
  BY <1>1 DEF DropAttacker

(* GuiCombat takes a creature that left play off the blockers it shows.    *)
LEMMA ZoneChangeViews ==
  ASSUME TypeOK, NEW T, NEW d, Views({d} \cup T), d.type = "ZoneChange", d = Delivery, OnZoneChange
  PROVE  Views(T)'
<1> DEFINE c == d.card
<1>0. /\ inPlay \subseteq Creature /\ view \subseteq Creature /\ NoCard \notin Creature
      /\ viewBlk \in [Creature -> SUBSET Creature]
  BY CreatureAssumption DEF TypeOK
<1>1. /\ UNCHANGED <<currentGamePhase, inPlay, attacker, defenser>>
      /\ \/ c \in view /\ DropAttacker(c)
         \/ c \notin view /\ view' = view /\ \E a \in view : c \in viewBlk[a] /\ DropBlocker(c, a)
         \/ c \notin view /\ view' = view /\ viewBlk' = viewBlk /\ \A a \in view : c \notin viewBlk[a]
  BY DEF OnZoneChange, turnVars, cardVars
<1>2. c \in Creature
  BY DeliveredTyped, EventFacts DEF OnZoneChange
<1>3. c \notin Fighting /\ c \notin inPlay
  BY DEF Views, TouchSound
<1> HIDE DEF c
<1>4. CASE c \in view /\ DropAttacker(c)
  <2>1. d.card = c
    BY DEF c
  <2>2. view' = view \ {c} /\ \A a \in view \ {c} : viewBlk'[a] = viewBlk[a]
    BY <1>2, <1>4, Dropped
  <2> QED BY <1>1, <1>2, <1>4, <2>1, <2>2, DropViews
<1>5. CASE c \notin view /\ view' = view /\ (\A a \in view : viewBlk'[a] = viewBlk[a] \ {c})
  <2>1. Fighting' = Fighting /\ \A a : Facing(a)' = Facing(a)
    BY <1>1 DEF Fighting, Facing
  <2>2. ViewSound(T)'
    <3> SUFFICES ASSUME NEW x \in Creature, \A e \in T : ~ Touches(e, x)
                 PROVE  x \in view <=> x \in Fighting
      BY <1>5, <2>1 DEF ViewSound
    <3>1. CASE x = c
      BY <1>3, <1>5, <3>1
    <3>2. CASE x # c
      <4>1. \A e \in {d} \cup T : ~ Touches(e, x)
        BY <3>2 DEF Touches, c
      <4> QED BY <4>1 DEF Views, ViewSound
    <3> QED BY <3>1, <3>2
  <2>3. TouchSound(T)'
    BY <1>1, <2>1 DEF Views, TouchSound
  <2>4. MoveSound(T)'
    <3> SUFFICES ASSUME NEW e \in T, e.type = "Blocker"
                 PROVE  /\ defenser[e.card] = e.after /\ e.before # e.after
                        /\ \A a \in view : e.card \in viewBlk'[a] => a = e.before
                        /\ e.after # NoCard => e.after \in view \cap Fighting /\ e.card \in inPlay \ view
      BY <1>1, <1>5, <2>1 DEF MoveSound
    <3>1. /\ defenser[e.card] = e.after /\ e.before # e.after
          /\ \A a \in view : e.card \in viewBlk[a] => a = e.before
          /\ e.after # NoCard => e.after \in view \cap Fighting /\ e.card \in inPlay \ view
      BY DEF Views, MoveSound
    <3> QED BY <1>5, <3>1
  <2>5. FaceSound(T)'
    <3> SUFFICES ASSUME NEW a \in view \cap Fighting, NEW b \in Creature, \A e \in T : ~ Moves(e, b)
                 PROVE  b \in viewBlk'[a] <=> b \in Facing(a)
      BY <1>5, <2>1 DEF FaceSound
    <3>1. CASE b = c
      BY <1>3, <1>5, <3>1 DEF Facing
    <3>2. CASE b # c
      <4>1. \A e \in {d} \cup T : ~ Moves(e, b)
        BY <3>2 DEF Moves, c
      <4>2. b \in viewBlk[a] <=> b \in Facing(a)
        BY <4>1 DEF Views, FaceSound
      <4> QED BY <1>5, <3>2, <4>2
    <3> QED BY <3>1, <3>2
  <2>6. OneFaced' /\ ViewsApart' /\ ViewsFresh'
    BY <1>1, <1>5 DEF Views, OneFaced, ViewsApart, ViewsFresh
  <2> QED BY <2>2, <2>3, <2>4, <2>5, <2>6 DEF Views
<1>6. ASSUME NEW a \in view, c \in viewBlk[a], DropBlocker(c, a)
      PROVE  \A x \in view : viewBlk'[x] = viewBlk[x] \ {c}
  <2>1. viewBlk' = [viewBlk EXCEPT ![a] = viewBlk[a] \ {c}]
    BY <1>6 DEF DropBlocker
  <2>2. \A x \in view : x # a => c \notin viewBlk[x]
    BY <1>2, <1>6 DEF Views, OneFaced
  <2> QED BY <1>0, <2>1, <2>2
<1> QED
  BY <1>1, <1>4, <1>5, <1>6

(* GuiCombat moves a blocker from one view to another, or to none.  Who    *)
(* blocks anew is told of alone.                                           *)
LEMMA BlockerViews ==
  ASSUME TypeOK, CardsSound, NEW T, NEW d, Views({d} \cup T), d.type = "Blocker", d = Delivery, OnBlocker,
         d.after # NoCard => T = {}
  PROVE  Views(T)'
<1> DEFINE b    == d.card
           from == d.before
           to   == d.after
<1>0. /\ inPlay \subseteq Creature /\ view \subseteq Creature /\ NoCard \notin Creature
      /\ viewBlk \in [Creature -> SUBSET Creature]
  BY CreatureAssumption DEF TypeOK
<1>1. UNCHANGED <<currentGamePhase, inPlay, attacker, defenser, view>>
  BY DEF OnBlocker, turnVars, cardVars
<1>2. b \in Creature /\ from \in Creature \cup {NoCard} /\ to \in Creature \cup {NoCard}
  BY DeliveredTyped, EventFacts DEF OnBlocker
<1>3. PICK added \in [Creature -> SUBSET Creature] :
        /\ added = IF to \in view THEN [viewBlk EXCEPT ![to] = @ \cup {b}] ELSE viewBlk
        /\ viewBlk' = IF from \in view /\ b \in added[from]
                      THEN [added EXCEPT ![from] = @ \ {b}] ELSE added
  <2>1. (IF to \in view THEN [viewBlk EXCEPT ![to] = @ \cup {b}] ELSE viewBlk) \in [Creature -> SUBSET Creature]
    BY <1>0, <1>2
  <2> QED BY <2>1 DEF OnBlocker
<1>4. /\ defenser[b] = to /\ from # to
      /\ \A a \in view : b \in viewBlk[a] => a = from
      /\ to # NoCard => to \in view \cap Fighting /\ b \in inPlay \ view
  BY DEF Views, MoveSound
<1> HIDE DEF b, from, to
<1>5. \A a \in view : viewBlk'[a] = (viewBlk[a] \ {b}) \cup (IF a = to THEN {b} ELSE {})
  <2> SUFFICES ASSUME NEW a \in view
               PROVE  viewBlk'[a] = (viewBlk[a] \ {b}) \cup (IF a = to THEN {b} ELSE {})
    OBVIOUS
  <2>1. a \in Creature /\ (a # from => b \notin viewBlk[a])
    BY <1>0, <1>4
  <2>2. added[a] = IF a = to THEN viewBlk[a] \cup {b} ELSE viewBlk[a]
    BY <1>0, <1>3, <2>1
  <2>3. viewBlk'[a] = IF a = from THEN added[a] \ {b} ELSE added[a]
    BY <1>3, <2>1
  <2> QED BY <1>4, <2>1, <2>2, <2>3
<1>6. Fighting' = Fighting /\ \A a : Facing(a)' = Facing(a)
  BY <1>1 DEF Fighting, Facing
<1>7. ViewSound(T)'
  <2> SUFFICES ASSUME NEW x \in Creature, \A e \in T : ~ Touches(e, x)
               PROVE  x \in view <=> x \in Fighting
    BY <1>1, <1>6 DEF ViewSound
  <2>1. \A e \in {d} \cup T : ~ Touches(e, x)
    BY DEF Touches
  <2> QED BY <2>1 DEF Views, ViewSound
<1>8. TouchSound(T)'
  BY <1>1, <1>6 DEF Views, TouchSound
<1>9. MoveSound(T)'
  <2> SUFFICES ASSUME NEW e \in T, e.type = "Blocker"
               PROVE  /\ defenser[e.card] = e.after /\ e.before # e.after
                      /\ \A a \in view : e.card \in viewBlk'[a] => a = e.before
                      /\ e.after # NoCard => e.after \in view \cap Fighting /\ e.card \in inPlay \ view
    BY <1>1, <1>6 DEF MoveSound
  <2>1. /\ defenser[e.card] = e.after /\ e.before # e.after
        /\ \A a \in view : e.card \in viewBlk[a] => a = e.before
        /\ e.after # NoCard => e.after \in view \cap Fighting /\ e.card \in inPlay \ view
    BY DEF Views, MoveSound
  <2>2. to = NoCard
    BY DEF to
  <2>3. \A a \in view : viewBlk'[a] \subseteq viewBlk[a]
    BY <1>0, <1>5, <2>2
  <2> QED BY <2>1, <2>3
<1>10. FaceSound(T)'
  <2> SUFFICES ASSUME NEW a \in view \cap Fighting, NEW c \in Creature, \A e \in T : ~ Moves(e, c)
               PROVE  c \in viewBlk'[a] <=> c \in Facing(a)
    BY <1>1, <1>6 DEF FaceSound
  <2>1. CASE c = b
    <3>1. c \in viewBlk'[a] <=> a = to
      BY <1>5, <2>1
    <3>2. c \in Facing(a) <=> a = to
      BY <1>0, <1>4, <2>1 DEF Facing
    <3> QED BY <3>1, <3>2
  <2>2. CASE c # b
    <3>1. \A e \in {d} \cup T : ~ Moves(e, c)
      BY <2>2 DEF Moves, b
    <3>2. c \in viewBlk[a] <=> c \in Facing(a)
      BY <3>1 DEF Views, FaceSound
    <3> QED BY <1>5, <2>2, <3>2
  <2> QED BY <2>1, <2>2
<1>11. OneFaced'
  <2> SUFFICES ASSUME NEW c \in Creature, NEW x \in view, NEW y \in view,
                      c \in viewBlk'[x], c \in viewBlk'[y]
               PROVE  x = y
    BY <1>1 DEF OneFaced
  <2>1. CASE c = b
    BY <1>5, <2>1
  <2>2. CASE c # b
    <3>1. c \in viewBlk[x] /\ c \in viewBlk[y]
      BY <1>5, <2>2
    <3> QED BY <3>1 DEF Views, OneFaced
  <2> QED BY <2>1, <2>2
<1>12. ViewsApart'
  <2> SUFFICES ASSUME NEW a \in view
               PROVE  viewBlk'[a] \cap view = {}
    BY <1>1 DEF ViewsApart
  <2>1. viewBlk[a] \cap view = {}
    BY DEF Views, ViewsApart
  <2>2. a = to => b \notin view
    BY <1>0, <1>4
  <2> QED BY <1>5, <2>1, <2>2
<1>13. ViewsFresh'
  <2> SUFFICES ASSUME currentGamePhase = COMBATATTACKERS, NEW a \in view
               PROVE  viewBlk'[a] = {}
    BY <1>1 DEF ViewsFresh
  <2>1. viewBlk[a] = {}
    BY DEF Views, ViewsFresh
  <2>2. a # to
    <3>1. defenser[b] = NoCard
      BY <1>2 DEF CardsSound, FreshClear, Fresh, COMBATATTACKERS, UNTAP
    <3> QED BY <1>0, <1>4, <3>1
  <2> QED BY <1>5, <2>1, <2>2
<1> QED
  BY <1>7, <1>8, <1>9, <1>10, <1>11, <1>12, <1>13 DEF Views

-----------------------------------------------------------------------------
(* The events that wait.                                                   *)

(* Events that are not about a creature and need not be handled alone.     *)
Calm(W) == \A e \in W : e.type \notin CardTypes /\ ~ Lone(e)

(* What waits is a sequence of events.                                     *)
LEMMA PendingTyped ==
  ASSUME TypeOK
  PROVE  Pending \in Seq(Event) /\ Waiting \subseteq Event
<1>1. Pending \in Seq(Event)
  <2>1. eventsQueue # <<>> => Tail(eventsQueue) \in Seq(Event)
    BY HeadTailProperties DEF TypeOK
  <2> QED BY <2>1, EmptySeq DEF Pending, TypeOK
<1> QED
  BY <1>1, SetOfSeq DEF Waiting

(* Nothing waits in an empty queue.                                        *)
LEMMA NothingWaits ==
  ASSUME eventsQueue = <<>>
  PROVE  Pending = <<>> /\ Waiting = {}
BY SetOfOne DEF Pending, Waiting

(* In a calm queue everything is in order.                                 *)
LEMMA CalmFits ==
  ASSUME Calm(Waiting)
  PROVE  QueueFits
BY DEF Calm, QueueFits, LoneSound, LeavesAttack, HitsAttack, BlocksEarly, Lone

(* The same of the next state.                                             *)
LEMMA CalmFitsNext ==
  ASSUME Calm(Waiting')
  PROVE  QueueFits'
BY DEF Calm, QueueFits, LoneSound, LeavesAttack, HitsAttack, BlocksEarly, Lone

(* A change of phase, and the step that follows it, are calm.              *)
LEMMA CalmEvents ==
  /\ Calm({})
  /\ \A p, q : p # COMBATATTACKERS => Calm({TurnTo(p, q)})
  /\ \A s : Calm({Step(s)})
  /\ Calm({[type |-> "AttackersChosen"]}) /\ Calm({[type |-> "BlockersChosen"]})
  /\ \A V, W : Calm(V) /\ Calm(W) => Calm(V \cup W)
<1>1. Calm({}) /\ \A V, W : Calm(V) /\ Calm(W) => Calm(V \cup W)
  BY DEF Calm
<1>2. ASSUME NEW p, NEW q, p # COMBATATTACKERS
      PROVE  Calm({TurnTo(p, q)})
  BY <1>2 DEF Calm, TurnTo, Lone, CardTypes
<1>3. ASSUME NEW s
      PROVE  Calm({Step(s)})
  BY <1>3 DEF Calm, Step, Lone, CardTypes
<1>4. Calm({[type |-> "AttackersChosen"]}) /\ Calm({[type |-> "BlockersChosen"]})
  BY DEF Calm, Lone, CardTypes
<1> QED
  BY <1>1, <1>2, <1>3, <1>4

(* A single call, and the two that go on to the next phase.                *)
LEMMA OneCall ==
  /\ \A a \in {"drain", "pop", "nextGamePhase", "forward", "enterPhase",
               "phaseActions", "nextCombatStep", "triggersStep"} :
       /\ <<Do(a)>> \in Seq(Call) /\ <<Do(a)>> # <<>>
       /\ Head(<<Do(a)>>) = Do(a) /\ Head(<<Do(a)>>).op = a /\ Tail(<<Do(a)>>) = <<>>
  /\ \A p \in Phase :
       /\ <<Skip(p), Do("enterPhase")>> \in Seq(Call) /\ <<Skip(p), Do("enterPhase")>> # <<>>
       /\ Head(<<Skip(p), Do("enterPhase")>>).op = "skipCombat"
<1>1. ASSUME NEW a \in {"drain", "pop", "nextGamePhase", "forward", "enterPhase",
                        "phaseActions", "nextCombatStep", "triggersStep"}
      PROVE  /\ <<Do(a)>> \in Seq(Call) /\ <<Do(a)>> # <<>>
             /\ Head(<<Do(a)>>) = Do(a) /\ Head(<<Do(a)>>).op = a /\ Tail(<<Do(a)>>) = <<>>
  <2>1. Do(a) \in Call /\ Do(a).op = a
    BY CallFacts
  <2>2. <<Do(a)>> \in Seq(Call)
    BY <2>1, One
  <2>3. <<Do(a)>> # <<>> /\ Head(<<Do(a)>>) = Do(a) /\ Tail(<<Do(a)>>) = <<>>
    BY Short
  <2> QED BY <2>1, <2>2, <2>3
<1>2. ASSUME NEW p \in Phase
      PROVE  /\ <<Skip(p), Do("enterPhase")>> \in Seq(Call) /\ <<Skip(p), Do("enterPhase")>> # <<>>
             /\ Head(<<Skip(p), Do("enterPhase")>>).op = "skipCombat"
  <2>1. Skip(p) \in Call /\ Do("enterPhase") \in Call /\ Skip(p).op = "skipCombat"
    BY CallFacts
  <2>2. <<Skip(p), Do("enterPhase")>> \in Seq(Call)
    BY <2>1
  <2>3. <<Skip(p), Do("enterPhase")>> # <<>> /\ Head(<<Skip(p), Do("enterPhase")>>) = Skip(p)
    BY Short
  <2> QED BY <2>1, <2>2, <2>3
<1> QED
  BY <1>1, <1>2

(* The call on top of two stacks put together.                             *)
LEMMA TopOf ==
  ASSUME NEW ops \in Seq(Call), NEW k \in Seq(Call), calls' = ops \o k
  PROVE  /\ calls' \in Seq(Call)
         /\ ops # <<>> => calls' # <<>> /\ Head(calls') = Head(ops)
         /\ ops = <<>> => calls' = k
         /\ \A op : /\ ops # <<>> /\ Head(ops).op # op => ~ Return(op)'
                    /\ ops = <<>> /\ (k = <<>> \/ Head(k).op # op) => ~ Return(op)'
<1>1. /\ calls' \in Seq(Call)
      /\ ops # <<>> => calls' # <<>> /\ Head(calls') = Head(ops)
      /\ ops = <<>> => calls' = k
  BY CallSeqs
<1> QED
  BY <1>1 DEF Return

(* A call put on top.                                                      *)
LEMMA TopCall ==
  ASSUME NEW a \in {"drain", "pop", "nextGamePhase", "forward", "enterPhase",
                    "phaseActions", "nextCombatStep", "triggersStep"},
         NEW k \in Seq(Call), calls' = <<Do(a)>> \o k
  PROVE  \A op : op # a => ~ Return(op)'
<1>1. PICK ops \in Seq(Call) : ops = <<Do(a)>> /\ ops # <<>> /\ Head(ops) = Do(a)
  BY OneCall
<1>2. Head(ops).op = a
  BY <1>1, CallFacts
<1> QED
  BY <1>1, <1>2, TopOf

(* The queue is not touched, nor is its loop entered: the same waits.      *)
LEMMA KeepsPending ==
  ASSUME eventsQueue' = eventsQueue,
         eventsQueue = <<>> \/ (~ Return("drain") /\ ~ Return("drain")')
  PROVE  Pending' = Pending /\ Waiting' = Waiting
<1>1. Pending' = Pending
  BY DEF Pending
<1> QED
  BY <1>1 DEF Waiting

(* What a call of the engine raises waits behind the rest.                 *)
LEMMA RaisePends ==
  ASSUME TypeOK, NEW es \in Seq(Event), NEW k \in Seq(Call), Raise(es, k),
         eventsQueue = <<>> \/ (~ Return("drain") /\ (k = <<>> \/ Head(k).op # "drain"))
  PROVE  Pending' = Pending \o es /\ Waiting' = Waiting \cup ToSet(es)
<1>1. eventsQueue' = eventsQueue \o es /\ eventsQueue \in Seq(Event)
  BY DEF Raise, TypeOK
<1>2. ASSUME eventsQueue = <<>>
      PROVE  Pending' = Pending \o es
  <2>1. eventsQueue' = es /\ Pending = <<>> /\ <<>> \o es = es
    BY <1>1, <1>2, NothingWaits, EventSeqs
  <2>2. CASE es = <<>>
    BY <2>1, <2>2 DEF Pending
  <2>3. CASE es # <<>>
    <3>1. calls' = <<Do("drain")>> \o k
      BY <1>2, <2>3 DEF Raise
    <3>2. calls' # <<>> /\ Head(calls').op = "drain"
      <4>1. PICK ops \in Seq(Call) : ops = <<Do("drain")>> /\ ops # <<>> /\ Head(ops) = Do("drain")
        BY OneCall
      <4>2. Head(ops).op = "drain"
        BY <4>1, CallFacts
      <4> QED BY <3>1, <4>1, <4>2, TopOf
    <3> QED BY <2>1, <2>3, <3>2 DEF Pending, Return
  <2> QED BY <2>2, <2>3
<1>3. ASSUME eventsQueue # <<>>
      PROVE  Pending' = Pending \o es
  <2>1. eventsQueue' # <<>> /\ Tail(eventsQueue') = Tail(eventsQueue) \o es
    BY <1>1, <1>3, EventSeqs
  <2>2. ~ Return("drain") /\ ~ Return("drain")'
    <3>1. calls' = <<>> \o k /\ <<>> \in Seq(Call)
      BY <1>3, CallFacts DEF Raise
    <3> QED BY <1>3, <3>1, TopOf
  <2> QED BY <1>3, <2>1, <2>2 DEF Pending
<1>4. Pending' = Pending \o es
  BY <1>2, <1>3
<1> QED
  BY <1>4, PendingTyped, SetOfConcat DEF Waiting

(* What waits during a call a listener makes.                              *)
LEMMA NestedFacts ==
  ASSUME TypeOK, Nested \/ NestedArrives
  PROVE  /\ calls # <<>> /\ eventsQueue # <<>> /\ ~ Return("drain")
         /\ Rest \in Seq(Call) /\ Rest # <<>>
         /\ Head(Rest).op # "drain" /\ Head(Rest).op # "nextCombatStep"
         /\ Calm(Waiting)
<1>1. calls # <<>> /\ calls \in Seq(Call) /\ Rest \in Seq(Call) /\ ~ Return("drain")
  BY NestedTop, CallSeqs DEF Rest, TypeOK, Return
<1>2. /\ \A k \in Outer : Head(Back(k)).op = "pop" /\ Back(k) # <<>> /\ Back(k) \in Seq(Call)
      /\ \A a \in {"enterPhase", "phaseActions"} : \A k \in Outer :
           <<Do(a)>> \o Back(k) # <<>> /\ Head(<<Do(a)>> \o Back(k)).op = a
      /\ \A p \in Phase : \A k \in Outer :
           /\ <<Skip(p), Do("enterPhase")>> \o Back(k) # <<>>
           /\ Head(<<Skip(p), Do("enterPhase")>> \o Back(k)).op = "skipCombat"
  <2>1. \A k \in Outer : Head(Back(k)).op = "pop" /\ Back(k) # <<>> /\ Back(k) \in Seq(Call)
    BY BackTyped, CallFacts
  <2>2. ASSUME NEW a \in {"enterPhase", "phaseActions"}, NEW k \in Outer
        PROVE  <<Do(a)>> \o Back(k) # <<>> /\ Head(<<Do(a)>> \o Back(k)).op = a
    <3>1. PICK s \in Seq(Call) : s = <<Do(a)>> /\ s # <<>> /\ Head(s).op = a
      BY OneCall
    <3> QED BY <2>1, <3>1, CallSeqs
  <2>3. ASSUME NEW p \in Phase, NEW k \in Outer
        PROVE  /\ <<Skip(p), Do("enterPhase")>> \o Back(k) # <<>>
               /\ Head(<<Skip(p), Do("enterPhase")>> \o Back(k)).op = "skipCombat"
    <3>1. PICK s \in Seq(Call) : s = <<Skip(p), Do("enterPhase")>> /\ s # <<>> /\ Head(s).op = "skipCombat"
      BY OneCall
    <3> QED BY <2>1, <3>1, CallSeqs
  <2> QED BY <2>1, <2>2, <2>3
<1>3. Pending = Tail(eventsQueue) \/ eventsQueue = <<>>
  BY <1>1 DEF Pending
<1>4. ASSUME NEW p \in {COMBATBLOCKERS, COMBATDAMAGE},
             eventsQueue # <<>>, Tail(eventsQueue) = <<>> \/ Tail(eventsQueue) = <<TurnTo(p, p + 1)>>
      PROVE  Calm(Waiting)
  <2>1. p # COMBATATTACKERS
    BY DEF COMBATATTACKERS, COMBATBLOCKERS, COMBATDAMAGE
  <2>2. Waiting = {} \/ Waiting = {TurnTo(p, p + 1)}
    BY <1>3, <1>4, SetOfOne DEF Waiting
  <2> QED BY <2>1, <2>2, CalmEvents
<1>5. CASE Nested
  <2>1. COMBATBLOCKERS \in Phase /\ COMBATDAMAGE \in Phase
    BY DEF Phase, BEFORE_BEGIN, AFTER_EOT, COMBATBLOCKERS, COMBATDAMAGE
  <2>2. PICK p \in {COMBATBLOCKERS, COMBATDAMAGE}, k \in Outer :
          /\ eventsQueue # <<>>
          /\ Tail(eventsQueue) = <<>> \/ Tail(eventsQueue) = <<TurnTo(p, p + 1)>>
          /\ \/ Rest = Back(k)
             \/ Rest = <<Skip(p), Do("enterPhase")>> \o Back(k)
             \/ Rest = <<Do("enterPhase")>> \o Back(k)
             \/ Rest = <<Do("phaseActions")>> \o Back(k)
    BY <1>5, NestedCases
  <2>3. Rest # <<>> /\ Head(Rest).op \in {"pop", "skipCombat", "enterPhase", "phaseActions"}
    BY <1>2, <2>1, <2>2
  <2> QED BY <1>1, <1>4, <2>2, <2>3
<1>6. CASE NestedArrives
  <2>1. PICK C \in Seq(Call) : C = <<Do("phaseActions")>> /\ C # <<>> /\ Tail(C) = <<>>
    BY OneCall
  <2>2. PICK q : q = <<TurnTo(COMBATBLOCKERS, COMBATDAMAGE), Step(combatStep)>> /\ Within(C, q)
    BY <1>6, <2>1 DEF NestedArrives
  <2>3. PICK k \in Outer : Rest = <<>> \o Back(k) /\ eventsQueue # <<>> /\ Tail(eventsQueue) = q
    BY <2>1, <2>2, WithinTop DEF Back
  <2>4. Rest # <<>> /\ Head(Rest).op = "pop"
    BY <1>2, <2>3, BackTyped
  <2>5. Waiting = {TurnTo(COMBATBLOCKERS, COMBATDAMAGE)} \cup {Step(combatStep)}
    <3>1. ToSet(<<TurnTo(COMBATBLOCKERS, COMBATDAMAGE)>> \o <<Step(combatStep)>>)
            = ToSet(<<TurnTo(COMBATBLOCKERS, COMBATDAMAGE)>>) \cup ToSet(<<Step(combatStep)>>)
      <4>1. PICK s, t : s = TurnTo(COMBATBLOCKERS, COMBATDAMAGE) /\ t = Step(combatStep)
        OBVIOUS
      <4>2. <<s>> \in Seq({s, t}) /\ <<t>> \in Seq({s, t})
        BY One
      <4>3. ToSet(<<s>> \o <<t>>) = ToSet(<<s>>) \cup ToSet(<<t>>)
        BY <4>2, SetOfConcat, ZenonT(60)
      <4> QED BY <4>1, <4>3
    <3>2. Waiting = ToSet(<<TurnTo(COMBATBLOCKERS, COMBATDAMAGE)>> \o <<Step(combatStep)>>)
      BY <1>3, <2>2, <2>3, Pair DEF Waiting
    <3> QED BY <3>1, <3>2, SetOfOne
  <2>6. COMBATBLOCKERS # COMBATATTACKERS
    BY DEF COMBATATTACKERS, COMBATBLOCKERS
  <2>7. PICK V, W : V = {TurnTo(COMBATBLOCKERS, COMBATDAMAGE)} /\ W = {Step(combatStep)} /\ Calm(V) /\ Calm(W)
    BY <2>6, CalmEvents
  <2>8. Calm(Waiting)
    BY <2>5, <2>7, CalmEvents
  <2> QED BY <1>1, <2>3, <2>4, <2>8
<1> QED
  BY <1>5, <1>6


(* The views of the next state, whatever waits there.                      *)
LEMMA ViewsNext ==
  ASSUME NEW W, W = Waiting', Views(W)'
  PROVE  Views(Waiting)'
BY DEF Views, ViewSound, TouchSound, MoveSound, FaceSound

(* A calm queue before and after, and a step that touches no creature.     *)
LEMMA CalmViews ==
  ASSUME Views(Waiting), Calm(Waiting), Calm(Waiting'), currentGamePhase' = currentGamePhase,
         inPlay' = inPlay, attacker' = attacker, defenser' = defenser, view' = view, viewBlk' = viewBlk
  PROVE  Views(Waiting)' /\ QueueFits'
<1>1. PICK W, V : W = Waiting /\ V = Waiting'
  OBVIOUS
<1>2. Views(W) /\ \A e \in W \cup V : e.type \notin CardTypes
  BY <1>1 DEF Calm
<1>3. Views(V)
  BY <1>2, ViewsByCards
<1>4. Views(V)'
  BY <1>3, SameViews
<1> QED
  BY <1>1, <1>4, ViewsNext, CalmFitsNext

(* The clock of the turn: nothing here moves it.                           *)
LEMMA SameTime ==
  ASSUME currentGamePhase' = currentGamePhase, Acts(calls') <=> Acts(calls)
  PROVE  (Fresh' <=> Fresh) /\ (Turn' <=> Turn)
<1>1. Opened' <=> Opened
  BY DEF Opened, Acts
<1> QED
  BY <1>1 DEF Fresh, Turn

(* What the engine does, the entry into a phase and its actions aside.     *)
LEMMA EngineTime ==
  ASSUME TypeOK,
         \/ NextGamePhase \/ Forward \/ SkipCombat \/ NextCombatStep \/ TriggersStep \/ Pop
         \/ OnChosen \/ OnAttackerOn \/ OnAttackerOff \/ OnBlocker \/ OnZoneChange
         \/ OnPhaseChange \/ OnCombatStepChange \/ OnDamageStackResolved
  PROVE  /\ currentGamePhase' = currentGamePhase /\ currentPlayer' = currentPlayer
         /\ (Fresh' <=> Fresh) /\ (Turn' <=> Turn)
<1>1. /\ calls # <<>> /\ Head(calls).op # "phaseActions"
      /\ UNCHANGED <<currentGamePhase, currentPlayer>>
  BY DEF NextGamePhase, Forward, SkipCombat, NextCombatStep, TriggersStep, Pop, OnChosen, OnAttackerOn,
     OnAttackerOff, OnBlocker, OnZoneChange, OnPhaseChange, OnCombatStepChange, OnDamageStackResolved,
     OnTriggers, OnOrder, OnFirstStrike, OnDamage, OnEndFirstStrike, OnEndDamage, Stepping,
     Delivering, Return, turnVars
<1>2. PICK C : Puts(C)
  BY <1>1, EnginePuts
<1>3. Acts(calls') <=> Acts(calls)
  BY <1>1, <1>2, ActsOn DEF Puts
<1> QED
  BY <1>1, <1>3, SameTime

(* When the engine makes a call of its own, its queue is calm, and what    *)
(* called it goes on with something else than the loop or a combat step.   *)
LEMMA CallTop ==
  ASSUME TypeOK, Control, NEW op \in {"nextGamePhase", "forward", "skipCombat", "enterPhase",
                                      "phaseActions", "nextCombatStep", "triggersStep"}, Return(op)
  PROVE  /\ calls # <<>> /\ Head(calls).op = op /\ Rest \in Seq(Call) /\ ~ Return("drain")
         /\ Running \/ Nested \/ NestedArrives
         /\ Running => eventsQueue = <<>>
         /\ Calm(Waiting)
         /\ Rest = <<>> \/ Head(Rest).op \notin {"drain", "nextCombatStep"}
<1>1. /\ calls # <<>> /\ Head(calls).op = op /\ Rest \in Seq(Call) /\ ~ Return("drain")
      /\ Running \/ Nested \/ NestedArrives
      /\ Running => eventsQueue = <<>>
  <2>1. calls # <<>> /\ Head(calls).op = op /\ ~ Return("drain")
    BY DEF Return
  <2>2. Rest \in Seq(Call)
    BY <2>1, CallSeqs DEF Rest, TypeOK
  <2>3. Running => eventsQueue = <<>>
    BY DEF Running
  <2> QED BY <2>1, <2>2, <2>3, EngineCalls
<1>2. CASE Running
  <2>1. Calm(Waiting)
    BY <1>1, <1>2, NothingWaits, CalmEvents
  <2>2. /\ phase \in Phase
        /\ Head(<<Do("phaseActions")>>).op = "phaseActions"
        /\ Head(<<Do("enterPhase")>>).op = "enterPhase"
        /\ Head(<<Skip(phase), Do("enterPhase")>>).op = "skipCombat"
        /\ Head(<<Do("forward"), Do("enterPhase")>>).op = "forward"
    <3>1. Head(<<Do("forward"), Do("enterPhase")>>) = Do("forward")
      BY Short
    <3>2. phase \in Phase
      BY DEF TypeOK
    <3> QED BY <3>1, <3>2, CallFacts, OneCall
  <2>3. \/ Rest = <<>> \/ Rest = <<Do("phaseActions")>> \/ Rest = <<Do("enterPhase")>>
        \/ Rest = <<Skip(phase), Do("enterPhase")>> \/ Rest = <<Do("forward"), Do("enterPhase")>>
    BY <1>1, <1>2, RunningCases
  <2>4. Rest = <<>> \/ Head(Rest).op \notin {"drain", "nextCombatStep"}
    BY <2>2, <2>3
  <2> QED BY <1>1, <2>1, <2>4
<1>3. CASE Nested \/ NestedArrives
  <2>1. Calm(Waiting) /\ Head(Rest).op # "drain" /\ Head(Rest).op # "nextCombatStep"
    BY <1>3, NestedFacts
  <2> QED BY <1>1, <2>1
<1> QED
  BY <1>1, <1>2, <1>3

(* A call that raises nothing leaves the queue calm.                       *)
LEMMA CallQuiet ==
  ASSUME TypeOK, Control, NEW op \in {"nextGamePhase", "forward", "skipCombat", "enterPhase",
                                      "phaseActions", "nextCombatStep", "triggersStep"}, Return(op),
         eventsQueue' = eventsQueue, NEW ops \in Seq(Call), calls' = ops \o Rest,
         ops = <<>> \/ Head(ops).op # "drain"
  PROVE  Calm(Waiting')
<1>1. Rest \in Seq(Call) /\ ~ Return("drain") /\ Calm(Waiting)
      /\ (Rest = <<>> \/ Head(Rest).op # "drain")
  BY CallTop
<1>2. ~ Return("drain")'
  <2>1. PICK k \in Seq(Call) : k = Rest /\ (k = <<>> \/ Head(k).op # "drain")
    BY <1>1
  <2>2. calls' = ops \o k
    BY <2>1
  <2> QED BY <2>1, <2>2, TopOf
<1>3. Waiting' = Waiting
  BY <1>1, <1>2, KeepsPending
<1> QED
  BY <1>1, <1>3

(* What a call raises waits behind the rest, and is as calm as that.       *)
LEMMA CallRaises ==
  ASSUME TypeOK, Control, NEW op \in {"nextGamePhase", "forward", "skipCombat", "enterPhase",
                                      "phaseActions", "nextCombatStep", "triggersStep"}, Return(op),
         NEW es \in Seq(Event), NEW k \in Seq(Call), Raise(es, k),
         k = Rest \/ k = <<>> \/ Head(k).op # "drain"
  PROVE  /\ Pending' = Pending \o es /\ Waiting' = Waiting \cup ToSet(es)
         /\ Calm(ToSet(es)) => Calm(Waiting')
<1>1. ~ Return("drain") /\ (k = <<>> \/ Head(k).op # "drain") /\ Calm(Waiting)
  BY CallTop
<1>2. Pending' = Pending \o es /\ Waiting' = Waiting \cup ToSet(es)
  BY <1>1, RaisePends
<1> QED
  BY <1>1, <1>2, CalmEvents

-----------------------------------------------------------------------------
(* The calls of the engine.                                                *)

(* Asking for a phase and moving to a combat step touch no creature.       *)
LEMMA CallsKeepViews ==
  ASSUME TypeOK, Control, CardsSound, Views(Waiting),
         NextGamePhase \/ SkipCombat \/ NextCombatStep \/ TriggersStep
  PROVE  CardsSound' /\ Views(Waiting)' /\ QueueFits'
<1>1. /\ UNCHANGED cardVars
      /\ inPlay' = inPlay /\ attacker' = attacker /\ defenser' = defenser
      /\ view' = view /\ viewBlk' = viewBlk
  BY DEF NextGamePhase, SkipCombat, NextCombatStep, TriggersStep, cardVars, guiVars
<1>2. /\ currentGamePhase' = currentGamePhase /\ currentPlayer' = currentPlayer
      /\ (Fresh' <=> Fresh) /\ (Turn' <=> Turn)
  BY EngineTime
<1>3. CardsSound'
  BY <1>1, <1>2, SameCards
<1>4. Calm(Waiting) /\ Calm(Waiting')
  <2>1. CASE NextGamePhase
    <3>1. Return("nextGamePhase") /\ eventsQueue' = eventsQueue
      BY <2>1 DEF NextGamePhase
    <3>2. Head(<<Do("nextCombatStep")>>).op = "nextCombatStep" /\ <<Do("nextCombatStep")>> \in Seq(Call)
      BY OneCall
    <3>3. /\ <<Do("forward"), Skip(phase), Do("enterPhase")>> \in Seq(Call)
          /\ Head(<<Do("forward"), Skip(phase), Do("enterPhase")>>).op = "forward"
      <4>1. phase \in Phase
        BY DEF TypeOK
      <4>2. Do("forward") \in Call /\ Skip(phase) \in Call /\ Do("enterPhase") \in Call
        BY <4>1, CallFacts
      <4>3. <<Do("forward"), Skip(phase), Do("enterPhase")>> \in Seq(Call)
        BY <4>2
      <4>4. Head(<<Do("forward"), Skip(phase), Do("enterPhase")>>) = Do("forward")
        BY Short
      <4> QED BY <4>3, <4>4, CallFacts
    <3>4. PICK ops \in Seq(Call) : calls' = ops \o Rest /\ Head(ops).op \in {"nextCombatStep", "forward"}
      BY <2>1, <3>2, <3>3 DEF NextGamePhase, Then, Skip
    <3> QED BY <3>1, <3>4, CallTop, CallQuiet
  <2>2. CASE SkipCombat
    <3>1. Return("skipCombat") /\ eventsQueue' = eventsQueue
      BY <2>2 DEF SkipCombat
    <3>2. <<Do("forward"), Do("forward")>> \in Seq(Call) /\ Head(<<Do("forward"), Do("forward")>>).op = "forward"
      <4>1. Do("forward") \in Call /\ Do("forward").op = "forward"
        BY CallFacts
      <4>2. <<Do("forward"), Do("forward")>> \in Seq(Call)
        BY <4>1
      <4>3. Head(<<Do("forward"), Do("forward")>>) = Do("forward")
        BY Short
      <4> QED BY <4>1, <4>2, <4>3
    <3>3. <<>> \in Seq(Call)
      BY CallSeqs
    <3>4. PICK ops \in Seq(Call) : calls' = ops \o Rest /\ (ops = <<>> \/ Head(ops).op = "forward")
      BY <2>2, <3>2, <3>3 DEF SkipCombat, Then
    <3> QED BY <3>1, <3>4, CallTop, CallQuiet
  <2>3. CASE NextCombatStep
    <3>1. Return("nextCombatStep")
      BY <2>3 DEF NextCombatStep
    <3>2. Calm(Waiting) /\ Rest \in Seq(Call)
      BY <3>1, CallTop
    <3>3. CASE combatStep = "BLOCKERS"
      <4>1. PICK t \in Seq(Call) : t = <<Do("triggersStep")>> /\ t # <<>> /\ Head(t).op = "triggersStep"
        BY OneCall
      <4>2. PICK k \in Seq(Call) : k = t \o Rest /\ Head(k) = Head(t)
        BY <3>2, <4>1, CallSeqs
      <4>3. PICK es \in Seq(Event) : es = <<[type |-> "BlockersChosen"]>> /\ ToSet(es) = {[type |-> "BlockersChosen"]}
        BY EventTypes, One, SetOfOne
      <4>4. Raise(es, k)
        BY <2>3, <3>3, <4>1, <4>2, <4>3 DEF NextCombatStep
      <4> QED BY <3>1, <3>2, <4>1, <4>2, <4>3, <4>4, CallRaises, CalmEvents
    <3>4. CASE combatStep = "END_DAMAGE"
      <4>1. PICK ops \in Seq(Call) : ops = <<>>
        BY CallSeqs
      <4>2. calls' = ops \o Rest /\ eventsQueue' = eventsQueue
        BY <2>3, <3>4, <4>1 DEF NextCombatStep, Then
      <4> QED BY <3>1, <3>2, <4>1, <4>2, CallQuiet
    <3>5. CASE combatStep \notin {"BLOCKERS", "END_DAMAGE"}
      <4>1. combatStep' \in CombatStep /\ Raise(<<Step(combatStep')>>, Rest)
        BY <2>3, <3>5 DEF NextCombatStep, StepAfter, TypeOK, CombatStep, Step
      <4>2. PICK es \in Seq(Event) : es = <<Step(combatStep')>> /\ ToSet(es) = {Step(combatStep')}
        BY <4>1, EventTypes, One, SetOfOne
      <4>3. Raise(es, Rest)
        BY <4>1, <4>2
      <4> QED BY <3>1, <3>2, <4>2, <4>3, CallRaises, CalmEvents
    <3> QED BY <3>3, <3>4, <3>5
  <2>4. CASE TriggersStep
    <3>1. Return("triggersStep") /\ Raise(<<Step("TRIGGERS")>>, Rest)
      BY <2>4 DEF TriggersStep, Step
    <3>2. Calm(Waiting) /\ Rest \in Seq(Call)
      BY <3>1, CallTop
    <3>3. PICK es \in Seq(Event) : es = <<Step("TRIGGERS")>> /\ ToSet(es) = {Step("TRIGGERS")}
      <4>1. Step("TRIGGERS") \in Event
        BY EventTypes DEF CombatStep
      <4> QED BY <4>1, One, SetOfOne
    <3>4. Raise(es, Rest)
      BY <3>1, <3>3
    <3> QED BY <3>1, <3>2, <3>3, <3>4, CallRaises, CalmEvents
  <2> QED BY <2>1, <2>2, <2>3, <2>4
<1> QED
  BY <1>1, <1>2, <1>3, <1>4, CalmViews

(* Nothing needs to be handled alone.                                      *)
LEMMA NoLoneFits ==
  ASSUME \A e \in Waiting' : ~ Lone(e)
  PROVE  QueueFits'
BY DEF QueueFits, LoneSound, LeavesAttack, HitsAttack, BlocksEarly, Lone

(* What departures raise need not be.                                      *)
LEMMA LeaveEventsFit ==
  ASSUME NEW C, NEW D, NEW e \in LeaveEvents(C, D)
  PROVE  ~ Lone(e) /\ e.type \in CardTypes
BY DEF LeaveEvents, Lone, CardTypes

(* The attackers phase is left by a request of its own.                    *)
LEMMA LeavingAttackers ==
  ASSUME TypeOK, Control, Forward, phase = COMBATATTACKERS
  PROVE  Running /\ currentGamePhase = COMBATATTACKERS
<1>1. Return("forward")
  BY DEF Forward
<1>2. calls # <<>> /\ Head(calls).op = "forward"
  BY <1>1, CallTop
<1>3. Running
  <2>1. ~ Nested
    BY <1>2, NestedCases DEF COMBATATTACKERS, COMBATBLOCKERS, COMBATDAMAGE
  <2> QED BY <1>1, <2>1, EngineCalls
<1>4. Leaving \/ Skipped(COMBATDAMAGE) \/ Skipped(COMBATBLOCKERS)
  BY <1>2, <1>3, RunningCases
<1> QED
  BY <1>3, <1>4 DEF Leaving, Here, Skipped

(* The ring moves on: only leaving the attackers phase is handled alone.   *)
LEMMA ForwardViews ==
  ASSUME TypeOK, Control, CardsSound, Views(Waiting), Forward
  PROVE  CardsSound' /\ Views(Waiting)' /\ QueueFits'
<1>1. /\ UNCHANGED cardVars
      /\ inPlay' = inPlay /\ attacker' = attacker /\ defenser' = defenser
      /\ view' = view /\ viewBlk' = viewBlk
  BY DEF Forward, cardVars, guiVars
<1>2. /\ currentGamePhase' = currentGamePhase /\ currentPlayer' = currentPlayer
      /\ (Fresh' <=> Fresh) /\ (Turn' <=> Turn)
  BY EngineTime
<1>3. CardsSound'
  BY <1>1, <1>2, SameCards
<1>4. Return("forward") /\ phase \in Phase /\ phase' \in Phase
  BY DEF Forward, TypeOK, Phase, BEFORE_BEGIN, AFTER_EOT
<1>5. Calm(Waiting) /\ Rest \in Seq(Call)
  BY <1>4, CallTop
<1>6. PICK e : e = TurnTo(phase, phase') /\ e \in Event /\ e.type = "PhaseChange" /\ e.from = phase
  BY <1>4, EventTypes
<1>7. PICK es \in Seq(Event) : es = <<e>> /\ ToSet(es) = {e} /\ Len(es) = 1
  <2>1. Len(<<e>>) = 1
    BY SMT
  <2>2. <<e>> \in Seq(Event) /\ ToSet(<<e>>) = {e}
    BY <1>6, One, SetOfOne
  <2> QED BY <2>1, <2>2
<1>8. Raise(es, Rest)
  BY <1>6, <1>7 DEF Forward, TurnTo
<1>9. /\ Pending' = Pending \o es /\ Waiting' = Waiting \cup {e}
      /\ Calm({e}) => Calm(Waiting')
  BY <1>4, <1>5, <1>7, <1>8, CallRaises
<1>10. CASE phase # COMBATATTACKERS
  <2>1. Calm(Waiting')
    BY <1>6, <1>9, <1>10, CalmEvents
  <2> QED BY <1>1, <1>2, <1>3, <1>5, <2>1, CalmViews
<1>11. CASE phase = COMBATATTACKERS
  <2>1. Running /\ currentGamePhase = COMBATATTACKERS
    BY <1>11, LeavingAttackers
  <2>3. Pending = <<>> /\ Waiting = {}
    BY <1>4, <2>1, CallTop, NothingWaits
  <2>4. Pending' = es /\ Waiting' = {e}
    BY <1>9, <2>3, EventSeqs
  <2>5. Views(Waiting)'
    <3>1. PICK W, V : W = Waiting /\ V = Waiting'
      OBVIOUS
    <3>2. Views(W) /\ \A x \in W \cup V : x.type \notin CardTypes
      BY <1>6, <2>3, <2>4, <3>1 DEF CardTypes
    <3>3. Views(V)
      BY <3>2, ViewsByCards
    <3>4. Views(V)'
      BY <1>1, <1>2, <3>3, SameViews
    <3> QED BY <3>1, <3>4, ViewsNext
  <2>6. QueueFits'
    <3>1. LoneSound'
      BY <1>7, <2>4 DEF LoneSound
    <3>2. LeavesAttack'
      BY <1>2, <2>1 DEF LeavesAttack, COMBATATTACKERS
    <3>3. HitsAttack'
      BY <1>6, <2>4 DEF HitsAttack
    <3>4. BlocksEarly'
      BY <1>6, <2>4 DEF BlocksEarly
    <3> QED BY <3>1, <3>2, <3>3, <3>4 DEF QueueFits
  <2> QED BY <1>3, <2>5, <2>6
<1> QED
  BY <1>10, <1>11

(* A phase is entered: nobody blocks before the attackers are chosen.      *)
LEMMA EnterPhaseViews ==
  ASSUME TypeOK, Control, CardsSound, Views(Waiting), EnterPhase
  PROVE  CardsSound' /\ Views(Waiting)' /\ QueueFits'
<1>1. /\ UNCHANGED cardVars
      /\ inPlay' = inPlay /\ attacker' = attacker /\ defenser' = defenser
      /\ view' = view /\ viewBlk' = viewBlk
  BY DEF EnterPhase, cardVars, guiVars
<1>2. /\ currentGamePhase' = phase /\ currentPlayer' = currentPlayer /\ Entering
      /\ ~ Opened'
      /\ currentGamePhase = BEFORE_BEGIN => Opened
  <2>1. /\ currentGamePhase' = phase /\ currentPlayer' = currentPlayer /\ Entering /\ Acts(calls')
        /\ currentGamePhase \notin {COMBATBLOCKERS, COMBATDAMAGE, COMBATEND} => ~ Acts(calls)
    BY EnterFacts
  <2>2. ~ Opened'
    BY <2>1 DEF Opened, Acts
  <2>3. currentGamePhase = BEFORE_BEGIN => Opened
    BY <2>1 DEF Opened, BEFORE_BEGIN, COMBATBLOCKERS, COMBATDAMAGE, COMBATEND
  <2> QED BY <2>1, <2>2, <2>3
<1>3. (Fresh' => Fresh) /\ (Turn' => Turn)
  <2>1. CASE Skipped(COMBATEND)
    <3>1. currentGamePhase = 6 /\ currentGamePhase' = 9
      BY <1>2, <2>1 DEF Skipped, COMBATATTACKERS, COMBATEND
    <3> QED BY <1>2, <3>1 DEF Fresh, Turn, UNTAP, COMBATATTACKERS, CLEANUP
  <2>2. ASSUME NEW p \in Phase, Left(p)
        PROVE  (Fresh' => Fresh) /\ (Turn' => Turn)
    <3>1. currentGamePhase = p /\ currentGamePhase' = (IF p = 13 THEN 0 ELSE p + 1) /\ p \in 0..13
      BY <1>2, <2>2 DEF Left, Succ, AFTER_EOT, BEFORE_BEGIN, Phase
    <3> QED BY <1>2, <3>1 DEF Fresh, Turn, UNTAP, COMBATATTACKERS, CLEANUP, BEFORE_BEGIN
  <2> QED BY <1>2, <2>1, <2>2 DEF Entering
<1>4. CardsSound'
  BY <1>1, <1>2, <1>3, SameCards
<1>5. Calm(Waiting) /\ Calm(Waiting')
  <2>1. Return("enterPhase") /\ eventsQueue' = eventsQueue
    BY DEF EnterPhase
  <2>2. PICK t \in Seq(Call) : t = <<Do("phaseActions")>> /\ t # <<>> /\ Head(t).op = "phaseActions"
    BY OneCall
  <2>3. PICK s \in Seq(Call) : s = <<Do("nextCombatStep")>> /\ s # <<>> /\ Head(s).op = "nextCombatStep"
    BY OneCall
  <2>4. calls' = (s \o t) \o Rest \/ calls' = (<<>> \o t) \o Rest
    BY <2>2, <2>3 DEF EnterPhase, Then
  <2>5. s \o t \in Seq(Call) /\ Head(s \o t).op = "nextCombatStep" /\ <<>> \o t = t
    BY <2>2, <2>3, CallSeqs
  <2>6. PICK ops \in Seq(Call) : calls' = ops \o Rest /\ Head(ops).op # "drain"
    BY <2>2, <2>4, <2>5
  <2> QED BY <2>1, <2>6, CallTop, CallQuiet
<1>6. Views(Waiting)'
  <2>1. PICK W, V : W = Waiting /\ V = Waiting'
    OBVIOUS
  <2>2. Views(W) /\ \A x \in W \cup V : x.type \notin CardTypes
    BY <1>5, <2>1 DEF Calm
  <2>3. Views(V)
    BY <2>2, ViewsByCards
  <2>4. currentGamePhase' = COMBATATTACKERS => FreshClear /\ Fresh
    BY <1>3 DEF CardsSound, Fresh, UNTAP, COMBATATTACKERS
  <2>5. Views(V)'
    BY <1>1, <2>2, <2>3, <2>4, EnterViews
  <2> QED BY <2>1, <2>5, ViewsNext
<1> QED
  BY <1>4, <1>5, <1>6, CalmFitsNext

(* The actions of a phase: only the start of a turn touches the creatures, *)
(* and makes all of them leave the combat.                                 *)
LEMMA ActionsKeepViews ==
  ASSUME TypeOK, Control, AttackersInPlay, CardsSound, Views(Waiting), PhaseActions
  PROVE  CardsSound' /\ Views(Waiting)' /\ QueueFits'
<1>1. /\ currentGamePhase' = currentGamePhase /\ view' = view /\ viewBlk' = viewBlk
      /\ Return("phaseActions")
  BY DEF PhaseActions, guiVars
<1>2. Rest \in Seq(Call) /\ Calm(Waiting)
  BY <1>1, CallTop
<1>3. CASE currentGamePhase # BEFORE_BEGIN
  <2>1. UNCHANGED cardVars
    BY <1>3 DEF PhaseActions
  <2>2. inPlay' = inPlay /\ attacker' = attacker /\ defenser' = defenser
    BY <2>1 DEF cardVars
  <2>3. (Fresh' => Fresh) /\ (Turn' => Turn) /\ ~ Opened'
    BY <1>1, <1>3 DEF Fresh, Turn, Opened
  <2>4. Turn' => currentPlayer' = currentPlayer
    <3>1. Turn' => currentGamePhase # AFTER_EOT
      BY <1>1, <2>3 DEF Turn, CLEANUP, AFTER_EOT, UNTAP
    <3>2. currentGamePhase # AFTER_EOT => currentPlayer' = currentPlayer
      BY <1>3 DEF PhaseActions
    <3> QED BY <3>1, <3>2
  <2>5. CardsSound'
    BY <2>1, <2>3, <2>4, SameCards
  <2>6. Calm(Waiting')
    <3>1. CASE currentGamePhase = COMBATBLOCKERS
      <4>1. Raise(<<[type |-> "AttackersChosen"]>>, Rest)
        BY <3>1 DEF PhaseActions, COMBATBLOCKERS, COMBATEND, AFTER_EOT, BEFORE_BEGIN
      <4>2. PICK es \in Seq(Event) : es = <<[type |-> "AttackersChosen"]>> /\ ToSet(es) = {[type |-> "AttackersChosen"]}
        BY EventTypes, One, SetOfOne
      <4>3. Raise(es, Rest)
        BY <4>1, <4>2
      <4> QED BY <1>1, <1>2, <4>2, <4>3, CallRaises, CalmEvents
    <3>2. CASE currentGamePhase # COMBATBLOCKERS
      <4>1. eventsQueue' = eventsQueue
            /\ (calls' = <<>> \o Rest \/ calls' = <<Do("nextGamePhase")>> \o Rest)
        BY <1>3, <3>2 DEF PhaseActions, Then
      <4>2. PICK ops \in Seq(Call) : calls' = ops \o Rest /\ (ops = <<>> \/ Head(ops).op # "drain")
        BY <4>1, CallSeqs, OneCall
      <4> QED BY <1>1, <4>1, <4>2, CallQuiet
    <3> QED BY <3>1, <3>2
  <2> QED BY <1>1, <1>2, <2>2, <2>5, <2>6, CalmViews
<1>4. CASE currentGamePhase = BEFORE_BEGIN
  <2>1. Running
    <3>1. ~ Nested /\ ~ NestedArrives
      BY <1>4, NestedInCombat DEF BEFORE_BEGIN, COMBATBLOCKERS, COMBATDAMAGE, COMBATEND
    <3> QED BY <1>1, <3>1, CallTop
  <2>2. Pending = <<>> /\ Waiting = {}
    BY <1>1, <2>1, CallTop, NothingWaits
  <2>3. PICK C \in SUBSET inPlay, D \in SUBSET inPlay : C = inPlay /\ D = {}
    OBVIOUS
  <2>4. LeaveCombat(C, D) /\ Raise(Events(LeaveEvents(C, D)), <<Do("nextGamePhase")>> \o Rest)
    <3>1. /\ LeaveCombat(inPlay, {})
          /\ Raise(Events(LeaveEvents(inPlay, {})), <<Do("nextGamePhase")>> \o Rest)
      BY <1>4 DEF PhaseActions, AFTER_EOT, BEFORE_BEGIN, COMBATEND, COMBATBLOCKERS
    <3> QED BY <2>3, <3>1
  <2>5. PICK E : E = LeaveEvents(C, D)
    OBVIOUS
  <2>6. C \in SUBSET Creature /\ D \in SUBSET Creature
    BY <2>3 DEF TypeOK
  <2>7. E \in SUBSET Event /\ IsFiniteSet(E)
    BY <2>5, <2>6, LeaveEventsTyped
  <2>8. PICK es \in Seq(Event) : es = Events(E) /\ ToSet(es) = E
    BY <2>7, SetOfEvents, EventsInOrder
  <2>9. PICK k \in Seq(Call) : k = <<Do("nextGamePhase")>> \o Rest /\ Head(k).op # "drain"
    <3>1. PICK t \in Seq(Call) : t = <<Do("nextGamePhase")>> /\ t # <<>> /\ Head(t).op = "nextGamePhase"
      BY OneCall
    <3>2. t \o Rest \in Seq(Call) /\ Head(t \o Rest) = Head(t)
      BY <1>2, <3>1, CallSeqs
    <3> QED BY <3>1, <3>2
  <2>10. Raise(es, k)
    BY <2>4, <2>5, <2>8, <2>9
  <2>11. Waiting' = Waiting \cup ToSet(es)
    BY <1>1, <2>9, <2>10, CallRaises
  <2>12. Waiting' = E
    BY <2>2, <2>8, <2>11
  <2>13. CardsSound'
    BY <2>3, <2>4, LeavesSound
  <2>14. PICK W : W = Waiting
    OBVIOUS
  <2>15. Views(W) /\ \A e \in W : e.type \notin CardTypes
    BY <2>2, <2>14
  <2>16. Views(E)'
    BY <1>1, <2>4, <2>5, <2>15, LeaveViews
  <2>17. Views(Waiting)'
    BY <2>12, <2>16, ViewsNext
  <2>18. QueueFits'
    BY <2>5, <2>12, LeaveEventsFit, NoLoneFits
  <2> QED BY <2>13, <2>17, <2>18
<1> QED
  BY <1>3, <1>4

-----------------------------------------------------------------------------
(* The loop of receiveEvent.                                               *)

(* The same queue and the same cards.                                      *)
LEMMA SameQueue ==
  ASSUME QueueFits, Pending' = Pending, currentGamePhase' = currentGamePhase, defenser' = defenser,
         combatStep' = combatStep
  PROVE  QueueFits'
<1>1. Waiting' = Waiting
  BY DEF Waiting
<1> QED
  BY <1>1 DEF QueueFits, LoneSound, LeavesAttack, HitsAttack, BlocksEarly

(* The event handled is taken off: the same wait.                          *)
LEMMA PopPends ==
  ASSUME TypeOK, Control, Pop
  PROVE  Pending' = Pending /\ Waiting' = Waiting
<1>1. Return("pop") /\ calls # <<>> /\ ~ Return("drain") /\ eventsQueue # <<>>
      /\ eventsQueue' = Tail(eventsQueue)
  <2>1. Return("pop") /\ eventsQueue' = Tail(eventsQueue)
    BY DEF Pop
  <2>2. calls # <<>> /\ ~ Return("drain")
    BY <2>1 DEF Return
  <2> QED BY <2>1, <2>2, PopFindsEvent
<1>2. Pending = Tail(eventsQueue)
  BY <1>1 DEF Pending
<1>3. Pending' = Tail(eventsQueue)
  <2>1. CASE eventsQueue' = <<>>
    BY <1>1, <2>1 DEF Pending
  <2>2. CASE eventsQueue' # <<>>
    <3>1. Rest \in Seq(Call)
      BY <1>1, CallSeqs DEF Rest, TypeOK
    <3>2. PICK t \in Seq(Call) : t = <<Do("drain")>> /\ t # <<>> /\ Head(t).op = "drain"
      BY OneCall
    <3>3. calls' = t \o Rest
      BY <2>2, <3>2 DEF Pop
    <3>4. Return("drain")'
      BY <3>1, <3>2, <3>3, TopOf DEF Return
    <3> QED BY <1>1, <2>2, <3>4 DEF Pending
  <2> QED BY <2>1, <2>2
<1>4. Pending' = Pending /\ Waiting' = Waiting
  BY <1>2, <1>3 DEF Waiting
<1> QED
  BY <1>4

(* What waits still waits once the event handled is taken off.             *)
LEMMA PopKeepsViews ==
  ASSUME TypeOK, Control, CardsSound, Views(Waiting), QueueFits, Pop
  PROVE  CardsSound' /\ Views(Waiting)' /\ QueueFits'
<1>1. /\ UNCHANGED cardVars
      /\ inPlay' = inPlay /\ attacker' = attacker /\ defenser' = defenser
      /\ view' = view /\ viewBlk' = viewBlk
  BY DEF Pop, cardVars, guiVars
<1>2. /\ currentGamePhase' = currentGamePhase /\ currentPlayer' = currentPlayer
      /\ (Fresh' <=> Fresh) /\ (Turn' <=> Turn)
  BY EngineTime
<1>3. CardsSound'
  BY <1>1, <1>2, SameCards
<1>4. Pending' = Pending /\ Waiting' = Waiting
  BY PopPends
<1>5. QueueFits'
  <2>1. combatStep' = combatStep
    BY DEF Pop
  <2> QED BY <1>1, <1>2, <1>4, <2>1, SameQueue
<1>6. Views(Waiting)'
  <2>1. PICK W : W = Waiting
    OBVIOUS
  <2>2. Views(W)'
    BY <1>1, <1>2, <2>1, SameViews
  <2> QED BY <1>4, <2>1, <2>2, ViewsNext
<1> QED
  BY <1>3, <1>5, <1>6

(* What a delivery takes off the events that wait, and puts behind them.   *)
LEMMA Delivers ==
  ASSUME TypeOK, Control, QueueFits, NEW type, Delivering(type),
         NEW ops \in Seq(Call), Delivered(ops), ops = <<>> \/ Head(ops).op # "drain",
         NEW es \in Seq(Event), eventsQueue' = eventsQueue \o es
  PROVE  /\ Delivery \in Event /\ Delivery.type = type
         /\ Pending' = Tail(eventsQueue) \o es /\ Tail(eventsQueue) \in Seq(Event)
         /\ Waiting = {Delivery} \cup ToSet(Tail(eventsQueue))
         /\ Waiting' = ToSet(Tail(eventsQueue)) \cup ToSet(es)
         /\ \A e \in ToSet(Tail(eventsQueue)) : ~ Lone(e)
         /\ Lone(Delivery) => Tail(eventsQueue) = <<>>
<1>1. /\ eventsQueue # <<>> /\ eventsQueue \in Seq(Event) /\ Rest \in Seq(Call)
      /\ Delivery = Head(eventsQueue) /\ Delivery \in Event /\ Delivery.type = type
  BY DeliveryCases
<1>2. Return("drain")
  BY DEF Delivering
<1>3. ~ Return("drain")'
  <2>1. PICK t \in Seq(Call) : t = <<Do("pop")>> /\ t # <<>> /\ Head(t).op = "pop"
    BY OneCall
  <2>2. PICK s \in Seq(Call) : s = ops \o t /\ s # <<>> /\ Head(s).op # "drain"
    <3>1. ops \o t \in Seq(Call) /\ ops \o t # <<>>
      BY <2>1, CallSeqs
    <3>2. ops = <<>> => ops \o t = t
      BY <2>1, CallSeqs
    <3>3. ops # <<>> => Head(ops \o t) = Head(ops)
      BY <2>1, CallSeqs
    <3> QED BY <2>1, <3>1, <3>2, <3>3
  <2>3. calls' = s \o Rest
    BY <2>1, <2>2 DEF Delivered
  <2> QED BY <1>1, <2>2, <2>3, TopOf
<1>4. Pending = eventsQueue
  BY <1>1, <1>2 DEF Pending
<1>5. Tail(eventsQueue) \in Seq(Event)
  BY <1>1, EventSeqs
<1>6. eventsQueue' # <<>> /\ Tail(eventsQueue') = Tail(eventsQueue) \o es
  BY <1>1, Behind
<1>7. Pending' = Tail(eventsQueue) \o es
  BY <1>3, <1>6 DEF Pending
<1>8. Waiting = {Delivery} \cup ToSet(Tail(eventsQueue))
  BY <1>1, <1>4, SetOfRest DEF Waiting
<1>9. Waiting' = ToSet(Tail(eventsQueue)) \cup ToSet(es)
  BY <1>5, <1>7, SetOfConcat, ZenonT(60) DEF Waiting
<1>10. Len(eventsQueue) = 1 => Tail(eventsQueue) = <<>>
  <2>1. Len(eventsQueue) = 1 => Len(Tail(eventsQueue)) = 0
    BY <1>1, HeadTailProperties
  <2> QED BY <1>5, <2>1, EmptySeq
<1>11. \A e \in Waiting : Lone(e) => Tail(eventsQueue) = <<>>
  BY <1>4, <1>10 DEF QueueFits, LoneSound
<1>12. \A e \in ToSet(Tail(eventsQueue)) : ~ Lone(e)
  BY <1>8, <1>11, SetOfOne
<1> QED
  BY <1>1, <1>5, <1>7, <1>8, <1>9, <1>11, <1>12

(* A listener that raises nothing: one event less waits.                   *)
LEMMA DeliversNothing ==
  ASSUME TypeOK, Control, QueueFits, NEW type, Delivering(type),
         NEW ops \in Seq(Call), Delivered(ops), ops = <<>> \/ Head(ops).op # "drain",
         eventsQueue' = eventsQueue
  PROVE  /\ Delivery \in Event /\ Delivery.type = type
         /\ Waiting = {Delivery} \cup Waiting' /\ QueueFits'
         /\ Lone(Delivery) => Waiting' = {}
<1>1. PICK es \in Seq(Event) : es = <<>>
  BY EventSeqs
<1>2. eventsQueue' = eventsQueue \o es
  BY <1>1, EventSeqs DEF TypeOK
<1>3. PICK T : T = ToSet(Tail(eventsQueue))
  OBVIOUS
<1>4. /\ Delivery \in Event /\ Delivery.type = type
      /\ Waiting = {Delivery} \cup T /\ Waiting' = T \cup ToSet(es)
      /\ \A e \in T : ~ Lone(e)
      /\ Lone(Delivery) => Tail(eventsQueue) = <<>>
  BY <1>2, <1>3, Delivers
<1>5. Waiting' = T
  BY <1>1, <1>4, SetOfOne
<1>6. Lone(Delivery) => T = {}
  BY <1>3, <1>4, SetOfOne
<1> QED
  BY <1>4, <1>5, <1>6, NoLoneFits

(* No call, and one the listeners make, put in front of the pop.           *)
LEMMA ListenerCalls ==
  /\ <<>> \in Seq(Call)
  /\ <<Do("nextGamePhase")>> \in Seq(Call) /\ Head(<<Do("nextGamePhase")>>).op # "drain"
  /\ <<Do("nextCombatStep")>> \in Seq(Call) /\ Head(<<Do("nextCombatStep")>>).op # "drain"
BY CallSeqs, OneCall

(* An event about no creature is handled, and no creature touched.         *)
LEMMA OtherViews ==
  ASSUME NEW T, NEW d, Views({d} \cup T), d.type \notin CardTypes,
         currentGamePhase' = currentGamePhase, inPlay' = inPlay,
         attacker' = attacker, defenser' = defenser, view' = view, viewBlk' = viewBlk
  PROVE  Views(T)'
<1>1. PICK W : W = {d} \cup T
  OBVIOUS
<1>2. Views(W)
  BY <1>1
<1>3. Views(T)
  BY <1>1, <1>2, ViewsByCards
<1> QED
  BY <1>3, SameViews

(* The events about creatures, and those no listener changes state on.     *)
LEMMA CardEventsViews ==
  ASSUME TypeOK, Control, CardsSound, Views(Waiting), QueueFits,
         OnChosen \/ OnAttackerOn \/ OnAttackerOff \/ OnBlocker \/ OnZoneChange
  PROVE  CardsSound' /\ Views(Waiting)' /\ QueueFits'
<1>1. /\ UNCHANGED cardVars /\ eventsQueue' = eventsQueue /\ Delivered(<<>>)
      /\ inPlay' = inPlay /\ attacker' = attacker /\ defenser' = defenser
  BY DEF OnChosen, OnAttackerOn, OnAttackerOff, OnBlocker, OnZoneChange, cardVars
<1>2. /\ currentGamePhase' = currentGamePhase /\ currentPlayer' = currentPlayer
      /\ (Fresh' <=> Fresh) /\ (Turn' <=> Turn)
  BY EngineTime
<1>3. CardsSound'
  BY <1>1, <1>2, SameCards
<1>4. PICK ops \in Seq(Call) : ops = <<>>
  BY ListenerCalls
<1>5. ASSUME NEW type, Delivering(type)
      PROVE  /\ Delivery \in Event /\ Delivery.type = type
             /\ Waiting = {Delivery} \cup Waiting' /\ QueueFits'
             /\ Lone(Delivery) => Waiting' = {}
  <2>1. Delivered(ops)
    BY <1>1, <1>4
  <2> QED BY <1>1, <1>4, <1>5, <2>1, DeliversNothing
<1>6. PICK d, T : d = Delivery /\ T = Waiting'
  OBVIOUS
<1>7. ASSUME NEW type, Delivering(type)
      PROVE  d \in Event /\ d.type = type /\ Views({d} \cup T) /\ (Lone(d) => T = {})
  <2>1. Waiting = {d} \cup T /\ d \in Event /\ d.type = type /\ (Lone(d) => T = {})
    BY <1>5, <1>6, <1>7
  <2>2. PICK W : W = Waiting
    OBVIOUS
  <2> QED BY <2>1, <2>2
<1>8. CASE OnChosen
  <2>1. PICK type \in {"AttackersChosen", "BlockersChosen"} : Delivering(type)
    BY <1>8 DEF OnChosen
  <2>2. view' = view /\ viewBlk' = viewBlk
    BY <1>8 DEF OnChosen, guiVars
  <2>3. Views({d} \cup T) /\ d.type \notin CardTypes
    <3>1. Views({d} \cup T) /\ d.type = type
      BY <1>7, <2>1
    <3>2. type \notin CardTypes
      BY DEF CardTypes
    <3> QED BY <3>1, <3>2
  <2>4. Views(T)'
    BY <1>1, <1>2, <2>2, <2>3, OtherViews
  <2> QED BY <1>3, <1>5, <1>6, <2>1, <2>4, ViewsNext
<1>9. CASE OnAttackerOn
  <2>1. Delivering("AttackerOn")
    BY <1>9 DEF OnAttackerOn
  <2>2. Views({d} \cup T) /\ d.type = "AttackerOn"
    BY <1>7, <2>1
  <2>3. Views(T)'
    BY <1>6, <1>9, <2>2, AttackerOnViews
  <2> QED BY <1>3, <1>5, <1>6, <2>1, <2>3, ViewsNext
<1>10. CASE OnAttackerOff
  <2>1. /\ Delivering("AttackerOff")
        /\ \/ Delivery.card \in view /\ DropAttacker(Delivery.card)
           \/ Delivery.card \notin view /\ UNCHANGED <<view, viewBlk>>
    BY <1>10 DEF OnAttackerOff
  <2>2. Views({d} \cup T) /\ d.type = "AttackerOff" /\ d \in Event
    BY <1>7, <2>1
  <2>3. PICK c \in Creature : c = d.card
    BY <2>2, EventFacts
  <2>4. view' = view \ {c} /\ \A a \in view \ {c} : viewBlk'[a] = viewBlk[a]
    <3>1. CASE DropAttacker(c)
      BY <3>1, Dropped
    <3>2. CASE c \notin view /\ UNCHANGED <<view, viewBlk>>
      BY <3>2
    <3> QED BY <1>6, <2>1, <2>3, <3>1, <3>2
  <2>5. Views(T)'
    BY <1>1, <1>2, <2>2, <2>3, <2>4, DropViews
  <2> QED BY <1>3, <1>5, <1>6, <2>1, <2>5, ViewsNext
<1>11. CASE OnBlocker
  <2>1. Delivering("Blocker")
    BY <1>11 DEF OnBlocker
  <2>2. Views({d} \cup T) /\ d.type = "Blocker" /\ (Lone(d) => T = {})
    BY <1>7, <2>1
  <2>3. d.after # NoCard => T = {}
    BY <2>2 DEF Lone
  <2>4. Views(T)'
    BY <1>6, <1>11, <2>2, <2>3, BlockerViews
  <2> QED BY <1>3, <1>5, <1>6, <2>1, <2>4, ViewsNext
<1>12. CASE OnZoneChange
  <2>1. Delivering("ZoneChange")
    BY <1>12 DEF OnZoneChange
  <2>2. Views({d} \cup T) /\ d.type = "ZoneChange"
    BY <1>7, <2>1
  <2>3. Views(T)'
    BY <1>6, <1>12, <2>2, ZoneChangeViews
  <2> QED BY <1>3, <1>5, <1>6, <2>1, <2>3, ViewsNext
<1> QED
  BY <1>8, <1>9, <1>10, <1>11, <1>12

(* Events of two kinds, raised one kind after the other.                   *)
LEMMA TwoKinds ==
  ASSUME NEW A \in SUBSET Event, NEW B \in SUBSET Event, IsFiniteSet(A), IsFiniteSet(B)
  PROVE  \E es \in Seq(Event) : es = Events(A) \o Events(B) /\ ToSet(es) = A \cup B
<1>1. PICK s \in Seq(Event), t \in Seq(Event) :
        s = Events(A) /\ t = Events(B) /\ ToSet(s) = A /\ ToSet(t) = B
  BY EventsInOrder, SetOfEvents
<1>2. s \o t \in Seq(Event) /\ ToSet(s \o t) = A \cup B
  BY <1>1, EventSeqs, SetOfConcat
<1> QED
  BY <1>1, <1>2

(* One event of a kind for each creature of a set.                         *)
LEMMA CardEvents ==
  ASSUME NEW t \in {"AttackerOn", "AttackerOff", "ZoneChange"}, NEW C \in SUBSET Creature,
         NEW E, E = {[type |-> t, card |-> c] : c \in C}
  PROVE  /\ E \in SUBSET Event /\ IsFiniteSet(E)
         /\ \A e \in E : ~ Lone(e)
<1> DEFINE f == [c \in Creature |-> [type |-> t, card |-> c]]
<1>1. E = {f[c] : c \in C}
  OBVIOUS
<1>2. \A c \in Creature : f[c] \in Event /\ ~ Lone(f[c])
  BY EventTypes DEF Lone
<1> HIDE DEF f
<1>3. IsFiniteSet({f[c] : c \in C})
  BY FinitelyMany
<1> QED
  BY <1>1, <1>2, <1>3

(* A change of phase is told; leaving the attackers phase, some creatures  *)
(* are made to attack and others are taken off the attack.                 *)
LEMMA PhaseChangeViews ==
  ASSUME TypeOK, Control, AttackersInPlay, CardsSound, Views(Waiting), QueueFits, OnPhaseChange
  PROVE  CardsSound' /\ Views(Waiting)' /\ QueueFits'
<1>1. /\ Delivering("PhaseChange") /\ Delivered(<<>>)
      /\ UNCHANGED <<inPlay, defenser, blockers, blocked, view, viewBlk>>
  BY DEF OnPhaseChange
<1>2. /\ currentGamePhase' = currentGamePhase /\ currentPlayer' = currentPlayer
      /\ (Fresh' <=> Fresh) /\ (Turn' <=> Turn)
  BY EngineTime
<1>3. PICK ops \in Seq(Call) : ops = <<>> /\ Delivered(ops)
  BY <1>1, ListenerCalls
<1>4. PICK d : d = Delivery
  OBVIOUS
<1>5. CASE d.from # COMBATATTACKERS
  <2>1. attacker' = attacker /\ eventsQueue' = eventsQueue
    BY <1>4, <1>5 DEF OnPhaseChange
  <2>2. PICK T : T = Waiting'
    OBVIOUS
  <2>3. Waiting = {d} \cup T /\ QueueFits' /\ d.type = "PhaseChange"
    BY <1>1, <1>3, <1>4, <2>1, <2>2, DeliversNothing
  <2>4. CardsSound'
    <3>1. UNCHANGED cardVars
      BY <1>1, <2>1 DEF cardVars
    <3> QED BY <1>2, <3>1, SameCards
  <2>5. Views({d} \cup T)
    <3>1. PICK W : W = Waiting
      OBVIOUS
    <3> QED BY <2>3, <3>1
  <2>6. d.type \notin CardTypes
    BY <2>3 DEF CardTypes
  <2>7. Views(T)'
    BY <1>1, <1>2, <2>1, <2>5, <2>6, OtherViews
  <2> QED BY <2>2, <2>3, <2>4, <2>7, ViewsNext
<1>6. CASE d.from = COMBATATTACKERS
  <2> DEFINE own == {c \in inPlay : Owner[c] = currentPlayer}
  <2>1. PICK forced \in SUBSET (own \ attacker), tapped \in SUBSET (own \cap attacker) :
          /\ attacker' = (attacker \cup forced) \ tapped
          /\ eventsQueue' = eventsQueue
               \o Events({[type |-> "AttackerOn", card |-> c] : c \in forced})
               \o Events({[type |-> "AttackerOff", card |-> c] : c \in tapped})
    BY <1>4, <1>6 DEF OnPhaseChange
  <2>2. PICK A, B : /\ A = {[type |-> "AttackerOn", card |-> c] : c \in forced}
                    /\ B = {[type |-> "AttackerOff", card |-> c] : c \in tapped}
    OBVIOUS
  <2>3. forced \in SUBSET Creature /\ tapped \in SUBSET Creature
    BY <2>1 DEF TypeOK
  <2>4. /\ A \in SUBSET Event /\ IsFiniteSet(A) /\ \A e \in A : ~ Lone(e)
        /\ B \in SUBSET Event /\ IsFiniteSet(B) /\ \A e \in B : ~ Lone(e)
    <3>1. A \in SUBSET Event /\ IsFiniteSet(A) /\ \A e \in A : ~ Lone(e)
      BY <2>2, <2>3, CardEvents
    <3>2. B \in SUBSET Event /\ IsFiniteSet(B) /\ \A e \in B : ~ Lone(e)
      BY <2>2, <2>3, CardEvents
    <3> QED BY <3>1, <3>2
  <2>5. PICK es \in Seq(Event) : es = Events(A) \o Events(B) /\ ToSet(es) = A \cup B
    BY <2>4, TwoKinds
  <2>6. eventsQueue' = eventsQueue \o es
    <3>1. PICK s \in Seq(Event), t \in Seq(Event) : s = Events(A) /\ t = Events(B)
      BY <2>4, EventsInOrder
    <3>2. eventsQueue' = (eventsQueue \o s) \o t
      BY <2>1, <2>2, <3>1
    <3>3. PICK q \in Seq(Event) : q = eventsQueue
      BY DEF TypeOK
    <3>4. (q \o s) \o t = q \o (s \o t)
      BY ConcatAssociative, SMTT(60)
    <3> QED BY <2>5, <3>1, <3>2, <3>3, <3>4
  <2>7. PICK U : U = ToSet(Tail(eventsQueue))
    OBVIOUS
  <2>8. /\ d \in Event /\ d.type = "PhaseChange"
        /\ Waiting = {d} \cup U /\ Waiting' = U \cup ToSet(es)
        /\ Lone(d) => Tail(eventsQueue) = <<>>
    BY <1>1, <1>3, <1>4, <2>6, <2>7, Delivers
  <2>9. U = {}
    <3>1. Lone(d)
      BY <1>6, <2>8 DEF Lone
    <3> QED BY <2>7, <2>8, <3>1, SetOfOne
  <2>10. Waiting = {d} /\ Waiting' = A \cup B
    BY <2>5, <2>8, <2>9
  <2>11. currentGamePhase = COMBATATTACKERS
    BY <1>6, <2>8, <2>10 DEF QueueFits, LeavesAttack
  <2>12. CardsSound'
    <3>1. \A c \in attacker' \ attacker : c \in Creature /\ Owner[c] = currentPlayer
      BY <2>1 DEF TypeOK
    <3> QED BY <1>1, <1>2, <2>11, <3>1, ToggleAttackerSound
  <2>13. Views(Waiting)'
    <3>1. PICK W : W = {d}
      OBVIOUS
    <3>2. Views(W) /\ \A e \in W : e.type \notin CardTypes
      <4>1. W = Waiting
        BY <2>10, <3>1
      <4>2. \A e \in W : e.type \notin CardTypes
        BY <2>8, <3>1 DEF CardTypes
      <4> QED BY <4>1, <4>2
    <3>3. PICK E : E = A \cup B
      OBVIOUS
    <3>4. /\ forced \in SUBSET (inPlay \ attacker) /\ tapped \in SUBSET attacker /\ tapped \subseteq inPlay
          /\ attacker' = (attacker \cup forced) \ tapped
      BY <2>1
    <3>5. E = {[type |-> "AttackerOn", card |-> c] : c \in forced}
                \cup {[type |-> "AttackerOff", card |-> c] : c \in tapped}
      BY <2>2, <3>3
    <3>6. Views(E)'
      BY <1>1, <1>2, <2>11, <3>2, <3>4, <3>5, AttackViews
    <3> QED BY <2>10, <3>3, <3>6, ViewsNext
  <2>14. QueueFits'
    BY <2>4, <2>10, NoLoneFits
  <2> QED BY <2>12, <2>13, <2>14
<1> QED
  BY <1>5, <1>6

(* First strike damage dealt in the blockers phase hits attackers only.    *)
LEMMA FirstHitsAttack ==
  ASSUME TypeOK, CardsSound, NEW W, Views(W), \A e \in W : e.type \notin CardTypes,
         \A a \in view : Strike[a] = "normal",
         NEW c, NEW p \in Assignment("FIRST_STRIKE"), p[2] = c
  PROVE  defenser[c] = NoCard
<1>1. view = Fighting
  BY ViewsSettled
<1>2. \A a \in view : ~ Strikes(a, "FIRST_STRIKE")
  BY DEF Strikes
<1>3. p[2] \in view
  BY <1>2 DEF Assignment
<1>4. c \in attacker
  BY <1>1, <1>3 DEF Fighting
<1> QED
  BY <1>4 DEF CardsSound, NoneBlocks

(* Damage is resolved: who is hit in the blockers phase blocks nobody.     *)
LEMMA ResolveViews ==
  ASSUME TypeOK, Control, CardsSound, Views(Waiting), QueueFits, NoFirst,
         NEW s \in {"END_FIRST_STRIKE", "END_DAMAGE"}, Stepping(s),
         NEW A \in SUBSET (Creature \X Creature),
         s = "END_FIRST_STRIKE" => A = Assignment("FIRST_STRIKE"),
         NEW otherwise \in {"nextGamePhase", "nextCombatStep"},
         ResolveDamage(s, A, otherwise),
         currentGamePhase' = currentGamePhase, inPlay' = inPlay,
         attacker' = attacker, defenser' = defenser, view' = view, viewBlk' = viewBlk
  PROVE  Views(Waiting)' /\ QueueFits'
<1>1. /\ combatStep = s /\ Here /\ Arriving /\ Tail(eventsQueue) = <<>>
      /\ Delivering("CombatStepChange") /\ eventsQueue \in Seq(Event)
  BY SteppingCases DEF Stepping
<1>2. PICK d : d = Delivery
  OBVIOUS
<1>3. CASE eventsQueue' = eventsQueue /\ Delivered(<<Do(otherwise)>>)
  <2>1. PICK ops \in Seq(Call) : ops = <<Do(otherwise)>> /\ Head(ops).op # "drain"
    BY ListenerCalls
  <2>2. PICK T : T = Waiting'
    OBVIOUS
  <2>3. Waiting = {d} \cup T /\ QueueFits' /\ d.type = "CombatStepChange"
    <3>1. Delivered(ops)
      BY <1>3, <2>1
    <3> QED BY <1>1, <1>2, <1>3, <2>1, <2>2, <3>1, DeliversNothing
  <2>4. Views({d} \cup T) /\ d.type \notin CardTypes
    <3>1. PICK W : W = Waiting
      OBVIOUS
    <3>2. d.type \notin CardTypes
      BY <2>3 DEF CardTypes
    <3> QED BY <2>3, <3>1, <3>2
  <2>5. Views(T)'
    BY <2>4, OtherViews
  <2> QED BY <2>2, <2>3, <2>5, ViewsNext
<1>4. CASE Delivered(<<>>) /\ eventsQueue' = Append(eventsQueue,
               [type |-> "DamageStackResolved", hit |-> {p[2] : p \in A}])
  <2>1. PICK e \in Event : e = [type |-> "DamageStackResolved", hit |-> {p[2] : p \in A}]
    <3>1. {p[2] : p \in A} \in SUBSET Creature
      OBVIOUS
    <3> QED BY <3>1, EventTypes
  <2>2. PICK es \in Seq(Event) : es = <<e>> /\ ToSet(es) = {e} /\ Len(es) = 1
    <3>1. Len(<<e>>) = 1
      BY SMT
    <3>2. <<e>> \in Seq(Event) /\ ToSet(<<e>>) = {e}
      BY One, SetOfOne
    <3> QED BY <3>1, <3>2
  <2>3. eventsQueue' = eventsQueue \o es
    <3>1. eventsQueue' = Append(eventsQueue, e)
      BY <1>4, <2>1
    <3> QED BY <1>1, <2>2, <3>1, AppendIsConcat
  <2>4. PICK ops \in Seq(Call) : ops = <<>> /\ Delivered(ops)
    BY <1>4, ListenerCalls
  <2>5. PICK T : T = ToSet(Tail(eventsQueue))
    OBVIOUS
  <2>6. /\ d.type = "CombatStepChange" /\ Waiting = {d} \cup T
        /\ Pending' = <<>> \o es /\ Waiting' = T \cup {e}
    BY <1>1, <1>2, <2>2, <2>3, <2>4, <2>5, Delivers
  <2>7. T = {} /\ <<>> \o es = es
    BY <1>1, <2>2, <2>5, SetOfOne, EventSeqs
  <2>8. Waiting = {d} /\ Pending' = es /\ Waiting' = {e}
    BY <2>6, <2>7
  <2>9. PICK W, V : W = {d} /\ V = {e}
    OBVIOUS
  <2>10. Views(W) /\ (\A x \in W \cup V : x.type \notin CardTypes)
    <3>1. W = Waiting
      BY <2>8, <2>9
    <3>2. d.type \notin CardTypes /\ e.type \notin CardTypes
      BY <2>1, <2>6 DEF CardTypes
    <3> QED BY <2>9, <3>1, <3>2
  <2>11. Views(Waiting)'
    <3>1. Views(V)
      BY <2>10, ViewsByCards
    <3>2. Views(V)'
      BY <3>1, SameViews
    <3> QED BY <2>8, <2>9, <3>2, ViewsNext
  <2>12. currentGamePhase = COMBATBLOCKERS => \A c \in e.hit : defenser[c] = NoCard
    <3> SUFFICES ASSUME currentGamePhase = COMBATBLOCKERS, NEW c \in e.hit
                 PROVE  defenser[c] = NoCard
      OBVIOUS
    <3>1. phase = COMBATBLOCKERS
      BY <1>1 DEF Here
    <3>2. s = "END_FIRST_STRIKE"
      BY <1>1, <3>1 DEF Arriving, COMBATBLOCKERS, COMBATDAMAGE
    <3>3. \A a \in view : Strike[a] = "normal"
      BY <1>1, <3>1, <3>2 DEF NoFirst
    <3>4. PICK p \in A : p[2] = c
      BY <2>1
    <3> QED BY <2>9, <2>10, <3>2, <3>3, <3>4, FirstHitsAttack
  <2>13. QueueFits'
    <3>1. LoneSound'
      BY <2>2, <2>8 DEF LoneSound
    <3>2. LeavesAttack'
      BY <2>1, <2>8 DEF LeavesAttack
    <3>3. HitsAttack'
      BY <2>8, <2>12 DEF HitsAttack
    <3>4. BlocksEarly'
      BY <2>1, <2>8 DEF BlocksEarly
    <3> QED BY <3>1, <3>2, <3>3, <3>4 DEF QueueFits
  <2> QED BY <2>11, <2>13
<1> QED
  BY <1>3, <1>4 DEF ResolveDamage

(* GuiCombat is told of a combat step.                                     *)
LEMMA StepViews ==
  ASSUME TypeOK, Control, CardsSound, Views(Waiting), QueueFits, NoFirst, OnCombatStepChange
  PROVE  CardsSound' /\ Views(Waiting)' /\ QueueFits'
<1>1. /\ UNCHANGED cardVars
      /\ inPlay' = inPlay /\ attacker' = attacker /\ defenser' = defenser
      /\ view' = view /\ viewBlk' = viewBlk
  BY DEF OnCombatStepChange, cardVars
<1>2. /\ currentGamePhase' = currentGamePhase /\ currentPlayer' = currentPlayer
      /\ (Fresh' <=> Fresh) /\ (Turn' <=> Turn)
  BY EngineTime
<1>3. CardsSound'
  BY <1>1, <1>2, SameCards
<1>4. CASE (OnTriggers \/ OnOrder \/ OnFirstStrike \/ OnDamage) /\ eventsQueue' = eventsQueue
  <2>1. /\ Delivering("CombatStepChange")
        /\ \/ Delivered(<<>>)
           \/ Delivered(<<Do("nextGamePhase")>>)
           \/ Delivered(<<Do("nextCombatStep")>>)
    BY <1>4 DEF OnTriggers, OnOrder, OnFirstStrike, OnDamage, AssignDamage, Stepping
  <2>2. PICK ops \in Seq(Call) : Delivered(ops) /\ (ops = <<>> \/ Head(ops).op # "drain")
    BY <2>1, ListenerCalls
  <2>3. PICK d, T : d = Delivery /\ T = Waiting'
    OBVIOUS
  <2>4. Waiting = {d} \cup T /\ QueueFits' /\ d.type = "CombatStepChange"
    BY <1>4, <2>1, <2>2, <2>3, DeliversNothing
  <2>5. Views({d} \cup T) /\ d.type \notin CardTypes
    <3>1. PICK W : W = Waiting
      OBVIOUS
    <3>2. d.type \notin CardTypes
      BY <2>4 DEF CardTypes
    <3> QED BY <2>4, <3>1, <3>2
  <2>6. Views(T)'
    BY <1>1, <1>2, <2>5, OtherViews
  <2> QED BY <1>3, <2>3, <2>4, <2>6, ViewsNext
<1>5. CASE OnEndFirstStrike
  <2>1. Stepping("END_FIRST_STRIKE")
        /\ ResolveDamage("END_FIRST_STRIKE", Assignment("FIRST_STRIKE"), "nextCombatStep")
    BY <1>5 DEF OnEndFirstStrike
  <2>2. PICK A \in SUBSET (Creature \X Creature) : A = Assignment("FIRST_STRIKE")
    BY AssignmentTyped
  <2>3. PICK s \in {"END_FIRST_STRIKE", "END_DAMAGE"} : s = "END_FIRST_STRIKE"
    OBVIOUS
  <2>4. Stepping(s) /\ ResolveDamage(s, A, "nextCombatStep")
    BY <2>1, <2>2, <2>3
  <2>5. Views(Waiting)' /\ QueueFits'
    BY <1>1, <1>2, <2>2, <2>4, ResolveViews
  <2> QED BY <1>3, <2>5
<1>6. CASE OnEndDamage
  <2>1. Stepping("END_DAMAGE") /\ ResolveDamage("END_DAMAGE", damages, "nextGamePhase")
    BY <1>6 DEF OnEndDamage
  <2>2. PICK A \in SUBSET (Creature \X Creature) : A = damages
    BY DEF TypeOK
  <2>3. PICK s \in {"END_FIRST_STRIKE", "END_DAMAGE"} : s = "END_DAMAGE"
    OBVIOUS
  <2>4. Stepping(s) /\ ResolveDamage(s, A, "nextGamePhase")
    BY <2>1, <2>2, <2>3
  <2>5. Views(Waiting)' /\ QueueFits'
    BY <1>1, <1>2, <2>3, <2>4, ResolveViews
  <2> QED BY <1>3, <2>5
<1> QED
  BY <1>4, <1>5, <1>6 DEF OnCombatStepChange

(* The creatures hit regenerate, die or survive.                           *)
LEMMA ResolvedViews ==
  ASSUME TypeOK, Control, AttackersInPlay, CardsSound, Views(Waiting), QueueFits, OnDamageStackResolved
  PROVE  CardsSound' /\ Views(Waiting)' /\ QueueFits'
<1>1. /\ Delivering("DamageStackResolved") /\ Delivered(<<>>)
      /\ view' = view /\ viewBlk' = viewBlk
  BY DEF OnDamageStackResolved, guiVars
<1>2. /\ currentGamePhase' = currentGamePhase /\ currentPlayer' = currentPlayer
      /\ (Fresh' <=> Fresh) /\ (Turn' <=> Turn)
  BY EngineTime
<1>3. PICK D \in SUBSET inPlay, C \in SUBSET inPlay :
        LeaveCombat(C, D) /\ eventsQueue' = eventsQueue \o Events(LeaveEvents(C, D))
  BY DEF OnDamageStackResolved
<1>4. C \in SUBSET Creature /\ D \in SUBSET Creature
  BY <1>3 DEF TypeOK
<1>5. PICK E : E = LeaveEvents(C, D)
  OBVIOUS
<1>6. E \in SUBSET Event /\ IsFiniteSet(E)
  BY <1>4, <1>5, LeaveEventsTyped
<1>7. PICK es \in Seq(Event) : es = Events(E) /\ ToSet(es) = E
  BY <1>6, SetOfEvents, EventsInOrder
<1>8. PICK ops \in Seq(Call) : ops = <<>> /\ Delivered(ops)
  BY <1>1, ListenerCalls
<1>9. PICK d, T : d = Delivery /\ T = ToSet(Tail(eventsQueue))
  OBVIOUS
<1>10. /\ d.type = "DamageStackResolved" /\ Waiting = {d} \cup T
       /\ Waiting' = T \cup E
       /\ Lone(d) => Tail(eventsQueue) = <<>>
  <2>1. eventsQueue' = eventsQueue \o es
    BY <1>3, <1>5, <1>7
  <2> QED BY <1>1, <1>7, <1>8, <1>9, <2>1, Delivers
<1>11. T = {}
  <2>1. Lone(d)
    BY <1>10 DEF Lone
  <2> QED BY <1>9, <1>10, <2>1, SetOfOne
<1>12. Waiting = {d} /\ Waiting' = E
  BY <1>10, <1>11
<1>13. CardsSound'
  BY <1>2, <1>3, LeavesSound
<1>14. Views(Waiting)'
  <2>1. PICK W : W = Waiting
    OBVIOUS
  <2>2. d.type \notin CardTypes
    BY <1>10 DEF CardTypes
  <2>3. Views(W) /\ \A e \in W : e.type \notin CardTypes
    BY <1>12, <2>1, <2>2
  <2>4. Views(E)'
    BY <1>1, <1>2, <1>3, <1>5, <2>3, LeaveViews
  <2> QED BY <1>12, <2>4, ViewsNext
<1>15. QueueFits'
  BY <1>5, <1>12, LeaveEventsFit, NoLoneFits
<1> QED
  BY <1>13, <1>14, <1>15

-----------------------------------------------------------------------------
(* What comes from outside.                                                *)

(* Between calls nothing waits, and the turn stays where it is.            *)
LEMMA OutsideFacts ==
  ASSUME TypeOK, Control, Environment
  PROVE  /\ eventsQueue = <<>> /\ Pending = <<>> /\ Waiting = {}
         /\ currentGamePhase' = currentGamePhase /\ currentPlayer' = currentPlayer
         /\ (Fresh' <=> Fresh) /\ (Turn' <=> Turn)
<1>1. Idle /\ UNCHANGED <<currentGamePhase, currentPlayer>>
  BY DEF Environment, Request, MoveCursor, ClickOK, ToggleAttacker, RemoveFromCombat, LeavePlay,
     EnterPlay, ToggleBlocker, ModTurn, Affect, MayResolve, turnVars
<1>2. eventsQueue = <<>> /\ AtRest
  BY <1>1, IdleRuns
<1>3. currentGamePhase # BEFORE_BEGIN
  BY <1>2 DEF AtRest, Here
<1>4. (Fresh' <=> Fresh) /\ (Turn' <=> Turn)
  BY <1>1, <1>3 DEF Fresh, Turn, Opened
<1> QED
  BY <1>1, <1>2, <1>4, NothingWaits

(* Nothing is raised, and nothing waits.                                   *)
LEMMA StillNothing ==
  ASSUME eventsQueue = <<>>, eventsQueue' = eventsQueue, Waiting = {}
  PROVE  Waiting' = Waiting
<1>1. eventsQueue' = <<>>
  OBVIOUS
<1>2. Pending' = <<>>
  BY <1>1 DEF Pending
<1> QED
  BY <1>2, SetOfOne DEF Waiting

(* One event is raised from outside, and waits alone.                      *)
LEMMA OutsideRaises ==
  ASSUME TypeOK, Control, Environment, NEW es \in Seq(Event), Raise(es, <<>>)
  PROVE  Pending' = es /\ Waiting' = ToSet(es)
<1>1. eventsQueue = <<>> /\ Pending = <<>> /\ Waiting = {}
  BY OutsideFacts
<1>2. PICK k \in Seq(Call) : k = <<>> /\ Raise(es, k)
  BY CallSeqs
<1>3. Pending' = Pending \o es /\ Waiting' = Waiting \cup ToSet(es)
  BY <1>1, <1>2, RaisePends
<1> QED
  BY <1>1, <1>3, EventSeqs

(* A request, the damage screen, an extra turn: the creatures stay.        *)
LEMMA RequestViews ==
  ASSUME TypeOK, Control, CardsSound, Views(Waiting), Environment,
         Request \/ MoveCursor \/ ClickOK \/ \E p \in Players : ModTurn(p)
  PROVE  CardsSound' /\ Views(Waiting)' /\ QueueFits'
<1>1. /\ UNCHANGED cardVars /\ eventsQueue' = eventsQueue
      /\ view' = view /\ viewBlk' = viewBlk
  BY DEF Request, MoveCursor, ClickOK, ModTurn, guiVars
<1>2. inPlay' = inPlay /\ attacker' = attacker /\ defenser' = defenser
  BY <1>1 DEF cardVars
<1>3. /\ eventsQueue = <<>> /\ Waiting = {}
      /\ currentGamePhase' = currentGamePhase /\ currentPlayer' = currentPlayer
      /\ (Fresh' <=> Fresh) /\ (Turn' <=> Turn)
  BY OutsideFacts
<1>4. CardsSound'
  BY <1>1, <1>3, SameCards
<1>5. Waiting' = Waiting
  BY <1>1, <1>3, StillNothing
<1>6. Calm(Waiting) /\ Calm(Waiting')
  BY <1>3, <1>5, CalmEvents
<1> QED
  BY <1>1, <1>2, <1>3, <1>4, <1>6, CalmViews

(* An attacker is declared or taken back.                                  *)
LEMMA DeclareViews ==
  ASSUME TypeOK, Control, CardsSound, Views(Waiting), Environment, NEW c \in Creature, ToggleAttacker(c)
  PROVE  CardsSound' /\ Views(Waiting)' /\ QueueFits'
<1>1. /\ currentGamePhase = COMBATATTACKERS /\ c \in inPlay /\ Owner[c] = currentPlayer
      /\ attacker' = IF c \in attacker THEN attacker \ {c} ELSE attacker \cup {c}
      /\ Raise(<<[type |-> IF c \in attacker THEN "AttackerOff" ELSE "AttackerOn", card |-> c]>>, <<>>)
      /\ UNCHANGED <<inPlay, defenser, blockers, blocked, view, viewBlk>>
  BY DEF ToggleAttacker, guiVars
<1>2. /\ Waiting = {} /\ currentGamePhase' = currentGamePhase /\ currentPlayer' = currentPlayer
  BY OutsideFacts
<1>3. CardsSound'
  <2>1. \A x \in attacker' \ attacker : x \in Creature /\ Owner[x] = currentPlayer
    BY <1>1
  <2> QED BY <1>1, <1>2, <2>1, ToggleAttackerSound
<1>4. PICK t \in {"AttackerOn", "AttackerOff"} : t = IF c \in attacker THEN "AttackerOff" ELSE "AttackerOn"
  OBVIOUS
<1>5. PICK e \in Event : e = [type |-> t, card |-> c]
  BY EventTypes
<1>6. PICK es \in Seq(Event) : es = <<e>> /\ ToSet(es) = {e}
  BY One, SetOfOne
<1>7. Waiting' = {e}
  <2>1. Raise(es, <<>>)
    BY <1>1, <1>4, <1>5, <1>6
  <2> QED BY <1>6, <2>1, OutsideRaises
<1>8. QueueFits'
  <2>1. ~ Lone(e)
    BY <1>4, <1>5 DEF Lone
  <2> QED BY <1>7, <2>1, NoLoneFits
<1>9. Views(Waiting)'
  <2>1. PICK W, E : W = Waiting /\ E = {e}
    OBVIOUS
  <2>2. Views(W) /\ \A x \in W : x.type \notin CardTypes
    BY <1>2, <2>1
  <2>3. PICK On \in SUBSET (inPlay \ attacker), Off \in SUBSET attacker :
          /\ On = IF c \in attacker THEN {} ELSE {c}
          /\ Off = IF c \in attacker THEN {c} ELSE {}
    BY <1>1
  <2>4. attacker' = (attacker \cup On) \ Off /\ Off \subseteq inPlay
    BY <1>1, <2>3
  <2>5. E = {[type |-> "AttackerOn", card |-> x] : x \in On}
              \cup {[type |-> "AttackerOff", card |-> x] : x \in Off}
    <3>1. CASE c \in attacker
      BY <1>4, <1>5, <2>1, <2>3, <3>1
    <3>2. CASE c \notin attacker
      BY <1>4, <1>5, <2>1, <2>3, <3>2
    <3> QED BY <3>1, <3>2
  <2>6. Views(E)'
    BY <1>1, <1>2, <2>2, <2>4, <2>5, AttackViews
  <2> QED BY <1>7, <2>1, <2>6, ViewsNext
<1> QED
  BY <1>3, <1>8, <1>9

(* A blocker is declared, changed or taken back.                           *)
LEMMA BlockKeepsViews ==
  ASSUME TypeOK, Control, AttackersInPlay, CardsSound, Views(Waiting), Environment,
         NEW b \in Creature, NEW a \in Creature \cup {NoCard}, ToggleBlocker(b, a)
  PROVE  CardsSound' /\ Views(Waiting)' /\ QueueFits'
<1>1. Waiting = {}
  BY OutsideFacts
<1>2. CardsSound'
  BY ToggleBlockerSound
<1>3. PICK d \in Event : d = [type |-> "Blocker", card |-> b, before |-> defenser[b], after |-> a]
  BY EventTypes DEF TypeOK
<1>4. PICK es \in Seq(Event) : es = <<d>> /\ ToSet(es) = {d} /\ Len(es) = 1
  <2>1. Len(<<d>>) = 1
    BY SMT
  <2>2. <<d>> \in Seq(Event) /\ ToSet(<<d>>) = {d}
    BY One, SetOfOne
  <2> QED BY <2>1, <2>2
<1>5. Pending' = es /\ Waiting' = {d}
  <2>1. Raise(es, <<>>)
    BY <1>3, <1>4 DEF ToggleBlocker
  <2> QED BY <1>4, <2>1, OutsideRaises
<1>6. Views(Waiting)'
  <2>1. PICK W : W = Waiting
    OBVIOUS
  <2>2. Views(W) /\ \A e \in W : e.type \notin CardTypes
    BY <1>1, <2>1
  <2>3. Views({d})'
    BY <1>3, <2>2, BlockViews
  <2>4. PICK V : V = {d}
    OBVIOUS
  <2>5. Views(V)'
    BY <2>3, <2>4
  <2> QED BY <1>5, <2>4, <2>5, ViewsNext
<1>7. QueueFits'
  <2>1. LoneSound'
    BY <1>4, <1>5 DEF LoneSound
  <2>2. LeavesAttack' /\ HitsAttack'
    BY <1>3, <1>5 DEF LeavesAttack, HitsAttack
  <2>3. BlocksEarly'
    <3>1. combatStep' = "BLOCKERS"
      BY DEF ToggleBlocker
    <3> QED BY <3>1 DEF BlocksEarly
  <2> QED BY <2>1, <2>2, <2>3 DEF QueueFits
<1> QED
  BY <1>2, <1>6, <1>7

(* A creature leaves the combat, or leaves play.                           *)
LEMMA AffectViews ==
  ASSUME TypeOK, Control, AttackersInPlay, CardsSound, Views(Waiting), Environment,
         NEW C \in SUBSET inPlay, NEW D \in SUBSET inPlay, Affect(C, D)
  PROVE  CardsSound' /\ Views(Waiting)' /\ QueueFits'
<1>1. /\ LeaveCombat(C, D) /\ Raise(Events(LeaveEvents(C, D)), <<>>)
      /\ view' = view /\ viewBlk' = viewBlk
  BY DEF Affect, guiVars
<1>2. /\ Waiting = {} /\ currentGamePhase' = currentGamePhase /\ currentPlayer' = currentPlayer
      /\ (Fresh' <=> Fresh) /\ (Turn' <=> Turn)
  BY OutsideFacts
<1>3. CardsSound'
  BY <1>1, <1>2, LeavesSound
<1>4. C \in SUBSET Creature /\ D \in SUBSET Creature
  BY DEF TypeOK
<1>5. PICK E : E = LeaveEvents(C, D)
  OBVIOUS
<1>6. E \in SUBSET Event /\ IsFiniteSet(E)
  BY <1>4, <1>5, LeaveEventsTyped
<1>7. PICK es \in Seq(Event) : es = Events(E) /\ ToSet(es) = E
  BY <1>6, SetOfEvents, EventsInOrder
<1>8. Waiting' = E
  <2>1. Raise(es, <<>>)
    BY <1>1, <1>5, <1>7
  <2> QED BY <1>7, <2>1, OutsideRaises
<1>9. QueueFits'
  BY <1>5, <1>8, LeaveEventsFit, NoLoneFits
<1>10. Views(Waiting)'
  <2>1. PICK W : W = Waiting
    OBVIOUS
  <2>2. Views(W) /\ \A e \in W : e.type \notin CardTypes
    BY <1>2, <2>1
  <2>3. Views(E)'
    BY <1>1, <1>2, <1>5, <2>2, LeaveViews
  <2> QED BY <1>8, <2>3, ViewsNext
<1> QED
  BY <1>3, <1>9, <1>10

(* A creature enters play.                                                 *)
LEMMA EnterKeepsViews ==
  ASSUME TypeOK, Control, AttackersInPlay, CardsSound, Views(Waiting), Environment,
         NEW c \in Creature, EnterPlay(c)
  PROVE  CardsSound' /\ Views(Waiting)' /\ QueueFits'
<1>1. eventsQueue' = eventsQueue
  BY DEF EnterPlay
<1>2. eventsQueue = <<>> /\ Waiting = {}
  BY OutsideFacts
<1>3. Waiting' = Waiting
  BY <1>1, <1>2, StillNothing
<1>4. CardsSound'
  BY EnterPlaySound
<1>5. Views(Waiting)'
  <2>1. PICK W : W = Waiting
    OBVIOUS
  <2>2. Views(W) /\ \A e \in W : e.type \notin CardTypes
    BY <1>2, <2>1
  <2>3. Views(W)'
    BY <2>2, EnterPlayViews
  <2> QED BY <1>3, <2>1, <2>3, ViewsNext
<1>6. QueueFits'
  BY <1>2, <1>3, NoLoneFits
<1> QED
  BY <1>4, <1>5, <1>6

(* Whatever comes from outside.                                            *)
LEMMA OutsideViews ==
  ASSUME TypeOK, Control, AttackersInPlay, CardsSound, Views(Waiting), Environment
  PROVE  CardsSound' /\ Views(Waiting)' /\ QueueFits'
<1>1. ASSUME NEW c \in Creature, RemoveFromCombat(c) \/ LeavePlay(c)
      PROVE  CardsSound' /\ Views(Waiting)' /\ QueueFits'
  <2>1. PICK C \in SUBSET inPlay, D \in SUBSET inPlay : Affect(C, D)
    <3>1. {} \in SUBSET inPlay
      OBVIOUS
    <3>2. c \in inPlay => {c} \in SUBSET inPlay
      OBVIOUS
    <3> QED BY <1>1, <3>1, <3>2 DEF RemoveFromCombat, LeavePlay
  <2> QED BY <2>1, AffectViews
<1> QED
  BY <1>1, RequestViews, DeclareViews, BlockKeepsViews, EnterKeepsViews DEF Environment

-----------------------------------------------------------------------------
(* First strike damage in the blockers phase.                              *)

(* Outside the combat phases combatStep is at its start.                   *)
LEMMA BeforeCombat ==
  ASSUME TypeOK, Control, currentGamePhase \notin {COMBATBLOCKERS, COMBATDAMAGE, COMBATEND}
  PROVE  combatStep = "BLOCKERS"
<1>1. ASSUME NEW k, Ready(k)
      PROVE  combatStep = "BLOCKERS"
  <2>1. \/ AtRest \/ Acting \/ Asking \/ Advancing \/ Starting \/ Triggering \/ Leaving \/ Entering
        \/ \E p \in Phase : Left(p) \/ Skipped(p)
    <3>1. COMBATBLOCKERS \in Phase /\ COMBATDAMAGE \in Phase
      BY DEF Phase, BEFORE_BEGIN, AFTER_EOT, COMBATBLOCKERS, COMBATDAMAGE
    <3> QED BY <1>1, <3>1 DEF Ready
  <2>2. CASE AtRest \/ Acting \/ Asking \/ Advancing \/ Triggering \/ Leaving
    BY <2>2 DEF AtRest, Acting, Asking, Advancing, Triggering, Leaving, Here, Settled, LeaveStep, Advances
  <2>3. CASE Starting
    BY <2>3 DEF Starting, Here
  <2>4. \A p : Left(p) \/ Skipped(p) => combatStep = "BLOCKERS"
    BY DEF Left, Skipped, LeaveStep
  <2> QED BY <2>1, <2>2, <2>3, <2>4 DEF Entering
<1>2. ~ Nested /\ ~ NestedArrives
  BY NestedInCombat
<1>3. ~ Arrives
  BY DEF Arrives, Here, Arriving
<1> QED
  BY <1>1, <1>2, <1>3 DEF Control, Running, Quiet

(* Nothing that matters changes, and no combat step is called for.         *)
LEMMA SameFirst ==
  ASSUME NoFirst, phase' = phase, combatStep' = combatStep, view' \subseteq view,
         ~ Return("nextCombatStep")'
  PROVE  NoFirst'
BY DEF NoFirst

(* What a call of the engine leaves on top.                                *)
LEMMA NoStepCalled ==
  ASSUME TypeOK, Control, NEW op \in {"nextGamePhase", "forward", "skipCombat", "enterPhase",
                                      "phaseActions", "nextCombatStep", "triggersStep"}, Return(op),
         NEW ops \in Seq(Call), calls' = ops \o Rest, ops = <<>> \/ Head(ops).op # "nextCombatStep"
  PROVE  ~ Return("nextCombatStep")'
<1>1. PICK k \in Seq(Call) : k = Rest /\ (k = <<>> \/ Head(k).op # "nextCombatStep")
  BY CallTop
<1>2. calls' = ops \o k
  BY <1>1
<1> QED
  BY <1>1, <1>2, TopOf

(* What raising events leaves on top.                                      *)
LEMMA NoStepRaised ==
  ASSUME NEW k \in Seq(Call), k = <<>> \/ Head(k).op # "nextCombatStep", NEW es, Raise(es, k)
  PROVE  ~ Return("nextCombatStep")'
<1>1. PICK ops \in Seq(Call) : calls' = ops \o k /\ (ops = <<>> \/ Head(ops).op # "nextCombatStep")
  BY CallSeqs, OneCall DEF Raise
<1> QED
  BY <1>1, TopOf

(* And what a delivery leaves.                                             *)
LEMMA NoStepDelivered ==
  ASSUME TypeOK, calls # <<>>, NEW ops \in Seq(Call), Delivered(ops),
         ops = <<>> \/ Head(ops).op # "nextCombatStep"
  PROVE  ~ Return("nextCombatStep")'
<1>1. Rest \in Seq(Call)
  BY CallSeqs DEF Rest, TypeOK
<1>2. PICK t \in Seq(Call) : t = <<Do("pop")>> /\ t # <<>> /\ Head(t).op = "pop"
  BY OneCall
<1>3. PICK s \in Seq(Call) : s = ops \o t /\ s # <<>> /\ Head(s).op # "nextCombatStep"
  <2>1. ops \o t \in Seq(Call) /\ ops \o t # <<>>
    BY <1>2, CallSeqs
  <2>2. ops = <<>> => ops \o t = t
    BY <1>2, CallSeqs
  <2>3. ops # <<>> => Head(ops \o t) = Head(ops)
    BY <1>2, CallSeqs
  <2> QED BY <1>2, <2>1, <2>2, <2>3
<1>4. calls' = s \o Rest
  BY <1>2, <1>3 DEF Delivered
<1> QED
  BY <1>1, <1>3, <1>4, TopOf

(* The calls of the engine.                                                *)
LEMMA CallsKeepFirst ==
  ASSUME TypeOK, Control, NoFirst,
         NextGamePhase \/ Forward \/ SkipCombat \/ EnterPhase \/ PhaseActions
         \/ NextCombatStep \/ TriggersStep
  PROVE  NoFirst'
<1>1. view' = view
  BY DEF NextGamePhase, Forward, SkipCombat, EnterPhase, PhaseActions, NextCombatStep, TriggersStep, guiVars
<1>2. CASE NextGamePhase
  <2>1. Return("nextGamePhase") /\ phase' = phase /\ combatStep' = combatStep
    BY <1>2 DEF NextGamePhase, turnVars
  <2>2. CASE phase = COMBATBLOCKERS /\ combatStep = "FIRST_STRIKE"
    <3>1. phase # COMBATDAMAGE
      BY <2>2 DEF COMBATBLOCKERS, COMBATDAMAGE
    <3>2. calls' = <<Do("forward"), Skip(phase), Do("enterPhase")>> \o Rest
      BY <1>2, <2>2, <3>1 DEF NextGamePhase, Then, Skip
    <3>3. /\ <<Do("forward"), Skip(phase), Do("enterPhase")>> \in Seq(Call)
          /\ Head(<<Do("forward"), Skip(phase), Do("enterPhase")>>).op = "forward"
      <4>1. phase \in Phase
        BY DEF TypeOK
      <4>2. Do("forward") \in Call /\ Skip(phase) \in Call /\ Do("enterPhase") \in Call
        BY <4>1, CallFacts
      <4>3. <<Do("forward"), Skip(phase), Do("enterPhase")>> \in Seq(Call)
        BY <4>2
      <4>4. Head(<<Do("forward"), Skip(phase), Do("enterPhase")>>) = Do("forward")
        BY Short
      <4> QED BY <4>3, <4>4, CallFacts
    <3>4. PICK ops \in Seq(Call) : calls' = ops \o Rest /\ Head(ops).op # "nextCombatStep"
      BY <3>2, <3>3
    <3> QED BY <1>1, <2>1, <3>4, NoStepCalled, SameFirst
  <2>3. CASE ~ (phase = COMBATBLOCKERS /\ combatStep = "FIRST_STRIKE")
    BY <1>1, <2>1, <2>3 DEF NoFirst
  <2> QED BY <2>2, <2>3
<1>3. CASE Forward
  <2>1. phase' = COMBATBLOCKERS => phase = COMBATATTACKERS
    BY <1>3 DEF Forward, TypeOK, Phase, COMBATBLOCKERS, COMBATATTACKERS, AFTER_EOT, BEFORE_BEGIN
  <2>2. phase = COMBATATTACKERS => combatStep = "BLOCKERS"
    <3> SUFFICES ASSUME phase = COMBATATTACKERS
                 PROVE  combatStep = "BLOCKERS"
      OBVIOUS
    <3>1. currentGamePhase = COMBATATTACKERS
      BY <1>3, LeavingAttackers
    <3> QED BY <3>1, BeforeCombat DEF COMBATATTACKERS, COMBATBLOCKERS, COMBATDAMAGE, COMBATEND
  <2>3. combatStep' = combatStep
    BY <1>3 DEF Forward
  <2> QED BY <2>1, <2>2, <2>3 DEF NoFirst
<1>4. CASE SkipCombat
  <2>1. Return("skipCombat") /\ phase' = phase /\ combatStep' = combatStep
    BY <1>4 DEF SkipCombat, turnVars
  <2>2. <<Do("forward"), Do("forward")>> \in Seq(Call) /\ Head(<<Do("forward"), Do("forward")>>).op = "forward"
    <3>1. Do("forward") \in Call /\ Do("forward").op = "forward"
      BY CallFacts
    <3>2. <<Do("forward"), Do("forward")>> \in Seq(Call)
      BY <3>1
    <3>3. Head(<<Do("forward"), Do("forward")>>) = Do("forward")
      BY Short
    <3> QED BY <3>1, <3>2, <3>3
  <2>3. PICK ops \in Seq(Call) : calls' = ops \o Rest /\ (ops = <<>> \/ Head(ops).op # "nextCombatStep")
    BY <1>4, <2>2, CallSeqs DEF SkipCombat, Then
  <2>4. ~ Return("nextCombatStep")'
    BY <2>1, <2>3, NoStepCalled
  <2> QED BY <1>1, <2>1, <2>4, SameFirst
<1>5. CASE EnterPhase
  <2>1. Return("enterPhase") /\ phase' = phase /\ combatStep' = combatStep
    BY <1>5 DEF EnterPhase
  <2>2. CASE phase = COMBATBLOCKERS
    <3>1. phase # COMBATDAMAGE
      BY <2>2 DEF COMBATBLOCKERS, COMBATDAMAGE
    <3>2. PICK t \in Seq(Call) : t = <<Do("phaseActions")>> /\ t # <<>> /\ Head(t).op = "phaseActions"
      BY OneCall
    <3>3. calls' = (<<>> \o t) \o Rest
      BY <1>5, <3>1, <3>2 DEF EnterPhase, Then
    <3>4. <<>> \o t = t
      BY CallSeqs
    <3>5. ~ Return("nextCombatStep")'
      BY <2>1, <3>2, <3>3, <3>4, NoStepCalled
    <3> QED BY <1>1, <2>1, <3>5, SameFirst
  <2>3. CASE phase # COMBATBLOCKERS
    BY <2>1, <2>3 DEF NoFirst
  <2> QED BY <2>2, <2>3
<1>6. CASE PhaseActions
  <2>1. Return("phaseActions") /\ phase' = phase
    BY <1>6 DEF PhaseActions
  <2>2. combatStep' = combatStep \/ combatStep' = "BLOCKERS"
    BY <1>6 DEF PhaseActions, nextPlayer
  <2>3. Rest \in Seq(Call) /\ (Rest = <<>> \/ Head(Rest).op # "nextCombatStep")
    BY <2>1, CallTop
  <2>4. combatStep' = combatStep => ~ Return("nextCombatStep")'
    <3>1. CASE \E es : Raise(es, Rest)
      BY <2>3, <3>1, NoStepRaised
    <3>2. CASE calls' = <<>> \o Rest \/ calls' = <<Do("nextGamePhase")>> \o Rest
      <4>1. PICK ops \in Seq(Call) : calls' = ops \o Rest /\ (ops = <<>> \/ Head(ops).op # "nextCombatStep")
        BY <3>2, CallSeqs, OneCall
      <4> QED BY <2>1, <4>1, NoStepCalled
    <3>3. CASE \E es : Raise(es, <<Do("nextGamePhase")>> \o Rest)
      <4>1. PICK t \in Seq(Call) : t = <<Do("nextGamePhase")>> /\ t # <<>> /\ Head(t).op = "nextGamePhase"
        BY OneCall
      <4>2. PICK k \in Seq(Call) : k = t \o Rest /\ Head(k) = Head(t)
        BY <2>3, <4>1, CallSeqs
      <4>3. PICK es : Raise(es, k)
        BY <3>3, <4>1, <4>2
      <4> QED BY <4>1, <4>2, <4>3, NoStepRaised
    <3> QED BY <1>6, <3>1, <3>2, <3>3 DEF PhaseActions, Then
  <2> QED BY <1>1, <2>1, <2>2, <2>4, SameFirst DEF NoFirst
<1>7. CASE NextCombatStep
  <2>1. Return("nextCombatStep") /\ phase' = phase
    BY <1>7 DEF NextCombatStep, turnVars
  <2>2. Rest \in Seq(Call) /\ (Rest = <<>> \/ Head(Rest).op # "nextCombatStep")
    BY <2>1, CallTop
  <2>3. CASE combatStep \in {"BLOCKERS", "END_DAMAGE"}
    <3>1. combatStep' = combatStep
      BY <1>7, <2>3 DEF NextCombatStep
    <3> QED BY <2>3, <3>1 DEF NoFirst
  <2>4. CASE combatStep \notin {"BLOCKERS", "END_DAMAGE"}
    <3>1. combatStep' = StepAfter[combatStep] /\ \E es : Raise(es, Rest)
      BY <1>7, <2>4 DEF NextCombatStep
    <3>2. ~ Return("nextCombatStep")'
      BY <2>2, <3>1, NoStepRaised
    <3>3. combatStep' = "END_FIRST_STRIKE" => combatStep = "FIRST_STRIKE"
      BY <2>4, <3>1 DEF StepAfter, TypeOK, CombatStep
    <3> QED BY <1>1, <2>1, <3>2, <3>3 DEF NoFirst
  <2> QED BY <2>3, <2>4
<1>8. CASE TriggersStep
  BY <1>8 DEF TriggersStep, NoFirst
<1> QED
  BY <1>2, <1>3, <1>4, <1>5, <1>6, <1>7, <1>8

(* The loop and the listeners: a combat step is called for only once it is *)
(* known that nobody strikes first.                                        *)
LEMMA PopKeepsFirst ==
  ASSUME TypeOK, Control, NoFirst, Pop
  PROVE  NoFirst'
<1>1. /\ Return("pop") /\ phase' = phase /\ combatStep' = combatStep /\ view' = view
      /\ (calls' = <<>> \o Rest \/ calls' = <<Do("drain")>> \o Rest)
  BY DEF Pop, turnVars, guiVars
<1>2. CASE phase = COMBATBLOCKERS /\ combatStep = "FIRST_STRIKE"
  <2>1. calls # <<>> /\ Head(calls).op = "pop"
    BY <1>1 DEF Return
  <2>2. Rest \in Seq(Call)
    BY <2>1, CallSeqs DEF Rest, TypeOK
  <2>3. Quiet \/ Arrives
    <3>1. ~ Running
      BY <2>1, RunningCases
    <3> QED BY <2>1, <3>1, NestedTop DEF Control
  <2>4. Rest = <<>> \/ Head(Rest).op # "nextCombatStep"
    <3>1. CASE Quiet
      <4>1. Ready(Rest) /\ ~ AITurn
        BY <1>2, <3>1 DEF Quiet, Told
      <4>2. ~ Advancing /\ ~ Starting
        BY <1>2, <4>1 DEF Advancing, Advances, Starting, COMBATBLOCKERS, COMBATDAMAGE
      <4>3. Rest = <<>> \/ (Rest # <<>> /\ (Head(Rest) \in {Do("phaseActions"), Do("nextGamePhase"),
              Do("triggersStep"), Do("forward"), Do("enterPhase")} \/ \E p \in Phase : Head(Rest) = Skip(p)))
        BY <4>1, <4>2, ReadyCases
      <4> QED BY <4>3, CallFacts
    <3>2. CASE Arrives
      <4>1. Rest = <<>> \/ Rest = <<Do("phaseActions")>>
        BY <3>2 DEF Arrives, Interrupts, Outer
      <4>2. Head(<<Do("phaseActions")>>).op = "phaseActions"
        BY OneCall
      <4> QED BY <4>1, <4>2
    <3> QED BY <2>3, <3>1, <3>2
  <2>5. ~ Return("nextCombatStep")'
    <3>1. PICK k \in Seq(Call) : k = Rest /\ (k = <<>> \/ Head(k).op # "nextCombatStep")
      BY <2>2, <2>4
    <3>2. PICK ops \in Seq(Call) : calls' = ops \o k /\ (ops = <<>> \/ Head(ops).op # "nextCombatStep")
      BY <1>1, <3>1, CallSeqs, OneCall
    <3> QED BY <3>1, <3>2, TopOf
  <2> QED BY <1>1, <2>5, SameFirst
<1>3. CASE ~ (phase = COMBATBLOCKERS /\ combatStep = "FIRST_STRIKE")
  BY <1>1, <1>3 DEF NoFirst
<1> QED
  BY <1>2, <1>3

(* A listener calls for one itself only when the views show nobody who      *)
(* strikes first.                                                          *)
LEMMA DeliveriesKeepFirst ==
  ASSUME TypeOK, Control, Views(Waiting), QueueFits, NoFirst,
         OnChosen \/ OnAttackerOn \/ OnAttackerOff \/ OnBlocker \/ OnZoneChange
         \/ OnPhaseChange \/ OnCombatStepChange \/ OnDamageStackResolved
  PROVE  NoFirst'
<1>1. phase' = phase /\ combatStep' = combatStep
  BY DEF OnChosen, OnAttackerOn, OnAttackerOff, OnBlocker, OnZoneChange, OnPhaseChange,
     OnCombatStepChange, OnDamageStackResolved, turnVars
<1>2. \E type : Delivering(type)
  BY DEF OnChosen, OnAttackerOn, OnAttackerOff, OnBlocker, OnZoneChange, OnPhaseChange,
     OnCombatStepChange, OnDamageStackResolved, OnTriggers, OnOrder, OnFirstStrike, OnDamage,
     OnEndFirstStrike, OnEndDamage, Stepping
<1>3. calls # <<>>
  BY <1>2 DEF Delivering, Return
<1>4. Delivered(<<>>) => ~ Return("nextCombatStep")'
  BY <1>3, ListenerCalls, NoStepDelivered
<1>5. Delivered(<<Do("nextGamePhase")>>) => ~ Return("nextCombatStep")'
  <2>1. PICK ops \in Seq(Call) : ops = <<Do("nextGamePhase")>> /\ Head(ops).op = "nextGamePhase"
    BY OneCall
  <2>2. Delivered(ops) => ~ Return("nextCombatStep")'
    BY <1>3, <2>1, NoStepDelivered
  <2> QED BY <2>1, <2>2
<1>6. CASE OnChosen \/ OnAttackerOff \/ OnBlocker \/ OnZoneChange \/ OnPhaseChange \/ OnDamageStackResolved
  <2>1. Delivered(<<>>)
    BY <1>6 DEF OnChosen, OnAttackerOff, OnBlocker, OnZoneChange, OnPhaseChange, OnDamageStackResolved
  <2>2. view' \subseteq view
    BY <1>6 DEF OnChosen, OnAttackerOff, OnBlocker, OnZoneChange, OnPhaseChange, OnDamageStackResolved,
       DropAttacker, guiVars
  <2> QED BY <1>1, <1>4, <2>1, <2>2, SameFirst
<1>7. CASE OnAttackerOn
  <2>1. Delivering("AttackerOn") /\ Delivered(<<>>) /\ eventsQueue' = eventsQueue
    BY <1>7 DEF OnAttackerOn
  <2>2. PICK ops \in Seq(Call) : ops = <<>> /\ Delivered(ops)
    BY <2>1, ListenerCalls
  <2>3. Delivery \in Waiting /\ Delivery.type = "AttackerOn"
    BY <2>1, <2>2, DeliversNothing
  <2>4. currentGamePhase = COMBATATTACKERS
    BY <2>3 DEF Views, TouchSound
  <2>5. combatStep = "BLOCKERS"
    BY <2>4, BeforeCombat DEF COMBATATTACKERS, COMBATBLOCKERS, COMBATDAMAGE, COMBATEND
  <2> QED BY <1>1, <2>5 DEF NoFirst
<1>8. CASE OnCombatStepChange
  <2>1. view' = view
    BY <1>8 DEF OnCombatStepChange
  <2>2. ASSUME NEW s, Stepping(s), s # "FIRST_STRIKE"
        PROVE  NoFirst'
    <3>1. combatStep = s
      BY <2>2, SteppingCases
    <3> QED BY <1>1, <2>1, <2>2, <3>1 DEF NoFirst
  <2>3. CASE OnFirstStrike
    <3>1. Stepping("FIRST_STRIKE")
      BY <2>3 DEF OnFirstStrike
    <3>2. Arriving /\ combatStep = "FIRST_STRIKE"
      BY <3>1, SteppingCases
    <3>3. CASE \E a \in view : Strike[a] \in {"first", "double"}
      <4>1. AssignDamage("FIRST_STRIKE")
        BY <2>3, <3>3 DEF OnFirstStrike
      <4>2. CASE phase = COMBATBLOCKERS
        <5>1. AITurn
          BY <3>2, <4>2 DEF Arriving, COMBATBLOCKERS, COMBATDAMAGE
        <5>2. Delivered(<<Do("nextGamePhase")>>)
          BY <4>1, <5>1 DEF AssignDamage
        <5> QED BY <1>1, <1>5, <2>1, <5>2, SameFirst
      <4>3. CASE phase # COMBATBLOCKERS
        BY <1>1, <4>3 DEF NoFirst
      <4> QED BY <4>2, <4>3
    <3>4. CASE ~ \E a \in view : Strike[a] \in {"first", "double"}
      <4>1. \A a \in view : Strike[a] = "normal"
        BY <3>4, CreatureAssumption DEF TypeOK
      <4> QED BY <2>1, <4>1 DEF NoFirst
    <3> QED BY <3>3, <3>4
  <2>4. ~ OnFirstStrike => \E s \in CombatStep \ {"FIRST_STRIKE"} : Stepping(s)
    BY <1>8 DEF OnCombatStepChange, OnTriggers, OnOrder, OnDamage, OnEndFirstStrike, OnEndDamage, CombatStep
  <2> QED BY <2>2, <2>3, <2>4
<1> QED
  BY <1>6, <1>7, <1>8

(* Between calls a request may be made, and no combat step is called for.  *)
LEMMA OutsideKeepsFirst ==
  ASSUME TypeOK, Control, NoFirst, Environment
  PROVE  NoFirst'
<1>1. /\ phase' = phase /\ combatStep' = combatStep /\ view' = view /\ Idle
      /\ \/ calls' = calls
         \/ calls' = <<>>
         \/ calls' = <<Do("nextGamePhase")>>
         \/ \E es : Raise(es, <<>>)
  <2>1. CASE Request
    BY <2>1 DEF Request, turnVars, guiVars
  <2>2. CASE MoveCursor
    BY <2>2 DEF MoveCursor, turnVars
  <2>3. CASE ClickOK
    BY <2>3 DEF ClickOK, turnVars
  <2>4. ASSUME NEW c \in Creature, ToggleAttacker(c) \/ RemoveFromCombat(c) \/ LeavePlay(c) \/ EnterPlay(c)
        PROVE  /\ phase' = phase /\ combatStep' = combatStep /\ view' = view /\ Idle
               /\ calls' = calls \/ \E es : Raise(es, <<>>)
    BY <2>4 DEF ToggleAttacker, RemoveFromCombat, LeavePlay, EnterPlay, Affect, MayResolve, turnVars, guiVars
  <2>5. ASSUME NEW b \in Creature, NEW a \in Creature \cup {NoCard}, ToggleBlocker(b, a)
        PROVE  /\ phase' = phase /\ combatStep' = combatStep /\ view' = view /\ Idle
               /\ \E es : Raise(es, <<>>)
    BY <2>5 DEF ToggleBlocker, turnVars, guiVars
  <2>6. ASSUME NEW p \in Players, ModTurn(p)
        PROVE  phase' = phase /\ combatStep' = combatStep /\ view' = view /\ Idle /\ calls' = calls
    BY <2>6 DEF ModTurn, MayResolve, guiVars
  <2> QED BY <2>1, <2>2, <2>3, <2>4, <2>5, <2>6 DEF Environment
<1>2. ~ Return("nextCombatStep")'
  <2>1. CASE calls' = calls \/ calls' = <<>>
    BY <1>1, <2>1 DEF Return, Idle
  <2>2. CASE calls' = <<Do("nextGamePhase")>>
    BY <2>2, OneCall DEF Return
  <2>3. CASE \E es : Raise(es, <<>>)
    <3>1. PICK es : Raise(es, <<>>)
      BY <2>3
    <3>2. PICK k \in Seq(Call) : k = <<>>
      BY CallSeqs
    <3>3. Raise(es, k)
      BY <3>1, <3>2
    <3> QED BY <3>2, <3>3, NoStepRaised
  <2> QED BY <1>1, <2>1, <2>2, <2>3
<1> QED
  BY <1>1, <1>2, SameFirst

(* At rest, what a state is made of stays.                                 *)
LEMMA StuttersKeep ==
  ASSUME TypeOK, CardsSound, Views(Waiting), QueueFits, NoFirst, UNCHANGED vars
  PROVE  CardsSound' /\ Views(Waiting)' /\ QueueFits' /\ NoFirst'
<1>1. /\ UNCHANGED cardVars /\ eventsQueue' = eventsQueue /\ calls' = calls
      /\ inPlay' = inPlay /\ attacker' = attacker /\ defenser' = defenser
      /\ view' = view /\ viewBlk' = viewBlk /\ phase' = phase /\ combatStep' = combatStep
      /\ currentGamePhase' = currentGamePhase /\ currentPlayer' = currentPlayer
  BY DEF vars, turnVars, cardVars, guiVars
<1>2. (Fresh' <=> Fresh) /\ (Turn' <=> Turn)
  BY <1>1, SameTime DEF Acts
<1>3. CardsSound'
  BY <1>1, <1>2, SameCards
<1>4. Pending' = Pending /\ Waiting' = Waiting /\ (Return("nextCombatStep")' <=> Return("nextCombatStep"))
  BY <1>1 DEF Pending, Waiting, Return
<1>5. QueueFits'
  BY <1>1, <1>4, SameQueue
<1>6. Views(Waiting)'
  <2>1. PICK W : W = Waiting
    OBVIOUS
  <2>2. Views(W)'
    BY <1>1, <2>1, SameViews
  <2> QED BY <1>4, <2>1, <2>2, ViewsNext
<1>7. NoFirst'
  BY <1>1, <1>4 DEF NoFirst
<1> QED
  BY <1>3, <1>5, <1>6, <1>7

-----------------------------------------------------------------------------
(* The invariant.                                                          *)

VInv == IInv /\ CardsSound /\ Views(Waiting) /\ QueueFits /\ NoFirst

(* A game starts without attackers.                                        *)
LEMMA ViewsInit == Init => VInv
<1> SUFFICES ASSUME Init
             PROVE  VInv
  OBVIOUS
<1>1. IInv
  BY InvInit
<1>2. Waiting = {}
  BY NothingWaits DEF Init
<1>3. CardsSound
  BY DEF Init, CardsSound, OutOfPlay, FreshClear, OwnAttack, NoneBlocks, ListsAgree
<1>4. Views({})
  BY DEF Init, Views, ViewSound, TouchSound, MoveSound, FaceSound, OneFaced, ViewsApart, ViewsFresh, Fighting
<1>5. QueueFits
  BY <1>2, CalmEvents, CalmFits
<1>6. NoFirst
  BY DEF Init, NoFirst
<1>7. Views(Waiting)
  <2>1. PICK W : W = Waiting
    OBVIOUS
  <2>2. W = {}
    BY <1>2, <2>1
  <2>3. Views(W)
    BY <1>4, <2>2
  <2> QED BY <2>1, <2>3
<1> QED
  BY <1>1, <1>3, <1>5, <1>6, <1>7 DEF VInv

(* Every step keeps it.                                                    *)
LEMMA ViewsKept == VInv /\ [Next]_vars => VInv'
<1> SUFFICES ASSUME VInv, [Next]_vars
             PROVE  VInv'
  OBVIOUS
<1>1. /\ TypeOK /\ Control /\ AttackersInPlay /\ CardsSound /\ Views(Waiting)
      /\ QueueFits /\ NoFirst /\ IInv
  BY DEF VInv, IInv
<1>2. IInv'
  BY <1>1, InvNext
<1>3. CASE UNCHANGED vars
  BY <1>1, <1>2, <1>3, StuttersKeep DEF VInv
<1>4. CASE Environment
  BY <1>1, <1>2, <1>4, OutsideViews, OutsideKeepsFirst DEF VInv
<1>5. CASE NextGamePhase \/ SkipCombat \/ NextCombatStep \/ TriggersStep
  BY <1>1, <1>2, <1>5, CallsKeepViews, CallsKeepFirst DEF VInv
<1>6. CASE Forward
  BY <1>1, <1>2, <1>6, ForwardViews, CallsKeepFirst DEF VInv
<1>7. CASE EnterPhase
  BY <1>1, <1>2, <1>7, EnterPhaseViews, CallsKeepFirst DEF VInv
<1>8. CASE PhaseActions
  BY <1>1, <1>2, <1>8, ActionsKeepViews, CallsKeepFirst DEF VInv
<1>9. CASE Pop
  BY <1>1, <1>2, <1>9, PopKeepsViews, PopKeepsFirst DEF VInv
<1>10. CASE OnChosen \/ OnAttackerOn \/ OnAttackerOff \/ OnBlocker \/ OnZoneChange
  BY <1>1, <1>2, <1>10, CardEventsViews, DeliveriesKeepFirst DEF VInv
<1>11. CASE OnPhaseChange
  BY <1>1, <1>2, <1>11, PhaseChangeViews, DeliveriesKeepFirst DEF VInv
<1>12. CASE OnCombatStepChange
  BY <1>1, <1>2, <1>12, StepViews, DeliveriesKeepFirst DEF VInv
<1>13. CASE OnDamageStackResolved
  BY <1>1, <1>2, <1>13, ResolvedViews, DeliveriesKeepFirst DEF VInv
<1> QED
  BY <1>3, <1>4, <1>5, <1>6, <1>7, <1>8, <1>9, <1>10, <1>11, <1>12, <1>13 DEF Next, Engine

(* The flags of the cards, the views of GuiCombat and the events between   *)
(* them fit together in every state of the engine.                         *)
THEOREM ViewsInvariant == Spec => []VInv
BY ViewsInit, ViewsKept, PTL DEF Spec

(* An attacker's list of blockers and the blockers' own pointers agree,    *)
(* whatever leaves the combat, and in whatever order.                      *)
THEOREM ListsAlwaysAgree == Spec => []ListsAgree
<1>1. VInv => ListsAgree
  BY DEF VInv, CardsSound
<1> QED
  BY <1>1, ViewsInvariant, PTL

(* Between calls GuiCombat's views show the attackers in play and those    *)
(* who block them, though it is told of every change after the fact.       *)
THEOREM ViewsAlwaysAgree == Spec => []ViewsAgree
<1>1. VInv => ViewsAgree
  <2> SUFFICES ASSUME VInv, Idle
               PROVE  /\ view = inPlay \cap attacker
                      /\ \A a \in view : viewBlk[a] = {b \in inPlay : defenser[b] = a}
    BY DEF ViewsAgree
  <2>1. TypeOK /\ Control /\ Views(Waiting)
    BY DEF VInv, IInv
  <2>2. Waiting = {}
    BY <2>1, IdleRuns, NothingWaits
  <2>3. PICK W : W = Waiting
    OBVIOUS
  <2>4. Views(W) /\ \A e \in W : e.type \notin CardTypes
    BY <2>1, <2>2, <2>3
  <2>5. view = Fighting /\ \A a \in view : viewBlk[a] = Facing(a)
    BY <2>1, <2>4, ViewsSettled
  <2> QED BY <2>5 DEF Fighting, Facing
<1> QED
  BY <1>1, ViewsInvariant, PTL

(* Only the listener of the damage stack acts while its event is handed    *)
(* out, and no blocker leaves an attacker unblocked then.                  *)
LEMMA BlockedKept ==
  ASSUME VInv, Next, Delivering("DamageStackResolved"), NEW a \in blocked, a \in inPlay', a \in attacker'
  PROVE  a \in blocked'
<1>1. TypeOK /\ Control /\ QueueFits
  BY DEF VInv, IInv
<1>2. calls # <<>> /\ Head(calls).op = "drain" /\ Delivery.type = "DamageStackResolved"
  BY DEF Delivering, Return, Delivery
<1>3. OnDamageStackResolved
  <2>1. ~ Environment
    BY <1>2 DEF Environment, Request, MoveCursor, ClickOK, ToggleAttacker, RemoveFromCombat, LeavePlay,
       EnterPlay, ToggleBlocker, ModTurn, Affect, MayResolve, Idle
  <2>2. ~ (NextGamePhase \/ Forward \/ SkipCombat \/ EnterPhase \/ PhaseActions
           \/ NextCombatStep \/ TriggersStep \/ Pop)
    BY <1>2 DEF NextGamePhase, Forward, SkipCombat, EnterPhase, PhaseActions, NextCombatStep,
       TriggersStep, Pop, Return
  <2>3. ~ (OnChosen \/ OnAttackerOn \/ OnAttackerOff \/ OnBlocker \/ OnZoneChange \/ OnPhaseChange)
    BY <1>2 DEF OnChosen, OnAttackerOn, OnAttackerOff, OnBlocker, OnZoneChange, OnPhaseChange,
       Delivering, Delivery
  <2>4. ~ OnCombatStepChange
    BY <1>2 DEF OnCombatStepChange, OnTriggers, OnOrder, OnFirstStrike, OnDamage, OnEndFirstStrike,
       OnEndDamage, Stepping, Delivering, Delivery
  <2> QED BY <2>1, <2>2, <2>3, <2>4 DEF Next, Engine
<1>4. PICK D \in SUBSET (Delivery.hit \cap inPlay), C \in SUBSET (Delivery.hit \cap inPlay) : LeaveCombat(C, D)
  BY <1>3 DEF OnDamageStackResolved
<1>5. a \notin C \cup D /\ a \in Creature
  BY <1>1, <1>4 DEF LeaveCombat, TypeOK
<1>6. Unblocks => Freed(C, a) = {}
  <2> SUFFICES ASSUME Unblocks
               PROVE  Freed(C, a) = {}
    OBVIOUS
  <2>1. Delivery \in Waiting
    <3>1. eventsQueue # <<>> /\ eventsQueue \in Seq(Event) /\ Delivery = Head(eventsQueue) /\ Return("drain")
      BY <1>1, DeliveryCases DEF Delivering
    <3>2. Pending = eventsQueue
      BY <3>1 DEF Pending
    <3> QED BY <3>1, <3>2, SetOfRest DEF Waiting
  <2>2. \A c \in Delivery.hit : defenser[c] = NoCard
    BY <1>1, <1>2, <2>1 DEF QueueFits, HitsAttack, Unblocks
  <2>3. \A c \in C : defenser[c] # a
    BY <1>4, <1>5, <2>2, CreatureAssumption
  <2> QED BY <2>3 DEF Freed
<1> QED
  BY <1>4, <1>5, <1>6 DEF LeaveCombat

(* An attacker that was blocked stays blocked when its blockers die or     *)
(* regenerate of combat damage, in every duel.                             *)
THEOREM BlockedAlwaysStays == Spec => BlockedStays
<1>1. VInv /\ [Next]_vars =>
        [Delivering("DamageStackResolved") =>
           \A a \in blocked : a \in inPlay' /\ a \in attacker' => a \in blocked']_vars
  BY BlockedKept
<1> QED
  BY <1>1, ViewsInvariant, PTL DEF Spec, BlockedStays
-----------------------------------------------------------------------------
(* The damage screen.                                                      *)

(* The keys stay safe when nothing they read changes.                      *)
LEMMA SameScreen ==
  ASSUME Safe, cursor' \in {cursor, "NONE"}, view' = view, viewBlk' = viewBlk, show' = show,
         cursor' # "NONE" => activeAtk' = activeAtk
  PROVE  Safe'
BY DEF Safe

(* Calls, and what comes from outside but the keys, leave GuiCombat alone. *)
LEMMA CallsKeepSafe ==
  ASSUME Safe,
         \/ NextGamePhase \/ Forward \/ SkipCombat \/ EnterPhase \/ PhaseActions
         \/ NextCombatStep \/ TriggersStep \/ Pop \/ OnChosen \/ OnPhaseChange
         \/ OnDamageStackResolved
         \/ Request \/ ClickOK \/ (\E p \in Players : ModTurn(p))
         \/ \E c \in Creature : \/ ToggleAttacker(c) \/ RemoveFromCombat(c)
                                \/ LeavePlay(c) \/ EnterPlay(c)
         \/ \E b \in Creature, a \in Creature \cup {NoCard} : ToggleBlocker(b, a)
  PROVE  Safe'
<1>1. /\ cursor' \in {cursor, "NONE"} /\ view' = view /\ viewBlk' = viewBlk /\ show' = show
      /\ cursor' # "NONE" => activeAtk' = activeAtk
  <2>1. CASE NextGamePhase \/ Forward \/ SkipCombat \/ EnterPhase \/ PhaseActions
    BY <2>1 DEF NextGamePhase, Forward, SkipCombat, EnterPhase, PhaseActions, guiVars
  <2>2. CASE NextCombatStep \/ TriggersStep \/ Pop \/ OnChosen \/ OnDamageStackResolved
    BY <2>2 DEF NextCombatStep, TriggersStep, Pop, OnChosen, OnDamageStackResolved, guiVars
  <2>3. CASE OnPhaseChange
    BY <2>3 DEF OnPhaseChange
  <2>4. CASE Request \/ ClickOK \/ (\E p \in Players : ModTurn(p))
    BY <2>4 DEF Request, ClickOK, ModTurn, guiVars
  <2>5. CASE \E c \in Creature : \/ ToggleAttacker(c) \/ RemoveFromCombat(c)
                                 \/ LeavePlay(c) \/ EnterPlay(c)
    BY <2>5 DEF ToggleAttacker, RemoveFromCombat, LeavePlay, EnterPlay, Affect, guiVars
  <2>6. CASE \E b \in Creature, a \in Creature \cup {NoCard} : ToggleBlocker(b, a)
    BY <2>6 DEF ToggleBlocker, guiVars
  <2> QED BY <2>1, <2>2, <2>3, <2>4, <2>5, <2>6
<1> QED
  BY <1>1, SameScreen

(* The keys move between what is shown.                                    *)
LEMMA KeysKeepSafe ==
  ASSUME Safe, MoveCursor
  PROVE  Safe'
<1>1. /\ view' = view /\ viewBlk' = viewBlk /\ show' = show /\ cursor # "NONE"
      /\ \/ cursor' = "ATK" /\ activeAtk' \in IF show = {} THEN {NoCard} ELSE show
         \/ cursor' \in {"ATK", "BLK"} /\ cursor \in {"ATK", "BLK"} /\ activeAtk' = activeAtk
         \/ cursor' = "OK"
  BY DEF MoveCursor
<1> QED
  BY <1>1 DEF Safe

(* A creature begins to attack, or to block, only before the screen is up, *)
(* so that none that is shown is put among the views once more.            *)
LEMMA AttackersKeepSafe ==
  ASSUME VInv, Safe, OnAttackerOn
  PROVE  Safe'
<1>1. TypeOK /\ Control /\ QueueFits /\ Views(Waiting)
  BY DEF VInv, IInv
<1>2. /\ Delivering("AttackerOn") /\ Delivered(<<>>) /\ eventsQueue' = eventsQueue
      /\ cursor' = cursor
  BY DEF OnAttackerOn
<1>3. cursor = "NONE"
  <2>1. PICK ops \in Seq(Call) : ops = <<>> /\ Delivered(ops)
    BY <1>2, ListenerCalls
  <2>2. Delivery \in Waiting /\ Delivery.type = "AttackerOn"
    BY <1>1, <1>2, <2>1, DeliversNothing
  <2>3. currentGamePhase = COMBATATTACKERS
    BY <1>1, <2>2 DEF Views, TouchSound
  <2>4. /\ Quiet \/ Arrives
        /\ Undelivered = eventsQueue /\ Delivery = Head(eventsQueue)
    BY <1>1, <1>2, DeliveryCases
  <2>5. cursor # "NONE" => Here /\ phase \in {COMBATBLOCKERS, COMBATDAMAGE}
    BY <2>2, <2>4 DEF Quiet, Arrives, Closing, Screen, LeftOpen
  <2> QED BY <2>3, <2>5 DEF Here, COMBATATTACKERS, COMBATBLOCKERS, COMBATDAMAGE
<1> QED
  BY <1>2, <1>3 DEF Safe

(* Departures, unless they strand it.                                      *)
LEMMA DeparturesKeepSafe ==
  ASSUME TypeOK, Control, Safe, ~ Stranding, OnAttackerOff \/ OnBlocker \/ OnZoneChange
  PROVE  Safe'
<1>1. PICK type \in {"AttackerOff", "Blocker", "ZoneChange"} : Delivering(type)
  BY DEF OnAttackerOff, OnBlocker, OnZoneChange
<1>2. PICK c : c = Delivery.card
  OBVIOUS
<1>3. c \in Creature
  BY <1>1, <1>2, DeliveryCases, EventFacts
<1>4. c # activeAtk /\ show # {c} /\ \A a \in show : viewBlk[a] # {c}
  BY <1>1, <1>2 DEF Stranding
<1>5. viewBlk \in [Creature -> SUBSET Creature] /\ view \subseteq Creature
  BY DEF TypeOK
<1>6. cursor' = cursor
  BY DEF OnAttackerOff, OnBlocker, OnZoneChange
<1>7. ASSUME DropAttacker(c), activeAtk' = activeAtk
      PROVE  Safe'
  <2>1. /\ view' = view \ {c} /\ show' = show \ {c}
        /\ \A a \in Creature \ {c} : viewBlk'[a] = viewBlk[a]
    BY <1>3, <1>5, <1>7 DEF DropAttacker
  <2>2. show # {} => show' # {}
    BY <1>4, <2>1
  <2> QED BY <1>4, <1>5, <1>6, <1>7, <2>1, <2>2 DEF Safe
<1>8. ASSUME view' = view, show' = show, activeAtk' = activeAtk,
             \A a \in view : viewBlk[a] \ {c} \subseteq viewBlk'[a]
      PROVE  Safe'
  BY <1>4, <1>6, <1>8 DEF Safe
<1>9. CASE OnAttackerOff
  <2>1. activeAtk' = activeAtk /\ (DropAttacker(c) \/ UNCHANGED <<view, viewBlk, show>>)
    BY <1>2, <1>9 DEF OnAttackerOff
  <2>2. CASE UNCHANGED <<view, viewBlk, show>>
    BY <1>8, <2>1, <2>2
  <2> QED BY <1>7, <2>1, <2>2
<1>10. CASE OnBlocker
  <2>1. view' = view /\ show' = show /\ activeAtk' = activeAtk
    BY <1>10 DEF OnBlocker
  <2>2. PICK added \in [Creature -> SUBSET Creature] :
          /\ \A a \in view : viewBlk[a] \subseteq added[a]
          /\ viewBlk' = added \/ viewBlk' = [added EXCEPT ![Delivery.before] = @ \ {c}]
    <3> DEFINE m == IF Delivery.after \in view
                    THEN [viewBlk EXCEPT ![Delivery.after] = @ \cup {c}] ELSE viewBlk
    <3>1. m \in [Creature -> SUBSET Creature] /\ \A a \in view : viewBlk[a] \subseteq m[a]
      BY <1>3, <1>5
    <3>2. viewBlk' = m \/ viewBlk' = [m EXCEPT ![Delivery.before] = @ \ {c}]
      BY <1>2, <1>10 DEF OnBlocker
    <3> HIDE DEF m
    <3> QED BY <3>1, <3>2
  <2>3. \A a \in view : viewBlk[a] \ {c} \subseteq viewBlk'[a]
    BY <1>5, <2>2
  <2> QED BY <1>8, <2>1, <2>3
<1>11. CASE OnZoneChange
  <2>1. CASE c \in view
    <3>1. DropAttacker(c) /\ activeAtk' = activeAtk
      BY <1>2, <1>4, <1>11, <2>1 DEF OnZoneChange
    <3> QED BY <1>7, <3>1
  <2>2. CASE c \notin view
    <3>1. view' = view /\ show' = show /\ activeAtk' = activeAtk
      BY <1>2, <1>11, <2>2 DEF OnZoneChange
    <3>2. viewBlk' = viewBlk \/ \E a \in view : viewBlk' = [viewBlk EXCEPT ![a] = @ \ {c}]
      BY <1>2, <1>11, <2>2 DEF OnZoneChange, DropBlocker
    <3>3. \A a \in view : viewBlk[a] \ {c} \subseteq viewBlk'[a]
      BY <1>5, <3>2
    <3> QED BY <1>8, <3>1, <3>3
  <2> QED BY <2>1, <2>2
<1> QED
  BY <1>9, <1>10, <1>11

(* Views with some blockers to choose among have blockers.                 *)
LEMMA ShownAreBlocked ==
  ASSUME NEW a, NEW n \in {0, 1}, Cardinality(viewBlk[a]) > n
  PROVE  viewBlk[a] # {}
BY FS_EmptySet

(* An attacker the damage screen is shown for has blockers.                *)
LEMMA ToAssignShown ==
  ASSUME NEW s, NEW a \in ToAssign(s)
  PROVE  a \in view /\ viewBlk[a] # {}
<1> DEFINE n == IF a \in Trample THEN 0 ELSE 1
<1>1. a \in view /\ Cardinality(viewBlk[a]) > n /\ n \in {0, 1}
  BY DEF ToAssign
<1> HIDE DEF n
<1> QED BY <1>1, ShownAreBlocked

(* A screen that comes up shows attackers that are blocked.                *)
LEMMA OpensSafe ==
  ASSUME show' # {}, \A a \in show' : a \in view /\ viewBlk[a] # {}, OpenScreen,
         view' = view, viewBlk' = viewBlk
  PROVE  Safe'
BY DEF Safe, OpenScreen

(* Damage is assigned: on the screen if there is a choice, and if there is *)
(* none, the screen is down unless a skip left it up.                      *)
LEMMA AssignKeepsSafe ==
  ASSUME TypeOK, Control, Safe, ~ LeftUp, NEW s \in {"FIRST_STRIKE", "DAMAGE"}, Stepping(s),
         AssignDamage(s), view' = view, viewBlk' = viewBlk
  PROVE  Safe'
<1>1. s = "FIRST_STRIKE" => cursor = "NONE"
  BY SteppingCases DEF LeftOpen, Arriving, COMBATBLOCKERS, COMBATDAMAGE
<1>2. CASE AITurn
  <2>1. UNCHANGED <<cursor, activeAtk, show>>
    BY <1>2 DEF AssignDamage
  <2> QED BY <2>1, SameScreen
<1>3. CASE ~ AITurn /\ ToAssign(s) = {}
  <2>1. cursor = "NONE"
    BY <1>1, <1>3 DEF LeftUp
  <2>2. cursor' = cursor
    BY <1>3 DEF AssignDamage
  <2> QED BY <2>1, <2>2 DEF Safe
<1>4. CASE ~ AITurn /\ ToAssign(s) # {}
  <2>1. show' = ToAssign(s) /\ OpenScreen
    BY <1>4 DEF AssignDamage
  <2>2. \A a \in ToAssign(s) : a \in view /\ viewBlk[a] # {}
    BY ToAssignShown
  <2> QED BY <1>4, <2>1, <2>2, OpensSafe
<1> QED
  BY <1>2, <1>3, <1>4

(* The listener of the combat steps.                                       *)
LEMMA StepsKeepSafe ==
  ASSUME TypeOK, Control, Safe, ~ LeftUp, OnCombatStepChange
  PROVE  Safe'
<1>1. view' = view /\ viewBlk' = viewBlk
  BY DEF OnCombatStepChange
<1>2. CASE UNCHANGED <<cursor, activeAtk, show>>
  BY <1>1, <1>2, SameScreen
<1>3. CASE OnTriggers \/ OnEndFirstStrike \/ OnEndDamage
  BY <1>2, <1>3 DEF OnTriggers, OnEndFirstStrike, OnEndDamage, ResolveDamage
<1>4. CASE OnOrder
  <2>1. cursor = "NONE"
    <3>1. Stepping("ORDER")
      BY <1>4 DEF OnOrder
    <3>2. combatStep = "ORDER" /\ Arriving /\ LeftOpen
      BY <3>1, SteppingCases
    <3> QED BY <3>2 DEF LeftOpen, Arriving, COMBATBLOCKERS, COMBATDAMAGE
  <2>2. CASE cursor' = cursor
    BY <2>1, <2>2 DEF Safe
  <2>3. CASE cursor' # cursor
    <3>1. /\ show' = {a \in view : Cardinality(viewBlk[a]) > 1} /\ show' # {} /\ OpenScreen
      BY <1>4, <2>3 DEF OnOrder
    <3>2. \A a \in show' : a \in view /\ viewBlk[a] # {}
      BY <3>1, ShownAreBlocked
    <3> QED BY <1>1, <3>1, <3>2, OpensSafe
  <2> QED BY <2>2, <2>3
<1>5. CASE OnFirstStrike
  <2>1. Stepping("FIRST_STRIKE") /\ (AssignDamage("FIRST_STRIKE") \/ UNCHANGED <<cursor, activeAtk, show>>)
    BY <1>5 DEF OnFirstStrike
  <2>2. PICK s \in {"FIRST_STRIKE", "DAMAGE"} : s = "FIRST_STRIKE"
    OBVIOUS
  <2>3. Stepping(s) /\ (AssignDamage(s) \/ UNCHANGED <<cursor, activeAtk, show>>)
    BY <2>1, <2>2
  <2> QED BY <1>1, <1>2, <2>3, AssignKeepsSafe
<1>6. CASE OnDamage
  <2>1. Stepping("DAMAGE") /\ AssignDamage("DAMAGE")
    BY <1>6 DEF OnDamage
  <2>2. PICK s \in {"FIRST_STRIKE", "DAMAGE"} : s = "DAMAGE"
    OBVIOUS
  <2>3. Stepping(s) /\ AssignDamage(s)
    BY <2>1, <2>2
  <2> QED BY <1>1, <2>3, AssignKeepsSafe
<1> QED
  BY <1>3, <1>4, <1>5, <1>6 DEF OnCombatStepChange

(* The screen is up only in the steps that are its own, and shows the one  *)
(* the combat is in (the assertions of GuiCombat::clickOK); and whatever   *)
(* resolves, leaves or is skipped meanwhile, its keys are safe as long as  *)
(* no departure strands it and no skip leaves it up.                       *)
THEOREM ScreenIsSafe == Spec => ScreenSafe
<1> DEFINE P == Idle /\ cursor # "NONE" => guiStep = combatStep /\ guiStep \notin {"BLOCKERS", "TRIGGERS"}
           A == Safe /\ ~ Stranding /\ ~ LeftUp => Safe'
<1>1. IInv => P
  <2> SUFFICES ASSUME IInv, Idle, cursor # "NONE"
               PROVE  guiStep = combatStep /\ guiStep \notin {"BLOCKERS", "TRIGGERS"}
    OBVIOUS
  <2>1. AtRest /\ Screen(<<>>)
    BY IdleRuns DEF IInv
  <2> QED BY <2>1 DEF AtRest, Settled, Screen, COMBATBLOCKERS, COMBATDAMAGE
<1>2. VInv /\ [Next]_vars => [A]_vars
  <2> SUFFICES ASSUME VInv, Next, Safe, ~ Stranding, ~ LeftUp
               PROVE  Safe'
    OBVIOUS
  <2>1. TypeOK /\ Control
    BY DEF VInv, IInv
  <2> QED
    BY <2>1, CallsKeepSafe, KeysKeepSafe, AttackersKeepSafe, DeparturesKeepSafe, StepsKeepSafe
       DEF Next, Engine, Environment
<1>3. Spec => []P
  <2> HIDE DEF P
  <2> QED BY <1>1, Invariant, PTL
<1>4. Spec => [][A]_vars
  <2> HIDE DEF A
  <2> QED BY <1>2, ViewsInvariant, PTL DEF Spec
<1> QED
  BY <1>3, <1>4 DEF ScreenSafe

-----------------------------------------------------------------------------
(* The damage.                                                             *)

(* What DamageIsCurrent says of the damages, pair by pair, and when it     *)
(* has to hold: from the assignment of normal damage to its resolution.    *)
DamagesFit ==
  /\ \A a \in view : \A b \in viewBlk[a] :
       /\ Strikes(a, "DAMAGE") => <<a, b>> \in damages
       /\ Strikes(b, "DAMAGE") => <<b, a>> \in damages
  /\ \A x, y \in Creature : <<x, y>> \in damages =>
       Strikes(x, "DAMAGE") /\ (y \in view \/ (x \in view /\ y \in viewBlk[x]))
Assigned ==
  \/ combatStep = "DAMAGE" /\ Step("DAMAGE") \notin Waiting
  \/ combatStep = "END_DAMAGE" /\ strikes = FirstOnly
Current == Assigned => DamagesFit

(* A pair is assigned when its creatures face each other and the first     *)
(* strikes.                                                                *)
LEMMA AssignedPairs ==
  ASSUME TypeOK
  PROVE  /\ Assignment("DAMAGE") \subseteq Creature \X Creature
         /\ \A x, y \in Creature :
              <<x, y>> \in Assignment("DAMAGE") <=>
                /\ Strikes(x, "DAMAGE")
                /\ (x \in view /\ y \in viewBlk[x]) \/ (y \in view /\ x \in viewBlk[y])
<1>1. view \subseteq Creature /\ viewBlk \in [Creature -> SUBSET Creature]
  BY DEF TypeOK
<1>2. Assignment("DAMAGE") \subseteq Creature \X Creature
  BY AssignmentTyped
<1>3. ASSUME NEW x \in Creature, NEW y \in Creature
      PROVE  <<x, y>> \in Assignment("DAMAGE") <=>
               /\ Strikes(x, "DAMAGE")
               /\ (x \in view /\ y \in viewBlk[x]) \/ (y \in view /\ x \in viewBlk[y])
  BY <1>1 DEF Assignment
<1> QED
  BY <1>2, <1>3

(* Damage that was just assigned fits.                                     *)
LEMMA AssignedFits ==
  ASSUME TypeOK, damages' = Assignment("DAMAGE"), view' = view, viewBlk' = viewBlk
  PROVE  DamagesFit'
<1>1. view \subseteq Creature /\ viewBlk \in [Creature -> SUBSET Creature]
  BY DEF TypeOK
<1>2. PICK A : A = Assignment("DAMAGE")
  OBVIOUS
<1>3. \A x, y \in Creature :
        <<x, y>> \in A <=>
          /\ Strikes(x, "DAMAGE")
          /\ (x \in view /\ y \in viewBlk[x]) \/ (y \in view /\ x \in viewBlk[y])
  <2>1. ASSUME NEW x \in Creature, NEW y \in Creature
        PROVE  <<x, y>> \in Assignment("DAMAGE") <=>
                 /\ Strikes(x, "DAMAGE")
                 /\ (x \in view /\ y \in viewBlk[x]) \/ (y \in view /\ x \in viewBlk[y])
    BY AssignedPairs
  <2> QED BY <1>2, <2>1, Zenon
<1>4. damages' = A
  BY <1>2
<1> QED
  BY <1>1, <1>3, <1>4 DEF DamagesFit

(* Damage that fits is what DamageIsCurrent promises.                      *)
LEMMA FitIsCurrent ==
  ASSUME TypeOK, DamagesFit
  PROVE  /\ Assignment("DAMAGE") \subseteq damages
         /\ \A d \in damages \ Assignment("DAMAGE") : Strikes(d[1], "DAMAGE") /\ d[2] \in view
<1>1. view \subseteq Creature /\ viewBlk \in [Creature -> SUBSET Creature]
      /\ damages \subseteq Creature \X Creature
  BY DEF TypeOK
<1>2. ASSUME NEW d \in Assignment("DAMAGE")
      PROVE  d \in damages
  <2>1. PICK x \in Creature, y \in Creature : d = <<x, y>>
    BY AssignedPairs
  <2>2. Strikes(x, "DAMAGE") /\ ((x \in view /\ y \in viewBlk[x]) \/ (y \in view /\ x \in viewBlk[y]))
    BY <2>1, AssignedPairs
  <2> QED BY <2>1, <2>2 DEF DamagesFit
<1>3. ASSUME NEW d \in damages, d \notin Assignment("DAMAGE")
      PROVE  Strikes(d[1], "DAMAGE") /\ d[2] \in view
  <2>1. PICK x \in Creature, y \in Creature : d = <<x, y>>
    BY <1>1
  <2>2. Strikes(x, "DAMAGE") /\ (y \in view \/ (x \in view /\ y \in viewBlk[x]))
    BY <2>1 DEF DamagesFit
  <2>3. y \in view
    BY <1>3, <2>1, <2>2, AssignedPairs
  <2>4. d[1] = x /\ d[2] = y
    BY <2>1
  <2> QED BY <2>2, <2>3, <2>4
<1> QED
  BY <1>2, <1>3

(* An attacker goes, with all that faces it.                               *)
LEMMA DropFits ==
  ASSUME TypeOK, OneFaced, ViewsApart, DamagesFit, NEW c \in view, DropAttacker(c)
  PROVE  DamagesFit'
<1>1. view \subseteq Creature /\ viewBlk \in [Creature -> SUBSET Creature] /\ c \in Creature
  BY DEF TypeOK
<1>2. /\ view' = view \ {c} /\ \A a \in view' : viewBlk'[a] = viewBlk[a]
      /\ \A x, y \in Creature :
           <<x, y>> \in damages' <=> <<x, y>> \in damages /\ y # c /\ y \notin viewBlk[c]
  BY <1>1 DEF DropAttacker
<1>3. \A a \in view' : \A b \in viewBlk'[a] :
        /\ a \in view /\ b \in viewBlk[a] /\ a # c /\ b # c
        /\ a \notin viewBlk[c] /\ b \notin viewBlk[c] /\ a \in Creature /\ b \in Creature
  BY <1>1, <1>2 DEF OneFaced, ViewsApart
<1>4. ASSUME NEW a \in view', NEW b \in viewBlk'[a]
      PROVE  /\ Strikes(a, "DAMAGE") => <<a, b>> \in damages'
             /\ Strikes(b, "DAMAGE") => <<b, a>> \in damages'
  <2>1. /\ a \in view /\ b \in viewBlk[a] /\ a # c /\ b # c
        /\ a \notin viewBlk[c] /\ b \notin viewBlk[c] /\ a \in Creature /\ b \in Creature
    BY <1>3
  <2>2. /\ Strikes(a, "DAMAGE") => <<a, b>> \in damages
        /\ Strikes(b, "DAMAGE") => <<b, a>> \in damages
    BY <2>1 DEF DamagesFit
  <2> QED BY <1>2, <2>1, <2>2
<1>5. \A x, y \in Creature : <<x, y>> \in damages' =>
        Strikes(x, "DAMAGE") /\ (y \in view' \/ (x \in view' /\ y \in viewBlk'[x]))
  BY <1>2 DEF DamagesFit
<1> QED
  BY <1>4, <1>5 DEF DamagesFit

(* A blocker goes: what it deals to the attacker stays.                    *)
LEMMA UnblockFits ==
  ASSUME TypeOK, OneFaced, ViewsApart, DamagesFit,
         NEW a \in view, NEW b \in viewBlk[a], DropBlocker(b, a), view' = view
  PROVE  DamagesFit'
<1>1. view \subseteq Creature /\ viewBlk \in [Creature -> SUBSET Creature] /\ b \in Creature
  BY DEF TypeOK
<1>2. /\ \A x \in view : viewBlk'[x] = viewBlk[x] \ {b}
      /\ \A x, y \in Creature : <<x, y>> \in damages' <=> <<x, y>> \in damages /\ y # b
  BY <1>1 DEF DropBlocker, OneFaced
<1>3. \A x \in view : \A y \in viewBlk'[x] :
        y \in viewBlk[x] /\ x # b /\ y # b /\ x \in Creature /\ y \in Creature
  BY <1>1, <1>2 DEF ViewsApart
<1>4. ASSUME NEW x \in view', NEW y \in viewBlk'[x]
      PROVE  /\ Strikes(x, "DAMAGE") => <<x, y>> \in damages'
             /\ Strikes(y, "DAMAGE") => <<y, x>> \in damages'
  <2>1. x \in view /\ y \in viewBlk[x] /\ x # b /\ y # b /\ x \in Creature /\ y \in Creature
    BY <1>3
  <2>2. /\ Strikes(x, "DAMAGE") => <<x, y>> \in damages
        /\ Strikes(y, "DAMAGE") => <<y, x>> \in damages
    BY <2>1 DEF DamagesFit
  <2> QED BY <1>2, <2>1, <2>2
<1>5. \A x, y \in Creature : <<x, y>> \in damages' =>
        Strikes(x, "DAMAGE") /\ (y \in view' \/ (x \in view' /\ y \in viewBlk'[x]))
  BY <1>2 DEF DamagesFit
<1> QED
  BY <1>4, <1>5 DEF DamagesFit

(* Nothing changes.                                                        *)
LEMMA SameDamages ==
  ASSUME DamagesFit, view' = view, viewBlk' = viewBlk, damages' = damages
  PROVE  DamagesFit'
BY DEF DamagesFit

(* What waits goes on waiting until it is delivered.                       *)
LEMMA WaitsOn ==
  ASSUME TypeOK, NEW es \in Seq(Event), eventsQueue' = eventsQueue \o es, NEW e \in Waiting
  PROVE  e \in Waiting' \/ (Return("drain") /\ eventsQueue # <<>> /\ e = Delivery)
<1>1. eventsQueue # <<>> /\ eventsQueue \in Seq(Event)
  BY NothingWaits DEF TypeOK
<1>2. PICK t \in Seq(Event) : t = Tail(eventsQueue) /\ ToSet(eventsQueue) = {Delivery} \cup ToSet(t)
  BY <1>1, SetOfRest DEF Delivery
<1>3. e \in ToSet(t) \/ (Return("drain") /\ e = Delivery)
  BY <1>1, <1>2 DEF Waiting, Pending
<1>4. PICK q \in Seq(Event) : q = eventsQueue' /\ q # <<>> /\ Tail(q) = t \o es
  <2>1. PICK s \in Seq(Event) : s = eventsQueue /\ s # <<>> /\ t = Tail(s)
    BY <1>1, <1>2
  <2>2. s \o es \in Seq(Event) /\ s \o es # <<>> /\ Tail(s \o es) = Tail(s) \o es
    BY <2>1, EventSeqs
  <2> QED BY <2>1, <2>2
<1>5. ToSet(t) \subseteq ToSet(Tail(q)) /\ ToSet(t) \subseteq ToSet(q)
  <2>1. ToSet(Tail(q)) = ToSet(t) \cup ToSet(es)
    <3>1. ToSet(t \o es) = ToSet(t) \cup ToSet(es)
      BY SetOfConcat
    <3> QED BY <1>4, <3>1
  <2>2. ToSet(q) = {Head(q)} \cup ToSet(Tail(q))
    BY <1>4, SetOfRest
  <2> QED BY <2>1, <2>2
<1>6. Pending' = q \/ Pending' = Tail(q)
  BY <1>4 DEF Pending
<1>7. Waiting' = ToSet(q) \/ Waiting' = ToSet(Tail(q))
  BY <1>6 DEF Waiting
<1> QED
  BY <1>1, <1>3, <1>5, <1>7

(* Unless the steps move on, damage that was current stays so.             *)
LEMMA StaysCurrent ==
  ASSUME Current, combatStep' = combatStep, strikes' = strikes \/ strikes' = <<>>,
         Step("DAMAGE") \in Waiting => Step("DAMAGE") \in Waiting',
         Assigned /\ DamagesFit => DamagesFit'
  PROVE  Current'
<1>1. <<>> # FirstOnly
  BY DEF FirstOnly
<1>2. Assigned' => Assigned
  BY <1>1 DEF Assigned
<1> QED
  BY <1>2 DEF Current

(* In the other steps there is none.                                       *)
LEMMA NoneAssigned ==
  ASSUME combatStep' \notin {"DAMAGE", "END_DAMAGE"}
  PROVE  Current'
BY DEF Current, Assigned

(* The step of normal damage is not waiting when the next one is called.   *)
LEMMA NoDamageWaits ==
  ASSUME TypeOK, Control, Return("nextCombatStep")
  PROVE  Step("DAMAGE") \notin Waiting
<1>1. calls # <<>> /\ Head(calls).op = "nextCombatStep" /\ ~ Return("drain")
  BY DEF Return
<1>2. Running \/ Nested
  BY EngineCalls
<1>3. CASE Running
  BY <1>3, NothingWaits DEF Running
<1>4. CASE Nested
  <2>1. PICK p \in {COMBATBLOCKERS, COMBATDAMAGE} : NestedWith(p)
    BY <1>4 DEF Nested
  <2>2. eventsQueue # <<>> /\ (Tail(eventsQueue) = <<>> \/ Tail(eventsQueue) = <<TurnTo(p, p + 1)>>)
    BY <2>1 DEF NestedWith, Within
  <2>3. Waiting = {} \/ Waiting = {TurnTo(p, p + 1)}
    BY <1>1, <2>2, SetOfOne DEF Waiting, Pending
  <2>4. Step("DAMAGE") # TurnTo(p, p + 1)
    BY DEF Step, TurnTo
  <2> QED BY <2>3, <2>4
<1> QED
  BY <1>2, <1>3, <1>4

(* Nothing is raised, and the step of normal damage is not what is         *)
(* delivered: it waits on.                                                 *)
LEMMA StepWaitsOn ==
  ASSUME TypeOK, NEW es \in Seq(Event), eventsQueue' = eventsQueue \o es,
         ~ Stepping("DAMAGE"), Step("DAMAGE") \in Waiting
  PROVE  Step("DAMAGE") \in Waiting'
<1>1. PICK e \in Waiting : e = Step("DAMAGE") /\ e.type = "CombatStepChange" /\ e.step = "DAMAGE"
  BY DEF Step
<1>2. ~ (Return("drain") /\ eventsQueue # <<>> /\ e = Delivery)
  BY <1>1 DEF Stepping, Delivering, Delivery
<1> QED
  BY <1>1, <1>2, WaitsOn

(* The same when the queue is not touched.                                 *)
LEMMA StepStillWaits ==
  ASSUME TypeOK, eventsQueue' = eventsQueue, ~ Stepping("DAMAGE"), Step("DAMAGE") \in Waiting
  PROVE  Step("DAMAGE") \in Waiting'
<1>1. PICK es \in Seq(Event) : es = <<>>
  BY EventSeqs
<1>2. eventsQueue' = eventsQueue \o es
  BY <1>1, EventSeqs DEF TypeOK
<1> QED
  BY <1>2, StepWaitsOn

(* The calls of the engine.                                                *)
LEMMA CallsKeepCurrent ==
  ASSUME TypeOK, Control, Current,
         NextGamePhase \/ Forward \/ SkipCombat \/ EnterPhase \/ PhaseActions
  PROVE  Current'
<1>1. /\ view' = view /\ viewBlk' = viewBlk /\ damages' = damages
      /\ strikes' = strikes \/ strikes' = <<>>
  BY DEF NextGamePhase, Forward, SkipCombat, EnterPhase, PhaseActions, guiVars
<1>2. ~ Stepping("DAMAGE")
  BY DEF NextGamePhase, Forward, SkipCombat, EnterPhase, PhaseActions, Return, Stepping, Delivering
<1>3. ASSUME combatStep' = combatStep, NEW es \in Seq(Event), eventsQueue' = eventsQueue \o es
      PROVE  Current'
  BY <1>1, <1>2, <1>3, StepWaitsOn, StaysCurrent, SameDamages
<1>4. ASSUME combatStep' = combatStep, eventsQueue' = eventsQueue
      PROVE  Current'
  BY <1>1, <1>2, <1>4, StepStillWaits, StaysCurrent, SameDamages
<1>5. CASE NextGamePhase \/ SkipCombat \/ EnterPhase
  BY <1>4, <1>5 DEF NextGamePhase, SkipCombat, EnterPhase
<1>6. CASE Forward
  <2>1. phase \in Phase /\ phase' \in Phase
    BY <1>6 DEF Forward, TypeOK, Phase, BEFORE_BEGIN, AFTER_EOT
  <2>2. PICK e \in Event : e = TurnTo(phase, phase')
    BY <2>1, EventTypes
  <2>3. PICK es \in Seq(Event) : es = <<e>>
    BY One
  <2>4. combatStep' = combatStep /\ eventsQueue' = eventsQueue \o es
    BY <1>6, <2>2, <2>3 DEF Forward, Raise, TurnTo
  <2> QED BY <1>3, <2>4
<1>7. CASE PhaseActions
  <2>1. CASE combatStep' = "BLOCKERS"
    BY <2>1, NoneAssigned
  <2>2. CASE combatStep' # "BLOCKERS"
    <3>1. /\ combatStep' = combatStep
          /\ eventsQueue' = eventsQueue \/ eventsQueue' = eventsQueue \o <<[type |-> "AttackersChosen"]>>
      BY <1>7, <2>2 DEF PhaseActions, Raise, nextPlayer
    <3>2. PICK es \in Seq(Event) : es = <<[type |-> "AttackersChosen"]>>
      BY EventTypes, One
    <3> QED BY <1>3, <1>4, <3>1, <3>2
  <2> QED BY <2>1, <2>2
<1> QED
  BY <1>5, <1>6, <1>7

(* The combat steps: normal damage, once assigned, is not assigned again.  *)
LEMMA StepCallsKeepCurrent ==
  ASSUME TypeOK, Control, Current, NextCombatStep \/ TriggersStep
  PROVE  Current'
<1>1. view' = view /\ viewBlk' = viewBlk /\ damages' = damages /\ strikes' = strikes
  BY DEF NextCombatStep, TriggersStep, guiVars
<1>2. CASE combatStep' \notin {"DAMAGE", "END_DAMAGE"}
  BY <1>2, NoneAssigned
<1>3. CASE combatStep' \in {"DAMAGE", "END_DAMAGE"}
  <2>1. NextCombatStep /\ Return("nextCombatStep")
    BY <1>3 DEF NextCombatStep, TriggersStep
  <2>2. Step("DAMAGE") \notin Waiting
    BY <2>1, NoDamageWaits
  <2>3. CASE combatStep = "END_DAMAGE"
    <3>1. combatStep' = combatStep
      BY <2>1, <2>3 DEF NextCombatStep
    <3> QED BY <1>1, <2>2, <3>1, StaysCurrent, SameDamages
  <2>4. CASE combatStep = "DAMAGE"
    <3>1. DamagesFit
      BY <2>2, <2>4 DEF Current, Assigned
    <3>2. DamagesFit'
      BY <1>1, <3>1, SameDamages
    <3> QED BY <3>2 DEF Current
  <2>5. CASE combatStep \notin {"DAMAGE", "END_DAMAGE"}
    <3>1. combatStep' = "DAMAGE" /\ Raise(<<Step("DAMAGE")>>, Rest)
      <4>1. combatStep \in CombatStep /\ combatStep' # combatStep
        BY <1>3, <2>5 DEF TypeOK
      <4>2. combatStep # "BLOCKERS"
        BY <2>1, <4>1 DEF NextCombatStep
      <4>3. /\ combatStep' = StepAfter[combatStep]
            /\ Raise(<<[type |-> "CombatStepChange", step |-> combatStep']>>, Rest)
        BY <2>1, <2>5, <4>2 DEF NextCombatStep
      <4>4. combatStep' = "DAMAGE"
        BY <1>3, <2>5, <4>1, <4>2, <4>3 DEF StepAfter, CombatStep
      <4> QED BY <4>3, <4>4 DEF Step
    <3>2. PICK es \in Seq(Event) : es = <<Step("DAMAGE")>> /\ ToSet(es) = {Step("DAMAGE")}
      <4>1. Step("DAMAGE") \in Event
        BY EventTypes DEF CombatStep
      <4> QED BY <4>1, One, SetOfOne
    <3>3. Raise(es, Rest) /\ Rest \in Seq(Call)
      BY <2>1, <3>1, <3>2, CallTop
    <3>4. Waiting' = Waiting \cup ToSet(es)
      BY <2>1, <3>3, CallRaises
    <3>5. ~ Assigned'
      BY <3>1, <3>2, <3>4 DEF Assigned
    <3> QED BY <3>5 DEF Current
  <2> QED BY <2>3, <2>4, <2>5
<1> QED
  BY <1>2, <1>3

(* The events about creatures: whoever goes takes the damage with it.      *)
LEMMA CardEventsKeepCurrent ==
  ASSUME TypeOK, Control, Views(Waiting), QueueFits, Current,
         OnChosen \/ OnAttackerOn \/ OnAttackerOff \/ OnBlocker \/ OnZoneChange
  PROVE  Current'
<1>1. /\ combatStep' = combatStep /\ strikes' = strikes /\ eventsQueue' = eventsQueue
  BY DEF OnChosen, OnAttackerOn, OnAttackerOff, OnBlocker, OnZoneChange
<1>2. PICK type \in {"AttackersChosen", "BlockersChosen", "AttackerOn", "AttackerOff", "Blocker",
                     "ZoneChange"} : Delivering(type)
  BY DEF OnChosen, OnAttackerOn, OnAttackerOff, OnBlocker, OnZoneChange
<1>3. PICK d \in Event : d = Delivery /\ d.type = type /\ d \in Waiting
  <2>1. /\ Delivery \in Event /\ Delivery.type = type /\ eventsQueue # <<>>
        /\ eventsQueue \in Seq(Event) /\ Delivery = Head(eventsQueue)
    BY <1>2, DeliveryCases
  <2>2. Pending = eventsQueue
    BY <1>2, <2>1 DEF Pending, Delivering
  <2>3. Delivery \in Waiting
    BY <2>1, <2>2, SetOfRest DEF Waiting
  <2> QED BY <2>1, <2>3
<1>4. ~ Stepping("DAMAGE")
  BY <1>2 DEF Stepping, Delivering
<1>5. OneFaced /\ ViewsApart
  BY DEF Views
<1>6. ASSUME Assigned /\ DamagesFit => DamagesFit'
      PROVE  Current'
  BY <1>1, <1>4, <1>6, StepStillWaits, StaysCurrent
<1>7. view \subseteq Creature /\ viewBlk \in [Creature -> SUBSET Creature] /\ NoCard \notin Creature
  BY CreatureAssumption DEF TypeOK
<1>8. CASE view' = view /\ viewBlk' = viewBlk /\ damages' = damages
  BY <1>6, <1>8, SameDamages
<1>9. ASSUME NEW c \in view, DropAttacker(c)
      PROVE  Current'
  BY <1>5, <1>6, <1>9, DropFits
<1>10. ASSUME NEW a \in view, NEW b \in viewBlk[a], DropBlocker(b, a), view' = view
       PROVE  Current'
  BY <1>5, <1>6, <1>10, UnblockFits
<1>11. CASE OnChosen
  BY <1>8, <1>11 DEF OnChosen, guiVars
<1>12. CASE OnAttackerOn
  <2>1. d.type = "AttackerOn"
    BY <1>3, <1>12 DEF OnAttackerOn, Delivering, Delivery
  <2>2. currentGamePhase = COMBATATTACKERS
    BY <1>3, <2>1 DEF Views, TouchSound
  <2>3. combatStep = "BLOCKERS"
    BY <2>2, BeforeCombat DEF COMBATATTACKERS, COMBATBLOCKERS, COMBATDAMAGE, COMBATEND
  <2> QED BY <1>1, <2>3, NoneAssigned
<1>13. CASE OnAttackerOff
  <2>1. CASE d.card \in view
    <3>1. DropAttacker(d.card)
      BY <1>3, <1>13, <2>1 DEF OnAttackerOff
    <3> QED BY <1>9, <2>1, <3>1
  <2>2. CASE d.card \notin view
    BY <1>3, <1>8, <1>13, <2>2 DEF OnAttackerOff
  <2> QED BY <2>1, <2>2
<1>14. CASE OnBlocker
  <2>1. d.type = "Blocker"
    BY <1>3, <1>14 DEF OnBlocker, Delivering, Delivery
  <2>2. CASE d.after # NoCard
    <3>1. combatStep = "BLOCKERS"
      BY <1>3, <2>1, <2>2 DEF QueueFits, BlocksEarly
    <3> QED BY <1>1, <3>1, NoneAssigned
  <2>3. CASE d.after = NoCard
    <3>1. d.after \notin view
      BY <1>7, <2>3
    <3>2. view' = view
      BY <1>14 DEF OnBlocker
    <3>3. CASE d.before \in view /\ d.card \in viewBlk[d.before]
      <4>1. DropBlocker(d.card, d.before)
        BY <1>3, <1>14, <3>1, <3>3 DEF OnBlocker, DropBlocker
      <4> QED BY <1>10, <3>2, <3>3, <4>1
    <3>4. CASE ~ (d.before \in view /\ d.card \in viewBlk[d.before])
      <4>1. viewBlk' = viewBlk /\ damages' = damages
        BY <1>3, <1>14, <3>1, <3>4 DEF OnBlocker
      <4> QED BY <1>8, <3>2, <4>1
    <3> QED BY <3>3, <3>4
  <2> QED BY <2>2, <2>3
<1>15. CASE OnZoneChange
  <2>1. \/ d.card \in view /\ DropAttacker(d.card)
        \/ view' = view /\ \E a \in view : d.card \in viewBlk[a] /\ DropBlocker(d.card, a)
        \/ view' = view /\ viewBlk' = viewBlk /\ damages' = damages
    BY <1>3, <1>15 DEF OnZoneChange
  <2> QED BY <1>8, <1>9, <1>10, <2>1
<1> QED
  BY <1>11, <1>12, <1>13, <1>14, <1>15

(* The other events, and the steps.                                        *)
LEMMA StepsKeepCurrent ==
  ASSUME TypeOK, Control, QueueFits, Current,
         OnPhaseChange \/ OnCombatStepChange \/ OnDamageStackResolved
  PROVE  Current'
<1>1. combatStep' = combatStep
  BY DEF OnPhaseChange, OnCombatStepChange, OnDamageStackResolved
<1>2. CASE OnPhaseChange
  <2>1. Delivering("PhaseChange") /\ UNCHANGED <<view, viewBlk, damages, strikes>>
    BY <1>2 DEF OnPhaseChange
  <2>2. CASE Delivery.from = COMBATATTACKERS
    <3>1. /\ Delivery \in Event /\ Delivery.type = "PhaseChange" /\ eventsQueue # <<>>
          /\ eventsQueue \in Seq(Event) /\ Delivery = Head(eventsQueue)
      BY <2>1, DeliveryCases
    <3>2. Pending = eventsQueue
      BY <2>1, <3>1 DEF Pending, Delivering
    <3>3. PICK d \in Waiting : d = Delivery
      BY <3>1, <3>2, SetOfRest DEF Waiting
    <3>4. currentGamePhase = COMBATATTACKERS
      BY <2>2, <3>1, <3>3 DEF QueueFits, LeavesAttack
    <3>5. combatStep = "BLOCKERS"
      BY <3>4, BeforeCombat DEF COMBATATTACKERS, COMBATBLOCKERS, COMBATDAMAGE, COMBATEND
    <3> QED BY <1>1, <3>5, NoneAssigned
  <2>3. CASE Delivery.from # COMBATATTACKERS
    <3>1. eventsQueue' = eventsQueue
      BY <1>2, <2>3 DEF OnPhaseChange
    <3>2. ~ Stepping("DAMAGE")
      BY <2>1 DEF Stepping, Delivering
    <3> QED BY <1>1, <2>1, <3>1, <3>2, StepStillWaits, StaysCurrent, SameDamages
  <2> QED BY <2>2, <2>3
<1>3. CASE OnDamageStackResolved
  <2>1. Delivering("DamageStackResolved") /\ UNCHANGED <<view, viewBlk, damages, strikes>>
    BY <1>3 DEF OnDamageStackResolved, guiVars
  <2>2. PICK C \in SUBSET Creature, D \in SUBSET Creature :
          eventsQueue' = eventsQueue \o Events(LeaveEvents(C, D))
    BY <1>3 DEF OnDamageStackResolved, TypeOK
  <2>3. PICK E \in SUBSET Event : E = LeaveEvents(C, D) /\ IsFiniteSet(E)
    BY LeaveEventsTyped
  <2>4. PICK es \in Seq(Event) : es = Events(E)
    BY <2>3, EventsInOrder
  <2>5. eventsQueue' = eventsQueue \o es /\ ~ Stepping("DAMAGE")
    BY <2>1, <2>2, <2>3, <2>4 DEF Stepping, Delivering
  <2> QED BY <1>1, <2>1, <2>5, StepWaitsOn, StaysCurrent, SameDamages
<1>4. CASE OnTriggers \/ OnOrder \/ OnFirstStrike \/ OnEndFirstStrike
  <2>1. PICK s \in {"TRIGGERS", "ORDER", "FIRST_STRIKE", "END_FIRST_STRIKE"} : Stepping(s)
    BY <1>4 DEF OnTriggers, OnOrder, OnFirstStrike, OnEndFirstStrike
  <2>2. combatStep = s
    BY <2>1, SteppingCases
  <2> QED BY <1>1, <2>1, <2>2, NoneAssigned
<1>5. CASE OnDamage /\ view' = view /\ viewBlk' = viewBlk
  <2>1. damages' = Assignment("DAMAGE")
    BY <1>5 DEF OnDamage, AssignDamage
  <2>2. DamagesFit'
    BY <1>5, <2>1, AssignedFits
  <2> QED BY <2>2 DEF Current
<1>6. CASE OnEndDamage
  <2>1. Stepping("END_DAMAGE") /\ strikes' = Append(strikes, "END_DAMAGE")
    BY <1>6 DEF OnEndDamage, ResolveDamage
  <2>2. combatStep = "END_DAMAGE" /\ strikes = FirstOnly
    BY <2>1, SteppingCases DEF FitsSoon, StrikesSoon
  <2>3. strikes' # FirstOnly
    BY <2>1, <2>2, SMT DEF FirstOnly
  <2> QED BY <1>1, <2>2, <2>3 DEF Current, Assigned
<1> QED
  BY <1>2, <1>3, <1>4, <1>5, <1>6 DEF OnCombatStepChange

(* The rest: an event taken off, and what comes from outside.              *)
LEMMA OthersKeepCurrent ==
  ASSUME TypeOK, Control, Current, Pop \/ Environment \/ UNCHANGED vars
  PROVE  Current'
<1>1. /\ view' = view /\ viewBlk' = viewBlk /\ damages' = damages
      /\ strikes' = strikes /\ combatStep' = combatStep
  BY DEF Pop, Environment, Request, MoveCursor, ClickOK, ToggleAttacker, RemoveFromCombat, LeavePlay,
     EnterPlay, ToggleBlocker, ModTurn, Affect, guiVars, vars
<1>2. CASE Pop
  <2>1. Waiting' = Waiting
    BY <1>2, PopPends
  <2> QED BY <1>1, <2>1, StaysCurrent, SameDamages
<1>3. CASE Environment
  <2>1. Waiting = {}
    BY <1>3, OutsideFacts
  <2> QED BY <1>1, <2>1, StaysCurrent, SameDamages
<1>4. CASE UNCHANGED vars
  <2>1. Waiting' = Waiting
    BY <1>4 DEF vars, Waiting, Pending, Return
  <2> QED BY <1>1, <2>1, StaysCurrent, SameDamages
<1> QED
  BY <1>2, <1>3, <1>4

(* When normal damage is resolved, it is what the creatures still facing   *)
(* each other deal in that step, and besides only what blockers that left  *)
(* under the screen were to deal to their attackers: nothing of first      *)
(* strike, and nothing to a creature that left (GuiCombat assigns damage   *)
(* in one step and deals it in another).                                   *)
THEOREM DamageAlwaysCurrent == Spec => []DamageIsCurrent
<1> DEFINE CInv == VInv /\ Current
<1>1. Init => CInv
  <2> SUFFICES ASSUME Init
               PROVE  Current
    BY ViewsInit
  <2> QED BY DEF Init, Current, Assigned
<1>2. CInv /\ [Next]_vars => CInv'
  <2> SUFFICES ASSUME VInv, Current, [Next]_vars
               PROVE  Current'
    BY ViewsKept
  <2>1. TypeOK /\ Control /\ Views(Waiting) /\ QueueFits
    BY DEF VInv, IInv
  <2> QED
    BY <2>1, CallsKeepCurrent, StepCallsKeepCurrent, CardEventsKeepCurrent, StepsKeepCurrent,
       OthersKeepCurrent DEF Next, Engine
<1>3. CInv => DamageIsCurrent
  <2> SUFFICES ASSUME VInv, Current, Stepping("END_DAMAGE")
               PROVE  /\ Assignment("DAMAGE") \subseteq damages
                      /\ \A d \in damages \ Assignment("DAMAGE") : Strikes(d[1], "DAMAGE") /\ d[2] \in view
    BY DEF DamageIsCurrent
  <2>1. TypeOK /\ Control
    BY DEF VInv, IInv
  <2>2. combatStep = "END_DAMAGE" /\ strikes = FirstOnly
    BY <2>1, SteppingCases DEF FitsSoon, StrikesSoon
  <2>3. DamagesFit
    BY <2>2 DEF Current, Assigned
  <2> QED BY <2>1, <2>3, FitIsCurrent
<1> QED
  <2> HIDE DEF CInv
  <2> QED BY <1>1, <1>2, <1>3, PTL DEF Spec
=============================================================================
