------------------------ MODULE ActionStack_proofs -------------------------
(***************************************************************************)
(* Proofs about the action stack, for every set of AI players, every       *)
(* option and every bound: the invariants of ActionStack, and that nothing *)
(* is resolved before both players were asked.                             *)
(*                                                                         *)
(* None of them is inductive.  Who was asked can only be told from what    *)
(* was decided (DecidedWereAsked, HandWasAsked), and the hand is given     *)
(* back in time because a player who holds it leaves a decision open       *)
(* (HandIsOpen) on an object that waits for it (HandHasObject).            *)
(***************************************************************************)
EXTENDS ActionStack, SequenceTheorems, TLAPS

(* An open offer is to the player marked as interrupting.                  *)
AskIsHand == ask # NoPlayer => ask = isInterrupting

(* Whoever has decided was asked.                                          *)
DecidedWereAsked == \A p \in Players : decision[p] # "NOT_DECIDED" => p \in asked

(* So was whoever holds the hand when a key or the AI may give it back.    *)
HandWasAsked ==
  pc = "input" /\ isInterrupting # NoPlayer => isInterrupting \in asked

(* While somebody holds the hand, not everybody has declined.              *)
HandIsOpen ==
  isInterrupting # NoPlayer => \E p \in Players : decision[p] \notin Declined

(* Nobody holds the hand without an object that waits for his answer.      *)
HandHasObject ==
  isInterrupting # NoPlayer => \E i \in DOMAIN stack : stack[i] # "split"

IInv ==
  /\ TypeOK
  /\ PhaseAtBottom
  /\ AskIsHand
  /\ DecidedWereAsked
  /\ HandWasAsked
  /\ HandIsOpen
  /\ HandHasObject

(* The parts of IInv that the operations on the stack maintain.            *)
StackOK    == stack \in Seq(Kind) /\ Len(stack) <= MaxStack /\ PhaseAtBottom
DecisionOK == decision \in [Players -> Decision] /\ asked \subseteq Players /\ DecidedWereAsked
FrameOK    == mover \in Players /\ acting \in Players /\ framePlayer \in Players
SomeOpen   == \E p \in Players : decision[p] \notin Declined
HasObject  == \E i \in DOMAIN stack : stack[i] # "split"

-----------------------------------------------------------------------------
(* Sequences.                                                              *)

(* Removing the last element leaves the others where they are.             *)
LEMMA BelowTop ==
  ASSUME NEW s \in Seq(Kind), s # <<>>
  PROVE  LET b == SubSeq(s, 1, Len(s) - 1)
         IN /\ b \in Seq(Kind) /\ Len(b) = Len(s) - 1
            /\ \A i \in 1..Len(b) : b[i] = s[i]
<1>1. Len(s) \in Nat /\ Len(s) > 0 /\ \A i \in 1..Len(s) - 1 : s[i] \in Kind
  BY EmptySeq, ElementOfSeq
<1> DEFINE n == Len(s) - 1
<1>2. n \in Nat /\ 1 \in Int /\ n \in Int
  BY <1>1
<1>3. /\ SubSeq(s, 1, n) \in Seq(Kind)
      /\ Len(SubSeq(s, 1, n)) = IF 1 <= n THEN n - 1 + 1 ELSE 0
      /\ \A i \in 1..n - 1 + 1 : SubSeq(s, 1, n)[i] = s[1 + i - 1]
  BY <1>1, <1>2, SubSeqProperties
<1>4. (IF 1 <= n THEN n - 1 + 1 ELSE 0) = n /\ n - 1 + 1 = n
  <2> HIDE DEF n
  <2> QED BY <1>2
<1>5. ASSUME NEW i \in 1..n PROVE 1 + i - 1 = i
  <2> HIDE DEF n
  <2> QED BY <1>2
<1> QED
  BY <1>3, <1>4, <1>5

(* Removing element i moves those behind it by one.                        *)
LEMMA Removed ==
  ASSUME NEW s \in Seq(Kind), NEW i \in 1..Len(s)
  PROVE  /\ RemoveAt(s, i) \in Seq(Kind)
         /\ Len(RemoveAt(s, i)) = Len(s) - 1
         /\ \A j \in 1..Len(s) - 1 : RemoveAt(s, i)[j] = IF j < i THEN s[j] ELSE s[j + 1]
<1> DEFINE l == SubSeq(s, 1, i - 1)
           r == SubSeq(s, i + 1, Len(s))
<1>0. Len(s) \in Nat /\ i \in Nat /\ 1 <= i /\ i <= Len(s)
  BY LenProperties
<1>1. /\ l \in Seq(Kind) /\ Len(l) = i - 1
      /\ \A j \in 1..i - 1 : l[j] = s[j]
  OBVIOUS
<1>2. /\ r \in Seq(Kind) /\ Len(r) = Len(s) - i
      /\ \A j \in 1..Len(s) - i : r[j] = s[j + i]
  OBVIOUS
<1>3. /\ l \o r \in Seq(Kind) /\ Len(l \o r) = Len(l) + Len(r)
      /\ \A j \in 1..Len(l) + Len(r) :
            (l \o r)[j] = IF j <= Len(l) THEN l[j] ELSE r[j - Len(l)]
  BY <1>1, <1>2, ConcatProperties
<1>4. RemoveAt(s, i) = l \o r
  BY DEF RemoveAt
<1> HIDE DEF l, r
<1>5. ASSUME NEW j \in 1..Len(s) - 1
      PROVE  (l \o r)[j] = IF j < i THEN s[j] ELSE s[j + 1]
  <2>1. CASE j < i
    <3>1. j \in 1..i - 1 /\ j <= Len(l) /\ j \in 1..Len(l) + Len(r)
      BY <1>0, <1>1, <1>2, <2>1
    <3> QED
      BY <1>1, <1>3, <2>1, <3>1
  <2>2. CASE j >= i
    <3>1. /\ j - (i - 1) \in 1..Len(s) - i /\ j - (i - 1) + i = j + 1
          /\ ~ (j <= Len(l)) /\ j \in 1..Len(l) + Len(r)
      BY <1>0, <1>1, <1>2, <2>2
    <3>2. (l \o r)[j] = r[j - (i - 1)]
      BY <1>1, <1>3, <3>1
    <3>3. r[j - (i - 1)] = s[j + 1]
      BY <1>2, <3>1
    <3> QED
      BY <1>0, <2>2, <3>2, <3>3
  <2> QED
    <3>1. j < i \/ j >= i
      BY <1>0
    <3> QED
      BY <2>1, <2>2, <3>1
<1>6. Len(l \o r) = Len(s) - 1
  BY <1>0, <1>1, <1>2, <1>3
<1> QED
  BY <1>3, <1>4, <1>5, <1>6

-----------------------------------------------------------------------------
(* The operations.                                                         *)

(* An object is added above the others and leaves a decision open; a       *)
(* change of phase only to an empty stack.                                 *)
LEMMA AddPreserves ==
  ASSUME StackOK, NEW kind \in Kind, NEW p, NEW open,
         kind = "phase" => stack = <<>>,
         Add(kind, p, open)
  PROVE  StackOK' /\ DecisionOK' /\ SomeOpen' /\ (HasObject => HasObject') /\ stack' # <<>>
<1>1. stack' = Append(stack, kind) /\ Len(stack) < MaxStack
  BY DEF Add
<1>2. stack \in Seq(Kind) /\ MaxStack \in Nat /\ PhaseAtBottom
  BY StackAssumption DEF StackOK
<1>3. /\ stack' \in Seq(Kind) /\ Len(stack') = Len(stack) + 1
      /\ \A i \in 1..Len(stack) : stack'[i] = stack[i]
      /\ stack'[Len(stack) + 1] = kind
  BY <1>1, <1>2
<1>4. StackOK'
  BY <1>1, <1>2, <1>3 DEF StackOK, PhaseAtBottom
<1>5. HasObject => HasObject'
  BY <1>2, <1>3 DEF HasObject
<1>6. DecisionOK' /\ SomeOpen'
  BY DEF Add, Declines, Undecided, DecisionOK, DecidedWereAsked, SomeOpen, Declined, Players, Decision
<1> QED
  BY <1>3, <1>4, <1>5, <1>6

(* A change of phase goes to the bottom of the stack, and counts as        *)
(* declined by whoever asks for it.                                        *)
LEMMA PhaseAddPreserves ==
  ASSUME StackOK, FrameOK, stack = <<>>, AddNextGamePhase
  PROVE  StackOK' /\ DecisionOK'
<1>1. stack' = <<"phase">> /\ 0 < MaxStack
  BY DEF AddNextGamePhase
<1>2. StackOK'
  BY <1>1, StackAssumption DEF StackOK, PhaseAtBottom, Kind
<1>3. DecisionOK'
  BY DEF AddNextGamePhase, FrameOK, Undecided, DecisionOK, DecidedWereAsked, Players, Decision
<1> QED
  BY <1>2, <1>3

(* A request for the next phase leaves the stack as it is, or puts its     *)
(* object on the empty stack.                                              *)
LEMMA RequestPreserves ==
  ASSUME StackOK, DecisionOK, FrameOK, RequestNextPhase
  PROVE  StackOK' /\ DecisionOK' /\ FrameOK'
<1>1. CASE ~ MayRequest /\ UNCHANGED <<stack, decision, asked, gameVars>>
  BY <1>1 DEF StackOK, DecisionOK, FrameOK, PhaseAtBottom, DecidedWereAsked, gameVars
<1>2. CASE MayRequest /\ AddNextGamePhase /\ UNCHANGED gameVars
  <2>1. StackOK' /\ DecisionOK'
    BY <1>2, PhaseAddPreserves DEF MayRequest
  <2> QED
    BY <1>2, <2>1 DEF FrameOK, gameVars
<1>3. CASE MayRequest /\ PhaseMoves /\ UNCHANGED <<stack, decision, asked>>
  BY <1>3 DEF StackOK, DecisionOK, FrameOK, PhaseAtBottom, DecidedWereAsked, PhaseMoves
<1>4. CASE MayRequest /\ PhaseMoves /\ \E p \in Players : Add("ability", p, {})
  <2>1. StackOK' /\ DecisionOK'
    BY <1>4, AddPreserves DEF Kind
  <2> QED
    BY <1>4, <2>1 DEF FrameOK, PhaseMoves
<1> QED
  BY <1>1, <1>2, <1>3, <1>4 DEF RequestNextPhase

(* Resolving the latest object takes it off, may take off another that is  *)
(* no change of phase, or puts an ability on top.                          *)
LEMMA ResolvedStack ==
  ASSUME StackOK, stack # <<>>, resolve
  PROVE  StackOK' /\ (HasObject /\ Top = "split" => HasObject')
<1> DEFINE below == SubSeq(stack, 1, Len(stack) - 1)
<1>1. stack \in Seq(Kind) /\ Len(stack) \in Nat /\ Len(stack) > 0 /\ PhaseAtBottom
  BY EmptySeq DEF StackOK
<1>2. /\ below \in Seq(Kind) /\ Len(below) = Len(stack) - 1
      /\ \A i \in 1..Len(below) : below[i] = stack[i]
  BY <1>1, BelowTop
<1>3. /\ MaxStack \in Nat /\ Len(stack) <= MaxStack
      /\ \A i \in 1..Len(stack) : stack[i] = "phase" => i = 1
  BY <1>1, StackAssumption DEF StackOK, PhaseAtBottom
<1>4. ASSUME HasObject, Top = "split"
      PROVE  \E i \in 1..Len(below) : below[i] # "split"
  <2>1. PICK i \in 1..Len(stack) : stack[i] # "split"
    BY <1>1, <1>4 DEF HasObject
  <2>2. i # Len(stack)
    BY <1>4, <2>1 DEF Top
  <2> QED
    BY <1>1, <1>2, <2>1, <2>2
<1> HIDE DEF below
<1>5. CASE stack' = below
  <2>1. StackOK'
    BY <1>1, <1>2, <1>3, <1>5 DEF StackOK, PhaseAtBottom
  <2> QED
    BY <1>2, <1>4, <1>5, <2>1 DEF HasObject
<1>6. CASE /\ Top \in {"spell", "ability"}
           /\ \E i \in DOMAIN below : below[i] # "phase" /\ stack' = RemoveAt(below, i)
  <2>1. PICK i \in 1..Len(below) : below[i] # "phase" /\ stack' = RemoveAt(below, i)
    BY <1>2, <1>6
  <2>2. /\ stack' \in Seq(Kind) /\ Len(stack') = Len(below) - 1
        /\ \A j \in 1..Len(below) - 1 : stack'[j] = IF j < i THEN below[j] ELSE below[j + 1]
    BY <1>2, <2>1, Removed
  <2>3. ASSUME NEW j \in 1..Len(below) - 1, stack'[j] = "phase"
        PROVE  j = 1
    <3>1. CASE j < i
      <4>1. j \in 1..Len(below) /\ below[j] = "phase"
        BY <1>1, <1>2, <2>2, <2>3, <3>1
      <4>2. j \in 1..Len(stack) /\ stack[j] = "phase"
        BY <1>1, <1>2, <4>1
      <4> QED
        BY <1>3, <4>2
    <3>2. CASE ~ (j < i)
      <4>1. j + 1 \in 1..Len(below) /\ below[j + 1] = "phase"
        BY <1>1, <1>2, <2>2, <2>3, <3>2
      <4>2. j + 1 \in 1..Len(stack) /\ stack[j + 1] = "phase" /\ j + 1 # 1
        BY <1>1, <1>2, <4>1
      <4> QED
        BY <1>3, <4>2
    <3> QED
      BY <3>1, <3>2
  <2>4. PhaseAtBottom'
    BY <2>2, <2>3 DEF PhaseAtBottom
  <2> QED
    BY <1>1, <1>2, <1>3, <1>6, <2>2, <2>4 DEF StackOK
<1>7. CASE stack' = Append(below, "ability")
  <2>1. /\ stack' \in Seq(Kind) /\ Len(stack') = Len(stack)
        /\ \A i \in 1..Len(below) : stack'[i] = below[i]
        /\ stack'[Len(stack)] = "ability"
    BY <1>1, <1>2, <1>7 DEF Kind
  <2>2. StackOK'
    BY <1>1, <1>2, <1>3, <2>1 DEF StackOK, PhaseAtBottom
  <2>3. HasObject'
    BY <1>1, <2>1 DEF HasObject
  <2> QED
    BY <2>2, <2>3
<1> QED
  BY <1>5, <1>6, <1>7 DEF resolve, below

(* Only those who want to hear of nothing stay decided, and they were      *)
(* asked; whoever holds the hand counts as asked.                          *)
LEMMA ResolvedDecisions ==
  ASSUME DecisionOK, FrameOK, isInterrupting \in Players \cup {NoPlayer}, resolve
  PROVE  /\ DecisionOK' /\ FrameOK'
         /\ SomeOpen => SomeOpen'
         /\ isInterrupting # NoPlayer => isInterrupting \in asked'
<1>1. FrameOK'
  BY DEF resolve, FrameOK, PhaseMoves, gameVars
<1> DEFINE hand == Players \cap {isInterrupting}
<1>2. CASE /\ decision' = KeepAll(decision)
           /\ asked' = hand \cup {p \in asked : decision[p] = "DONT_INTERRUPT_ALL"}
  BY <1>1, <1>2 DEF KeepAll, DecisionOK, DecidedWereAsked, SomeOpen, Declined, Decision, Players
<1>3. CASE decision' = Undecided /\ asked' = hand
  BY <1>1, <1>3 DEF Undecided, DecisionOK, DecidedWereAsked, SomeOpen, Declined, Decision, Players
<1> QED
  BY <1>2, <1>3 DEF resolve

(* Objects on the stack never give more time than when it is full.         *)
LEMMA TimeLeftBounded ==
  ASSUME TypeOK, stack # <<>>
  PROVE  TimeLeft \in -1 .. Seconds * MaxStack
<1>1. /\ Seconds \in Nat /\ MaxStack \in Nat /\ Len(stack) \in Nat
      /\ Len(stack) > 0 /\ Len(stack) <= MaxStack
  BY StackAssumption, EmptySeq DEF TypeOK
<1>2. FullTime \in 0 .. Seconds * MaxStack
  <2>1. ASSUME NEW a \in Nat, NEW b \in Nat, NEW c \in Nat, b <= c
        PROVE  a * b \in 0 .. a * c
    <3>1. a * c = a * b + a * (c - b) /\ c - b \in Nat
      BY <2>1
    <3>2. a * b \in Nat /\ a * (c - b) \in Nat /\ a * c \in Nat
      BY <3>1
    <3> QED
      BY <3>1, <3>2
  <2>2. FullTime = Seconds * Len(stack)
    BY <1>1 DEF FullTime
  <2> QED
    BY <1>1, <2>1, <2>2
<1>3. timer \in -1 .. Seconds * MaxStack /\ Seconds * MaxStack \in Nat
  BY <1>1 DEF TypeOK
<1> QED
  BY <1>2, <1>3 DEF TimeLeft

-----------------------------------------------------------------------------
(* ActionStack::Update keeps all of IInv that does not speak of the step   *)
(* of the frame.                                                           *)

(* An offer is answered, or its time is up.                                *)
LEMMA OfferPreserves ==
  ASSUME IInv, stack # <<>>, Top # "split", NEW p \in Players,
         decision[p] = "NOT_DECIDED", Offer(p)
  PROVE  /\ StackOK' /\ DecisionOK' /\ FrameOK' /\ HasObject'
         /\ ask' \in Players \cup {NoPlayer} /\ isInterrupting' = ask'
         /\ timer' \in -1 .. Seconds * MaxStack
         /\ ask' # NoPlayer => ask' \in asked' /\ SomeOpen'
<1>1. UNCHANGED <<stack, mover, acting, framePlayer>> /\ asked' = asked \cup {p}
  BY DEF Offer, gameVars
<1>2. StackOK' /\ FrameOK'
  BY <1>1 DEF IInv, TypeOK, StackOK, FrameOK, PhaseAtBottom
<1>3. HasObject'
  <2>1. Len(stack) \in DOMAIN stack
    BY EmptySeq DEF IInv, TypeOK
  <2> QED
    BY <1>1, <2>1 DEF HasObject, Top
<1>4. TimeLeft \in -1 .. Seconds * MaxStack
  BY TimeLeftBounded DEF IInv
<1>5. CASE Seconds > 0 /\ TimeLeft < 0
  <2>1. /\ decision' = [decision EXCEPT ![p] = "DONT_INTERRUPT"]
        /\ ask' = NoPlayer /\ isInterrupting' = NoPlayer /\ timer' = -1
    BY <1>5 DEF Offer, TimedOut
  <2>2. DecisionOK'
    BY <1>1, <2>1 DEF IInv, TypeOK, DecisionOK, DecidedWereAsked, Decision
  <2>3. timer' \in -1 .. Seconds * MaxStack
    <3>1. Seconds * MaxStack \in Nat
      BY StackAssumption
    <3> QED
      BY <2>1, <3>1
  <2> QED
    BY <1>2, <1>3, <2>1, <2>2, <2>3
<1>6. CASE ~ (Seconds > 0 /\ TimeLeft < 0)
  <2>1. /\ ask' = p /\ isInterrupting' = p /\ decision' = decision
        /\ timer' = IF Seconds > 0 THEN TimeLeft ELSE timer
    BY <1>6 DEF Offer
  <2>2. DecisionOK' /\ SomeOpen'
    BY <1>1, <2>1 DEF IInv, TypeOK, DecisionOK, DecidedWereAsked, SomeOpen, Declined
  <2>3. timer' \in -1 .. Seconds * MaxStack
    BY <1>4, <2>1 DEF IInv, TypeOK
  <2> QED
    BY <1>1, <1>2, <1>3, <2>1, <2>2, <2>3
<1> QED
  BY <1>5, <1>6

(* Who has decided to interrupt gets the hand, and was asked.              *)
LEMMA InterruptsPreserves ==
  ASSUME IInv, stack # <<>>, Top # "split", NEW p \in Players,
         decision[p] = "INTERRUPT", Interrupts(p)
  PROVE  /\ StackOK' /\ DecisionOK' /\ FrameOK' /\ HasObject' /\ SomeOpen'
         /\ ask' = NoPlayer /\ isInterrupting' \in Players
         /\ timer' = timer /\ isInterrupting' \in asked'
<1>1. Len(stack) \in DOMAIN stack
  BY EmptySeq DEF IInv, TypeOK
<1>2. /\ UNCHANGED <<stack, decision, timer, mover, acting, framePlayer, asked>>
      /\ ask' = NoPlayer /\ isInterrupting' = p
  BY DEF Interrupts, gameVars
<1>3. HasObject'
  BY <1>1, <1>2 DEF HasObject, Top
<1>4. SomeOpen' /\ p \in asked
  BY <1>2 DEF IInv, DecidedWereAsked, SomeOpen, Declined
<1> QED
  BY <1>2, <1>3, <1>4
     DEF IInv, TypeOK, StackOK, DecisionOK, FrameOK, PhaseAtBottom, DecidedWereAsked

(* The acting player and the other are the two players.                    *)
LEMMA FirstAndSecond ==
  ASSUME TypeOK
  PROVE  /\ currentlyActing \in Players /\ Other(currentlyActing) \in Players
         /\ Players = {currentlyActing, Other(currentlyActing)}
  BY DEF TypeOK, Players, currentlyActing, Other

(* What Update leaves: AskIsHand and HandWasAsked hold at once, because    *)
(* the next step of the frame reads a key.                                 *)
LEMMA UpdatePreserves ==
  ASSUME IInv, UpdateStack
  PROVE  /\ StackOK' /\ DecisionOK' /\ FrameOK'
         /\ ask' \in Players \cup {NoPlayer} /\ isInterrupting' \in Players \cup {NoPlayer}
         /\ timer' \in -1 .. Seconds * MaxStack
         /\ ask' # NoPlayer => ask' = isInterrupting'
         /\ isInterrupting' # NoPlayer => isInterrupting' \in asked' /\ SomeOpen' /\ HasObject'
<1> DEFINE first  == currentlyActing
           second == Other(currentlyActing)
<1>1. /\ first \in Players /\ second \in Players /\ Players = {first, second}
      /\ \A p \in Players : decision[p] \in Decision
  BY FirstAndSecond DEF IInv, TypeOK
<1>2. StackOK /\ DecisionOK /\ FrameOK /\ isInterrupting \in Players \cup {NoPlayer}
      /\ timer \in -1 .. Seconds * MaxStack
  BY DEF IInv, TypeOK, StackOK, DecisionOK, FrameOK
<1>3. isInterrupting # NoPlayer => SomeOpen /\ HasObject
  BY DEF IInv, HandIsOpen, HandHasObject, SomeOpen, HasObject
<1> HIDE DEF first, second
<1>4. CASE /\ stack = <<>> /\ ask' = NoPlayer
           /\ UNCHANGED <<stack, decision, isInterrupting, timer, gameVars, asked>>
  <2>1. isInterrupting = NoPlayer
    BY <1>3, <1>4 DEF HasObject
  <2> QED
    BY <1>2, <1>4, <2>1
       DEF StackOK, DecisionOK, FrameOK, PhaseAtBottom, DecidedWereAsked, gameVars
<1>5. CASE stack # <<>> /\ Top = "split" /\ resolve
  <2>1. ask' = NoPlayer /\ UNCHANGED <<isInterrupting, timer>>
    BY <1>5 DEF resolve
  <2> QED
    BY <1>2, <1>3, <1>5, <2>1, ResolvedStack, ResolvedDecisions
<1>6. CASE stack # <<>> /\ Top # "split" /\ \E p \in Players : decision[p] = "NOT_DECIDED" /\ Offer(p)
  BY <1>6, OfferPreserves
<1>7. CASE stack # <<>> /\ Top # "split" /\ \E p \in Players : decision[p] = "INTERRUPT" /\ Interrupts(p)
  BY <1>2, <1>7, InterruptsPreserves
<1>8. CASE stack # <<>> /\ Top # "split" /\ decision[first] \in Declined
           /\ decision[second] \in Declined /\ resolve
  <2>1. isInterrupting = NoPlayer
    BY <1>1, <1>3, <1>8 DEF SomeOpen
  <2>2. ask' = NoPlayer /\ UNCHANGED <<isInterrupting, timer>>
    BY <1>8 DEF resolve
  <2> QED
    BY <1>2, <1>8, <2>1, <2>2, ResolvedStack, ResolvedDecisions
<1> QED
  BY <1>1, <1>4, <1>5, <1>6, <1>7, <1>8 DEF UpdateStack, first, second

-----------------------------------------------------------------------------
(* The invariant.                                                          *)

(* Nothing is on the stack when the duel begins, and nobody was asked.     *)
LEMMA InitIInv == Init => IInv
<1> SUFFICES ASSUME Init PROVE IInv
  OBVIOUS
<1>1. Seconds * MaxStack \in Nat
  BY StackAssumption
<1> QED
  BY <1>1, StackAssumption
     DEF Init, IInv, TypeOK, PhaseAtBottom, AskIsHand, DecidedWereAsked, HandWasAsked,
         HandIsOpen, HandHasObject, Players, Decision, Kind

(* The parts of IInv put together again.                                   *)
LEMMA Together ==
  ASSUME StackOK', DecisionOK', FrameOK',
         pc' \in {"start", "update", "input", "sbe"},
         timer' \in -1 .. Seconds * MaxStack,
         ask' \in Players \cup {NoPlayer}, isInterrupting' \in Players \cup {NoPlayer},
         AskIsHand', HandWasAsked',
         isInterrupting' # NoPlayer => SomeOpen' /\ HasObject'
  PROVE  IInv'
  BY DEF StackOK, DecisionOK, FrameOK, SomeOpen, HasObject, IInv, TypeOK, HandIsOpen, HandHasObject

(* An object is put on the stack, and the answers are left alone but for   *)
(* an offer that may be withdrawn.                                         *)
LEMMA AddStep ==
  ASSUME IInv, NEW kind \in Kind, NEW p, NEW open, kind = "phase" => stack = <<>>,
         Add(kind, p, open),
         ask' \in {ask, NoPlayer}, UNCHANGED <<isInterrupting, timer, gameVars>>,
         pc' \in {"start", "sbe"} \/ (pc' = pc /\ isInterrupting \in open)
  PROVE  IInv'
<1>1. StackOK
  BY DEF IInv, TypeOK, StackOK
<1>2. StackOK' /\ DecisionOK' /\ SomeOpen' /\ (HasObject => HasObject')
  BY <1>1, AddPreserves
<1>3. FrameOK' /\ ask' \in Players \cup {NoPlayer} /\ isInterrupting' \in Players \cup {NoPlayer}
      /\ timer' \in -1 .. Seconds * MaxStack /\ pc' \in {"start", "update", "input", "sbe"}
  BY DEF IInv, TypeOK, FrameOK, gameVars
<1>4. AskIsHand' /\ (isInterrupting' # NoPlayer => HasObject)
  BY DEF IInv, AskIsHand, HandHasObject, HasObject
<1>5. HandWasAsked'
  <2>1. CASE isInterrupting \in open
    BY <2>1 DEF Add, IInv, TypeOK, HandWasAsked
  <2> QED
    BY <2>1 DEF IInv, HandWasAsked
<1> QED
  BY <1>2, <1>3, <1>4, <1>5, Together

(* The game is asked for its next phase; it goes there only with an empty  *)
(* stack, when nobody holds the hand.                                      *)
LEMMA RequestStep ==
  ASSUME IInv, RequestNextPhase, UNCHANGED <<ask, isInterrupting, timer>>,
         pc' \in {"start", "sbe"}
  PROVE  IInv'
<1>1. StackOK /\ DecisionOK /\ FrameOK
  BY DEF IInv, TypeOK, StackOK, DecisionOK, FrameOK
<1>2. StackOK' /\ DecisionOK' /\ FrameOK'
  BY <1>1, RequestPreserves
<1>3. ask' \in Players \cup {NoPlayer} /\ isInterrupting' \in Players \cup {NoPlayer}
      /\ timer' \in -1 .. Seconds * MaxStack /\ AskIsHand' /\ HandWasAsked'
  BY DEF IInv, TypeOK, AskIsHand, HandWasAsked
<1>4. CASE MayRequest
  <2>1. isInterrupting' = NoPlayer
    BY <1>4 DEF IInv, HandHasObject, MayRequest
  <2> QED
    BY <1>2, <1>3, <2>1, Together
<1>5. CASE ~ MayRequest
  <2>1. UNCHANGED <<stack, decision, asked, isInterrupting>>
    BY <1>5 DEF RequestNextPhase
  <2>2. isInterrupting' # NoPlayer => SomeOpen' /\ HasObject'
    BY <2>1 DEF IInv, HandIsOpen, HandHasObject, SomeOpen, HasObject
  <2> QED
    BY <1>2, <1>3, <2>2, Together
<1> QED
  BY <1>4, <1>5

(* The player marked as interrupting gives the hand back, and is known to  *)
(* have been asked if he decided something.                                *)
LEMMA BackStep ==
  ASSUME IInv, pc = "input", pc' = "sbe", isInterrupting # NoPlayer,
         NEW mode \in Decision,
         decision' = [decision EXCEPT ![isInterrupting] = mode],
         isInterrupting' = NoPlayer, ask' = NoPlayer, timer' \in {-1, timer},
         UNCHANGED <<stack, gameVars, asked>>
  PROVE  IInv'
<1>1. isInterrupting \in Players /\ isInterrupting \in asked
  BY DEF IInv, TypeOK, HandWasAsked
<1>2. StackOK' /\ FrameOK' /\ AskIsHand' /\ HandWasAsked'
  BY DEF IInv, TypeOK, StackOK, FrameOK, PhaseAtBottom, AskIsHand, HandWasAsked, gameVars
<1>3. DecisionOK'
  BY <1>1 DEF IInv, TypeOK, DecisionOK, DecidedWereAsked
<1>4. timer' \in -1 .. Seconds * MaxStack
  <2>1. Seconds * MaxStack \in Nat
    BY StackAssumption
  <2> QED
    BY <2>1 DEF IInv, TypeOK
<1> QED
  BY <1>2, <1>3, <1>4, Together

(* The player asked takes the hand.                                        *)
LEMMA TakeStep ==
  ASSUME IInv, pc = "input", pc' = "sbe", ask # NoPlayer, setIsInterrupting(ask),
         UNCHANGED <<stack, gameVars, asked>>
  PROVE  IInv'
<1>1. ask \in Players /\ ask = isInterrupting /\ ask \in asked
  BY DEF IInv, TypeOK, AskIsHand, HandWasAsked
<1>2. /\ decision' = [decision EXCEPT ![ask] = "INTERRUPT"]
      /\ ask' = NoPlayer /\ isInterrupting' = ask /\ timer' = timer
  BY DEF setIsInterrupting
<1>3. StackOK' /\ FrameOK' /\ AskIsHand' /\ HandWasAsked'
  BY <1>2 DEF IInv, TypeOK, StackOK, FrameOK, PhaseAtBottom, AskIsHand, HandWasAsked, gameVars
<1>4. DecisionOK' /\ SomeOpen'
  BY <1>1, <1>2 DEF IInv, TypeOK, DecisionOK, DecidedWereAsked, SomeOpen, Declined, Decision
<1>5. HasObject' /\ timer' \in -1 .. Seconds * MaxStack
  BY <1>1, <1>2 DEF IInv, TypeOK, HandHasObject, HasObject
<1> QED
  BY <1>1, <1>2, <1>3, <1>4, <1>5, Together

(* Every step of a frame keeps the invariant: one step of the proof for    *)
(* each action.                                                            *)
LEMMA NextIInv == IInv /\ [Next]_vars => IInv'
<1> SUFFICES ASSUME IInv, [Next]_vars PROVE IInv'
  OBVIOUS
<1>1. CASE StartFrame
  <2>1. UNCHANGED <<stack, decision, ask, isInterrupting, timer, mover, asked>>
    BY <1>1 DEF StartFrame
  <2>2. acting' \in Players /\ framePlayer' \in Players /\ pc' = "update"
    BY <1>1 DEF StartFrame, IInv, TypeOK, At
  <2> QED
    BY <2>1, <2>2
       DEF IInv, TypeOK, PhaseAtBottom, AskIsHand, DecidedWereAsked, HandWasAsked,
           HandIsOpen, HandHasObject
<1>2. CASE Update
  <2>1. pc' = "input"
    BY <1>2 DEF Update, At
  <2>2. AskIsHand' /\ HandWasAsked' /\ (isInterrupting' # NoPlayer => SomeOpen' /\ HasObject')
    BY <1>2, UpdatePreserves DEF Update, AskIsHand, HandWasAsked
  <2> QED
    BY <1>2, <2>1, <2>2, UpdatePreserves, Together DEF Update
<1>3. CASE NoInput \/ EndFrame \/ UNCHANGED vars
  BY <1>3 DEF NoInput, EndFrame, At, vars, gameVars, IInv, TypeOK, PhaseAtBottom, AskIsHand,
              DecidedWereAsked, HandWasAsked, HandIsOpen, HandHasObject
<1>4. CASE AIPasses
  <2>1. isInterrupting # NoPlayer /\ Answering = isInterrupting
    BY <1>4, StackAssumption DEF AIPasses, Answering, IInv, TypeOK, Players
  <2>2. /\ decision' = [decision EXCEPT ![isInterrupting] = "DONT_INTERRUPT"]
        /\ ask' = NoPlayer /\ isInterrupting' = NoPlayer /\ timer' = -1
    BY <1>4, <2>1 DEF AIPasses, cancelInterruptOffer
  <2> QED
    BY <1>4, <2>1, <2>2, BackStep DEF AIPasses, At, Decision
<1>5. CASE AIInterrupts
  BY <1>5, TakeStep, StackAssumption DEF AIInterrupts, At, IInv, TypeOK
<1>6. CASE AIRequests \/ HumanRequests \/ SkipPhase
  BY <1>6, RequestStep DEF AIRequests, HumanRequests, SkipPhase, At
<1>7. CASE HumanAnswers
  <2>1. ask # NoPlayer /\ ask = isInterrupting /\ Answering = isInterrupting
    BY <1>7 DEF HumanAnswers, Answering, IInv, TypeOK, AskIsHand, Players
  <2>2. CASE setIsInterrupting(ask)
    BY <1>7, <2>1, <2>2, TakeStep DEF HumanAnswers, At
  <2>3. ASSUME NEW mode \in {"DONT_INTERRUPT", "DONT_INTERRUPT_ALL"}, cancelInterruptOffer(mode)
        PROVE  IInv'
    <3>1. /\ decision' = [decision EXCEPT ![isInterrupting] = mode]
          /\ ask' = NoPlayer /\ isInterrupting' = NoPlayer /\ timer' = -1
      BY <2>1, <2>3 DEF cancelInterruptOffer
    <3> QED
      BY <1>7, <2>1, <3>1, BackStep DEF HumanAnswers, At, Decision
  <2> QED
    BY <1>7, <2>2, <2>3 DEF HumanAnswers
<1>8. CASE HumanEndsInterruption
  <2>1. isInterrupting # NoPlayer /\ Answering = isInterrupting
    BY <1>8 DEF HumanEndsInterruption, Answering, IInv, TypeOK, Players
  <2>2. /\ decision' = [decision EXCEPT ![isInterrupting] = "NOT_DECIDED"]
        /\ ask' = NoPlayer /\ isInterrupting' = NoPlayer /\ timer' = timer
    BY <1>8, <2>1 DEF HumanEndsInterruption, endOfInterruption
  <2> QED
    BY <1>8, <2>1, <2>2, BackStep DEF HumanEndsInterruption, At, Decision
<1>9. ASSUME NEW kind \in {"spell", "split", "ability"}, AIPlays(kind) \/ HumanPlays(kind)
      PROVE  IInv'
  <2>1. \E p : Add(kind, p, {})
    BY <1>9 DEF AIPlays, HumanPlays
  <2>2. /\ ask' \in {ask, NoPlayer} /\ UNCHANGED <<isInterrupting, timer, gameVars>>
        /\ pc' = "sbe"
    BY <1>9 DEF AIPlays, HumanPlays, At
  <2> QED
    BY <2>1, <2>2, AddStep DEF Kind
<1>10. ASSUME NEW p \in Players, Trigger(p)
       PROVE  IInv'
  BY <1>10, AddStep DEF Trigger, Kind
<1>11. CASE AddNextCombatStep
  BY <1>11, AddStep DEF AddNextCombatStep, At, Kind
<1> QED
  BY <1>1, <1>2, <1>3, <1>4, <1>5, <1>6, <1>7, <1>8, <1>9, <1>10, <1>11 DEF Next, Loop

(* What the decisions, the offer and the player who interrupts have to do  *)
(* with one another never breaks, whatever the players answer and when.    *)
THEOREM Invariant == Spec => []IInv
<1> QED
  BY InitIInv, NextIInv, PTL DEF Spec

-----------------------------------------------------------------------------
(* What the runs check, for every value of the constants.                  *)

(* Every variable keeps its type; the timer in particular stays below the  *)
(* time of a full stack.  A change of phase is only resolved once nothing  *)
(* else is left.                                                           *)
THEOREM StackAlwaysSound == Spec => []StackSound
<1>1. IInv => StackSound
  BY DEF IInv, StackSound
<1> QED
  BY <1>1, Invariant, PTL

(* cancelInterruptOffer() always records the answer for the player asked.  *)
THEOREM OffersMatch == Spec => []AskMatches
<1>1. IInv => AskMatches
  <2> SUFFICES ASSUME IInv, ask # NoPlayer PROVE isInterrupting = ask /\ stack # <<>>
    BY DEF AskMatches
  <2>1. PICK i \in DOMAIN stack : stack[i] # "split"
    BY DEF IInv, AskIsHand, HandHasObject
  <2> QED
    BY <2>1 DEF IInv, AskIsHand
<1> QED
  BY <1>1, Invariant, PTL

(* The right to interrupt ends with what could be interrupted.             *)
THEOREM HandsAreGivenBack == Spec => []NoStrandedInterrupt
<1>1. IInv => NoStrandedInterrupt
  BY DEF IInv, HandHasObject, NoStrandedInterrupt
<1> QED
  BY <1>1, Invariant, PTL

(* The open offer and the right to interrupt are one, as the run checks.   *)
THEOREM HandsAlwaysMatch == Spec => []HandsMatch
<1>1. AskMatches /\ NoStrandedInterrupt => HandsMatch
  BY DEF HandsMatch
<1> QED
  BY <1>1, OffersMatch, HandsAreGivenBack, PTL

(* Nothing that can be answered is resolved before both players were asked *)
(* about the stack as it stands.                                           *)
THEOREM ResolvedWhenAsked == Spec => BothWereAsked
<1>1. IInv /\ [Next]_vars => [pc = "update" /\ stack' # stack /\ Top # "split" => asked = Players]_vars
  <2> SUFFICES ASSUME IInv, Next, pc = "update", stack' # stack, Top # "split"
               PROVE  asked = Players
    OBVIOUS
  <2>1. UpdateStack
    BY DEF Next, Loop, StartFrame, Update, NoInput, EndFrame, AIPasses, AIInterrupts, AIRequests,
           HumanAnswers, HumanEndsInterruption, HumanRequests, AIPlays, HumanPlays, Trigger,
           AddNextCombatStep, SkipPhase, At
  <2>2. /\ decision[currentlyActing] \in Declined
        /\ decision[Other(currentlyActing)] \in Declined
    BY <2>1 DEF UpdateStack, Offer, Interrupts
  <2>3. Players = {currentlyActing, Other(currentlyActing)}
    BY FirstAndSecond DEF IInv
  <2> QED
    BY <2>2, <2>3 DEF IInv, TypeOK, DecidedWereAsked, Declined
<1> QED
  BY <1>1, Invariant, PTL DEF Spec, BothWereAsked
=============================================================================
