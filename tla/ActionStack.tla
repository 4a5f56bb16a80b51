---------------------------- MODULE ActionStack ----------------------------
(***************************************************************************)
(* The action stack of the duel and the offers to interrupt it: a spell,   *)
(* an ability or a change of phase waits on the stack until both players   *)
(* have declined to interrupt.                                             *)
(*                                                                         *)
(* Everything happens inside the frame, GameObserver::Update: it picks the *)
(* player the frame is for ("start"), the stack is updated ("update"), the *)
(* AI acts or a human's key is read ("input"), and the state based effects *)
(* run ("sbe").  The player of the frame is picked before the stack is     *)
(* updated, so an offer made in this frame may be to the other one.        *)
(*                                                                         *)
(* Only unresolved objects are kept: resolved ones have no effect before   *)
(* garbageCollect() deletes them.  No target chooser, menu or tutorial is  *)
(* open, and the mod rules let players interrupt.                          *)
(***************************************************************************)
EXTENDS Integers, Sequences, FiniteSets, SequencesExt

CONSTANTS
  AI,           \* the players played by the computer
  AutoDecline,  \* the kinds player 0's options decline to interrupt when his
  Seconds,      \* the option INTERRUPT_SECONDS, in frames; 0 for no limit
  MaxStack,     \* bound on the unresolved objects
  NoPlayer      \* the null player pointer

Players == 0..1
Kind    == {"spell", "split", "ability", "phase"}
Decision == {"NOT_DECIDED", "INTERRUPT", "DONT_INTERRUPT", "DONT_INTERRUPT_ALL"}
Declined == {"DONT_INTERRUPT", "DONT_INTERRUPT_ALL"}

ASSUME StackAssumption ==
  /\ AI \subseteq Players
  /\ AutoDecline \subseteq Kind
  /\ Seconds \in Nat /\ MaxStack \in Nat
  /\ NoPlayer \notin Players

VARIABLES
  pc,             \* where the frame is
  stack,          \* the kinds of the unresolved objects, the latest last
  decision,       \* interruptDecision
  ask,            \* askIfWishesToInterrupt
  isInterrupting, \* GameObserver::isInterrupting
  timer,          \* frames left to answer; negative when not running
  mover,          \* who GameObserver::Update finds may act in this phase
  acting,         \* currentActionPlayer, mover as of some earlier moment
  framePlayer,    \* the player DuelLayers::Update is called with
  asked           \* history: who was asked about the stack as it is now, or
                  \* held the hand with the stack as it is now

gameVars == <<mover, acting, framePlayer>>
vars == <<pc, stack, decision, ask, isInterrupting, timer, gameVars, asked>>

TypeOK ==
  /\ pc \in {"start", "update", "input", "sbe"}
  /\ stack \in Seq(Kind) /\ Len(stack) <= MaxStack
  /\ decision \in [Players -> Decision]
  /\ ask \in Players \cup {NoPlayer} /\ isInterrupting \in Players \cup {NoPlayer}
  /\ timer \in -1 .. Seconds * MaxStack
  /\ mover \in Players /\ acting \in Players /\ framePlayer \in Players
  /\ asked \subseteq Players

Init ==
  /\ pc = "start" /\ stack = <<>> /\ decision = [p \in Players |-> "NOT_DECIDED"]
  /\ ask = NoPlayer /\ isInterrupting = NoPlayer /\ timer = -1
  /\ mover = 0 /\ acting = 0 /\ framePlayer = 0 /\ asked = {}

Other(p)        == 1 - p
currentlyActing == IF isInterrupting # NoPlayer THEN isInterrupting ELSE acting
Top             == stack[Len(stack)]

-----------------------------------------------------------------------------
(* Putting objects on the stack.                                           *)

(* addAction() makes everyone decide again.                                *)
Undecided == [p \in Players |-> "NOT_DECIDED"]

(* addSpell(), addAbility(), addAction(): player 0 may have set the option *)
(* never to be asked about what he plays himself.                          *)
Declines(kind, p) == p = 0 /\ 0 \notin AI /\ kind \in AutoDecline

(* The players in open have not answered yet, or hold the hand: what they  *)
(* say next is said about this object too.                                 *)
Add(kind, p, open) ==
  /\ Len(stack) < MaxStack
  /\ stack' = Append(stack, kind)
  /\ decision' = IF Declines(kind, p) THEN [Undecided EXCEPT ![0] = "DONT_INTERRUPT"] ELSE Undecided
  /\ asked' = (Players \cap open) \cup (IF Declines(kind, p) THEN {0} ELSE {})

(* AddNextGamePhase(): who asks for the next phase does not interrupt it.  *)
(* Its own test that nothing is unresolved never succeeds, and is left out *)
(* (it passes the state where getNext() expects the type).                 *)
AddNextGamePhase ==
  /\ Len(stack) < MaxStack
  /\ stack' = Append(stack, "phase")
  /\ decision' = [Undecided EXCEPT ![acting] = "DONT_INTERRUPT"]
  /\ asked' = {acting}

(* The game moves to another phase, where somebody else may act;           *)
(* nextPlayer() updates currentActionPlayer at once, the rest leaves it to *)
(* the next frame.                                                         *)
PhaseMoves ==
  /\ mover' \in Players
  /\ acting' \in {acting, mover'}
  /\ UNCHANGED framePlayer

(* Mutant of MayRequest: AddNextGamePhase() is trusted to test the stack.  *)
MayAlwaysRequest == TRUE

(* userRequestNextGamePhase(true): nothing while an object is unresolved.  *)
MayRequest == stack = <<>>

RequestNextPhase ==
  \/ ~ MayRequest /\ UNCHANGED <<stack, decision, asked, gameVars>>
  \/ MayRequest /\ AddNextGamePhase /\ UNCHANGED gameVars
  \/ MayRequest /\ PhaseMoves /\ UNCHANGED <<stack, decision, asked>>
  \/ MayRequest /\ PhaseMoves /\ \E p \in Players : Add("ability", p, {})

-----------------------------------------------------------------------------
(* Answers.                                                                *)

(* Both identify the player by isInterrupting, player 0 when it is null.   *)
Answering == IF isInterrupting = 1 THEN 1 ELSE 0

(* Mutants of cancelInterruptOffer: one of its pointers is left as it is.  *)
CancelKeepsAsk(mode) ==
  /\ decision' = [decision EXCEPT ![Answering] = mode]
  /\ isInterrupting' = NoPlayer /\ timer' = -1 /\ UNCHANGED ask

CancelKeepsInterrupting(mode) ==
  /\ decision' = [decision EXCEPT ![Answering] = mode]
  /\ ask' = NoPlayer /\ timer' = -1 /\ UNCHANGED isInterrupting

cancelInterruptOffer(mode) ==
  /\ decision' = [decision EXCEPT ![Answering] = mode]
  /\ ask' = NoPlayer /\ isInterrupting' = NoPlayer /\ timer' = -1

endOfInterruption ==
  /\ decision' = [decision EXCEPT ![Answering] = "NOT_DECIDED"]
  /\ isInterrupting' = NoPlayer
  /\ UNCHANGED <<ask, timer>>

(* The timer is left as it stands.                                         *)
setIsInterrupting(p) ==
  /\ decision' = [decision EXCEPT ![p] = "INTERRUPT"]
  /\ ask' = NoPlayer /\ isInterrupting' = p
  /\ UNCHANGED timer

-----------------------------------------------------------------------------
(* ActionStack::Update.                                                    *)

(* Mutant of KeepAll: resolve() keeps every refusal.                       *)
KeepDeclined(d) == [p \in Players |-> IF d[p] \in Declined THEN d[p] ELSE "NOT_DECIDED"]

(* What resolve() leaves of the decisions.                                 *)
KeepAll(d) ==
  [p \in Players |-> IF d[p] = "DONT_INTERRUPT_ALL" THEN d[p] ELSE "NOT_DECIDED"]

(* resolve() of the latest object.  While it resolves, still unresolved    *)
(* itself, it may counter another object (not a phase) or put a new one on *)
(* top; a change of phase moves the game on.                               *)
resolve ==
  LET below == SubSeq(stack, 1, Len(stack) - 1)
      hand  == Players \cap {isInterrupting}
      quiet == /\ decision' = KeepAll(decision)
               /\ asked' = hand \cup {p \in asked : decision[p] = "DONT_INTERRUPT_ALL"}
  IN /\ \/ stack' = below /\ quiet
        \/ /\ Top \in {"spell", "ability"}
           /\ \E i \in DOMAIN below : below[i] # "phase" /\ stack' = RemoveAt(below, i)
           /\ quiet
        \/ stack' = Append(below, "ability") /\ decision' = Undecided /\ asked' = hand
     /\ IF Top = "phase" THEN PhaseMoves ELSE UNCHANGED gameVars
     /\ ask' = NoPlayer
     /\ UNCHANGED <<isInterrupting, timer>>

(* Mutant of FullTime: objects are counted with the one to come.           *)
FullTimeOffByOne == Seconds * (Len(stack) + 1)

(* How long an offer lasts: longer when more objects are unresolved.       *)
FullTime == Seconds * (IF Len(stack) = 0 THEN 1 ELSE Len(stack))

(* Mutant of TimeLeft: the timer is set again in every frame.              *)
TimeRearmed == FullTime - 1

TimeLeft == (IF timer < 0 THEN FullTime ELSE timer) - 1

(* Mutant of TimedOut: the offer is withdrawn but not counted as refused.  *)
TimedOutUndecided(p) == decision

(* The decision recorded for a player whose time is up.                    *)
TimedOut(p) == [decision EXCEPT ![p] = "DONT_INTERRUPT"]

(* Player p is asked whether he interrupts, in this frame and the next     *)
(* ones until he answers or his time is up.                                *)
Offer(p) ==
  /\ asked' = asked \cup {p}
  /\ IF Seconds > 0 /\ TimeLeft < 0
     THEN /\ decision' = TimedOut(p)
          /\ ask' = NoPlayer /\ isInterrupting' = NoPlayer /\ timer' = -1
     ELSE /\ ask' = p /\ isInterrupting' = p
          /\ timer' = IF Seconds > 0 THEN TimeLeft ELSE timer
          /\ UNCHANGED decision
  /\ UNCHANGED <<stack, gameVars>>

(* The interrupting player keeps the hand.                                 *)
Interrupts(p) ==
  /\ ask' = NoPlayer /\ isInterrupting' = p
  /\ UNCHANGED <<stack, decision, timer, gameVars, asked>>

(* The player acting is asked first, then the other.                       *)
UpdateStack ==
  LET first  == currentlyActing
      second == Other(first)
  IN \/ /\ stack = <<>> /\ ask' = NoPlayer
        /\ UNCHANGED <<stack, decision, isInterrupting, timer, gameVars, asked>>
     \/ stack # <<>> /\ Top = "split" /\ resolve
     \/ /\ stack # <<>> /\ Top # "split"
        /\ \/ decision[first] = "NOT_DECIDED" /\ Offer(first)
           \/ decision[first] = "INTERRUPT" /\ Interrupts(first)
           \/ /\ decision[first] \in Declined
              /\ \/ decision[second] = "NOT_DECIDED" /\ Offer(second)
                 \/ decision[second] = "INTERRUPT" /\ Interrupts(second)
                 \/ decision[second] \in Declined /\ resolve

-----------------------------------------------------------------------------
(* The frame.                                                              *)

At(here, next) == pc = here /\ pc' = next

StartFrame ==
  /\ At("start", "update")
  /\ acting' = mover
  /\ framePlayer' = IF isInterrupting # NoPlayer THEN isInterrupting ELSE mover
  /\ UNCHANGED <<stack, decision, ask, isInterrupting, timer, mover, asked>>

Update == At("update", "input") /\ UpdateStack

(* ActionLayer::Update and the state based effects: an ability triggers.   *)
Trigger(p) ==
  /\ pc \in {"input", "sbe"} /\ Add("ability", p, {ask, isInterrupting})
  /\ UNCHANGED <<pc, ask, isInterrupting, timer, gameVars>>

(* No key was pressed, or none of these; or the AI still thinks.           *)
NoInput ==
  /\ At("input", "sbe")
  /\ UNCHANGED <<stack, decision, ask, isInterrupting, timer, gameVars, asked>>

(* AIPlayerBaka::Act: asked, it interrupts and then clicks something, that *)
(* goes on the stack or not, or cancels if it finds nothing; on the move,  *)
(* it plays or asks for the next phase.                                    *)
AIPasses ==
  /\ At("input", "sbe") /\ framePlayer \in AI
  /\ isInterrupting = framePlayer
  /\ cancelInterruptOffer("DONT_INTERRUPT")
  /\ UNCHANGED <<stack, gameVars, asked>>

AIInterrupts ==
  /\ At("input", "sbe") /\ framePlayer \in AI /\ ask = framePlayer
  /\ setIsInterrupting(framePlayer)
  /\ UNCHANGED <<stack, gameVars, asked>>

AIPlays(kind) ==
  /\ At("input", "sbe") /\ framePlayer \in AI /\ currentlyActing = framePlayer
  /\ Add(kind, framePlayer, {})
  /\ ask' = NoPlayer
  /\ UNCHANGED <<isInterrupting, timer, gameVars>>

AIRequests ==
  /\ At("input", "sbe") /\ framePlayer \in AI
  /\ isInterrupting = NoPlayer /\ acting = framePlayer
  /\ RequestNextPhase
  /\ UNCHANGED <<ask, isInterrupting, timer>>

(* ActionStack::CheckUserInput when the frame is a human's: whoever is     *)
(* asked, the key answers.                                                 *)
HumanAnswers ==
  /\ At("input", "sbe") /\ framePlayer \notin AI
  /\ ask # NoPlayer
  /\ \/ setIsInterrupting(ask)
     \/ cancelInterruptOffer("DONT_INTERRUPT")
     \/ cancelInterruptOffer("DONT_INTERRUPT_ALL")
  /\ UNCHANGED <<stack, gameVars, asked>>

HumanEndsInterruption ==
  /\ At("input", "sbe") /\ framePlayer \notin AI
  /\ ask = NoPlayer /\ isInterrupting # NoPlayer
  /\ endOfInterruption
  /\ UNCHANGED <<stack, gameVars, asked>>

HumanPlays(kind) ==
  /\ At("input", "sbe") /\ framePlayer \notin AI /\ ask = NoPlayer
  /\ Add(kind, currentlyActing, {})
  /\ UNCHANGED <<ask, isInterrupting, timer, gameVars>>

(* MTGGamePhase::NextGamePhase.                                            *)
HumanRequests ==
  /\ At("input", "sbe") /\ framePlayer \notin AI /\ ask = NoPlayer
  /\ acting = currentlyActing
  /\ RequestNextPhase
  /\ UNCHANGED <<ask, isInterrupting, timer>>

(* The end of gameStateBasedEffects(): with nothing unresolved, the combat *)
(* moves past its TRIGGERS step, or a phase without choices is skipped.    *)
AddNextCombatStep ==
  /\ At("sbe", "start") /\ stack = <<>>
  /\ Add("phase", NoPlayer, {})
  /\ UNCHANGED <<ask, isInterrupting, timer, gameVars>>

SkipPhase ==
  /\ At("sbe", "start") /\ stack = <<>> /\ isInterrupting = NoPlayer
  /\ RequestNextPhase
  /\ UNCHANGED <<ask, isInterrupting, timer>>

EndFrame ==
  /\ At("sbe", "start")
  /\ UNCHANGED <<stack, decision, ask, isInterrupting, timer, gameVars, asked>>

Loop == StartFrame \/ Update \/ NoInput \/ EndFrame

Next ==
  \/ Loop
  \/ AIPasses \/ AIInterrupts \/ AIRequests \/ HumanAnswers \/ HumanEndsInterruption \/ HumanRequests
  \/ \E kind \in {"spell", "split", "ability"} : AIPlays(kind) \/ HumanPlays(kind)
  \/ \E p \in Players : Trigger(p)
  \/ AddNextCombatStep \/ SkipPhase

(* The main loop of the program runs a frame after the other.              *)
Spec == Init /\ [][Next]_vars /\ WF_vars(Loop)

-----------------------------------------------------------------------------
(* Properties.                                                             *)

(* An object that can be answered leaves the stack only after both players *)
(* were asked about it as the stack then stood, or had said before that    *)
(* they do not want to be.                                                 *)
BothWereAsked ==
  [][pc = "update" /\ stack' # stack /\ Top # "split" => asked = Players]_vars

(* cancelInterruptOffer() and setIsInterrupting() agree on who answers: an *)
(* open offer is to the player marked as interrupting, about some object.  *)
AskMatches ==
  ask # NoPlayer => isInterrupting = ask /\ stack # <<>>

(* A change of phase is only ever put on an empty stack, so that there is  *)
(* one at most and it is resolved last: AddNextGamePhase() and             *)
(* AddNextCombatStep() rely on their callers for this.                     *)
PhaseAtBottom ==
  \A i \in DOMAIN stack : stack[i] = "phase" => i = 1

(* Every variable keeps its type, the stack its bound, and the timer stays *)
(* below the time of a full stack; a change of phase is resolved last.     *)
StackSound == TypeOK /\ PhaseAtBottom

(* Nobody keeps the right to act out of turn once the stack is empty.      *)
NoStrandedInterrupt ==
  isInterrupting # NoPlayer => stack # <<>>

(* Who is asked and who holds the hand are one, about something there is.   *)
HandsMatch == AskMatches /\ NoStrandedInterrupt

(* No offer stays open for ever: it is answered or its time runs out.      *)
OfferEnds == ask # NoPlayer ~> ask = NoPlayer

(* Once nothing more is put on the stack (which makes a player who         *)
(* declined decide again) and nobody interrupts, every object on it is     *)
(* resolved, even if nobody answers any more.                              *)
Quiet ==
  /\ \/ Len(stack') < Len(stack)
     \/ /\ stack' = stack
        /\ \A p \in Players : decision[p] \in Declined => decision'[p] \in Declined
  /\ \A p \in Players : decision'[p] # "INTERRUPT"

StackSettles == (<>[][Quiet]_vars) => []<>(stack = <<>>)
=============================================================================
