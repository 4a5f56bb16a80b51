# Wagic in TLA+

Wagic is a card duel for one human and one computer opponent.  This directory
holds TLA+ models of the parts of it that are hardest to test: the machine that
moves a duel through its turns, phases and combat steps; the stack on which
spells, abilities and changes of phase wait to be interrupted; the damage of
combat; the mana a player pays; the zones cards move between; the layer of
abilities in force; what a player owns and how it is saved; and the cache of
pictures that two threads share.  The models are written from `src/woth/src` and
`src/woth/include`; file names below are relative to those.

    TurnOrder.tla             what a duel promises about turns and phases
    TurnEngine.tla            phases, combat steps, events, the damage screen
    TurnEngine_proofs.tla     theorems about TurnEngine: phases, steps, cards, views
    ActionStack.tla           the stack, the offers to interrupt, the frame
    ActionStack_proofs.tla    theorems about ActionStack
    PictureService.tla        what the retriever of card pictures promises
    CardCache.tla             the texture cache and its thread
    CardCache_proofs.tla      theorems about CardCache
    DamageScreen.tla          how damage is shared among blockers (operators)
    CombatDamage.tla          damage, counters, prevention, regeneration, death
    CombatDamage_proofs.tla   theorems about CombatDamage: creatures, screen
    ManaCost.tla              arithmetic of costs and mana (operators)
    ManaPool.tla              the pool, what is paid from it, and its icons
    ManaPool_proofs.tla       theorems about ManaCost and ManaPool
    Zones.tla                 cards, tokens and copies that change zones
    Zones_proofs.tla          theorems about Zones
    Profile.tla               credits, cards, tasks and the files that keep them
    Profile_proofs.tla        theorems about Profile
    Sums_proofs.tla           sums over finite sets, by induction
    Abilities.tla             the layer of abilities and what they do to creatures

    MCTurnEngine.tla, MCActionStack.tla, MCCardCache.tla, MCCombatDamage.tla,
    MCManaPool.tla, MCZones.tla, MCProfile.tla, MCAbilities.tla
                              the modules the checker runs, with small instances

Run `tlc -config TurnEngineCombat.cfg MCTurnEngine.tla` and the like;
`tlapm TurnEngine_proofs.tla` and the like check the proofs.

## 1. The system

| part | code | state | operations | what makes it correct |
|---|---|---|---|---|
| turns and phases | `GameObserver.cpp`, `PhaseRing.cpp`, `MTGGamePhase.cpp` | position in the phase ring, `currentGamePhase`, `combatStep`, `currentPlayer`, extra turns and turns to skip | `userRequestNextGamePhase`, `nextGamePhase`, `nextCombatStep`, `nextPlayer`, `forward` | the three positions agree; every phase, step and turn happens once and in order |
| events | `GameObserver::receiveEvent` | `eventsQueue`, and the C++ call stack | push, deliver to every layer, pop | every event is delivered once, in order, and the calls come back |
| combat | `GuiCombat.cpp`, `DamagerDamaged.cpp` | views of attackers and blockers, damage assigned, cursor, own copy of the step | handlers of events, keys of the damage screen | the views are the cards; damage is dealt once per step to who is still there |
| attack and block flags | `MTGCardInstance.cpp` | `attacker`, `defenser`, `blockers`, `blocked` | `toggleAttacker`, `setDefenser`, `initAttackersDefensers`, `removeBlocker` | both ends of a block agree; blocked stays blocked |
| action stack | `ActionStack.cpp` | objects and their state, two decisions, who is asked, who interrupts, a timer | `addSpell`, `addAbility`, `AddNextGamePhase`, `Update`, `setIsInterrupting`, `cancelInterruptOffer`, `endOfInterruption`, `resolve` | nothing resolves before both were asked; no offer and no interruption is left open |
| frame loop | `GameObserver::Update`, `DuelLayers.cpp` | the player of the frame | update the layers, the AI or the keys, state based effects | a key acts for who the frame is for |
| abilities | `ActionLayer.cpp`, `MTGAbility.cpp`, `AllAbilities.cpp`, `AbilityParser.cpp`, `MTGRules.cpp` | lists of abilities, menus, target choosers | react to clicks and events, add and remove one another | what an ability gives goes with it, in whatever order abilities go |
| zones | `MTGGameZones.cpp` | cards of each zone, `previous` and `next` of a card, cards waiting in temp | `putInZone`, `removeCard`, `addCard`, `drawFromLibrary`, `cleanupPhase` | a card is in one zone; who holds what it was finds what it is |
| damage | `Damage.cpp`, `ReplacementEffects.cpp` | life, counters, prevention, replacement effects | `Damage::resolve`, `DamageStack::resolve`, `afterDamage` | damages of a combat act at the same time; nobody is healed by a counter; the dead are tested |
| mana and costs | `ManaCost.cpp`, `ManaCostHybrid.cpp`, `ExtraCost.cpp`, `GuiMana.cpp` | amounts in `int8_t`, icons | `canAfford`, `pay`, `add`, `remove`, `Diff` | what can be paid is paid, and no more; the icons show the pool |
| undo and replay | `GameObserver.cpp` | list of action strings | `logAction`, `processActions` | a replay ends where the game was |
| picture cache | `WResourceManager.cpp`, `WCachedResource.cpp`, `CacheEngine.h` | maps of pictures, locks, sizes, queue of requests, a thread | `Get`, `QueueRequest`, `LoadIntoCache`, `Cleanup` | one load per request; sizes add up; a picture in use is not deleted |
| AI | `AIPlayerBaka.cpp` and others | click stream, timer | `Act` | it answers when it is asked |
| what a player owns | `PlayerData.cpp`, `MTGDeck.cpp`, `Credits.cpp`, `Tasks.cpp`, `GameStateShop.cpp`, `GameStateDeckViewer.cpp` | credits, collection, decks, tasks; one file for each | buy, sell, move a card, save, end a duel | cards and credits add up, on the screens and in the files |
| players, rules, cards, menus, campaign, drawing, libraries | the rest | files and menus | parse, draw, choose | - |

`PROJECT.json` lists all of them with their status.

How they interact.  The main loop calls `GameObserver::Update` once a frame.
It picks the player who may act, and `DuelLayers::Update` then updates the
stack, the combat layer and the abilities, lets the AI act or reads keys,
after which the state based effects run.  A change of phase asked for by a
player usually becomes an object on the stack; resolving it calls
`nextGamePhase`, which raises events.  Their listeners (the rules, `GuiCombat`)
call back into `nextCombatStep` and `userRequestNextGamePhase` from inside the
delivery.  There is one thread; what is concurrent is the order of players,
triggers, deaths and time, and the nesting of these calls.  The picture cache
alone has a thread of its own.

The shop, the deck editor and the end of a duel share no memory: each reads
the player's files when it starts and writes them when it saves.

The behaviours that are hard to test, with their lines, are the hazards of
`PROJECT.json`.

## 2. Plan

Done: `TurnOrder`, `TurnEngine` and its theorems; `ActionStack` and its theorems;
`PictureService`, `CardCache` and their theorems; `DamageScreen`,
`CombatDamage` and its theorems; `ManaCost`, `ManaPool` and their theorems;
`Zones`, `Profile` and their theorems; `Abilities`.

Left, in this order:

1. `Duel`: the frame loop, `ActionStack` and `TurnEngine` composed: automatic
   skips of the other phases, the TRIGGERS step waiting for the stack, the blocker
   under the cursor of the damage screen.
2. In `Abilities`, `ALoseAbilities` and transformations, which take abilities
   out of the layer and put them back; and the sweep as a function, so that
   `LayerSound` can be proved.
3. `Replay`: the action log and its replay, as a refinement.
4. In `CardCache`, managed textures, and the times of use that both threads
   flatten.  In `TurnEngine`, rings altered in play (`addPhaseAfter`,
   `removePhase`, `goToPhase`).

Abstract specifications: `TurnOrder` and `PictureService` are stated and
implemented.  Others worth stating: a stack that resolves last in first out
after both declined, a duel that is its own replay.

## 3. TurnEngine

Variables are the fields of the code under their own names (`combatStep`,
`currentPlayer`, `eventsQueue`, `attacker`, `defenser`, `blockers`, `blocked`);
`guiStep`, `cursor`, `activeAtk` are `GuiCombat::step`, `cursor_pos` and
`activeAtk`, `view` and `viewBlk` its views of attackers and of their blockers,
`show` the views on the damage screen, `damages` the pairs of source and target
some damage is assigned to.  `strikes` is a history: the damage steps resolved
since combat began.

`calls` is the C++ call stack, the next call first.  A function that calls
others is cut where a call may be re-entrant: `nextGamePhase` is
`NextGamePhase` (the two early returns), `Forward`, `SkipCombat`, `EnterPhase`
and `PhaseActions` (which reads `currentGamePhase` again, as the code does,
after the combat damage it may have started).  `receiveEvent` is `Raise` (push,
and become the one who drains if the queue was empty), `Delivering` with one
action per kind of event, and `Pop`.  A delivery is one action for all its
listeners; the listeners that raise events append them, and those that call
`nextCombatStep` or a phase change leave that call to be made, before the pop.

The environment acts only between two calls.  It may ask for the next phase,
toggle attackers and blockers, take a creature out of combat or out of play,
put one into play, give extra turns or turns to skip, and use the keys of the
damage screen.

What is abstracted:

- Amounts.  Power and toughness are positive, so that a striker damages all it
  faces; who dies and who regenerates among those hit is any choice.
- While blockers are ordered, the player who could act is the one who orders
  them and the stack is empty.  While the screen asks for damage, objects do
  resolve (`MayResolve`): creatures leave, enter or regenerate under it, and
  where the opponent is the AI the automatic skip asks for the next phase
  without looking at it (`SkipsScreen`, `GameObserver.cpp:778`, `ASKIP_FULL`).
- Which blocker the cursor is on (`active`), and amounts moved by the keys
  (`DamageScreen` has them).  A key that would read a view that is gone is
  undefined in the code and not followed.
- Events raised together by one function are put into the queue together.
- The game starts in a phase from UNTAP to CLEANUP other than COMBATDAMAGE: a
  game set up in the damage phase would be without its first step.
- The turn number, discarding, untapping, planeswalkers, banding, the order of
  blockers and `WEventPhasePreChange` are left out; the ring is the default
  one, the same for both players.
- The defender toggles blocks while `combatStep` is BLOCKERS, because
  `GameObserver::Update` lets him act only then.
- The code tests for a second ORDER event in a row.  TRIGGERS always comes
  before, so the test fails in every reachable state; the model keeps the branch
  as the code has it.

Properties (in `TurnEngine.tla`): `StepFitsPhase`, `FullCombat`, `ViewsAgree`,
`ListsAgree` and `DamageIsCurrent` are invariants; `BlockedStays` is an action
property; `EngineReturns` is liveness; `TurnsInOrder` says that the engine
implements `TurnOrder` under a refinement mapping in which the turn has been
passed once AFTER_EOT has no phase actions left to do.

`ScreenSafe` says first that the screen is up only in the step the combat is in,
and in none in which `clickOK()` asserts it is not; then that its keys, once safe
(`Safe`: the views they read exist), stay safe in every step but two.  The code
does lose them in these two: `Stranding`, the departure of the attacker the
cursor is on, of the only one shown or of the last blocker of one shown, after
which `activeAtk` is null or points to a view thrown away, or its list is empty,
while `cursor_pos` stays (`GuiCombat.cpp:593`, `616`, `600`, read at `332` and `351`);
and `LeftUp`, a skipped first strike screen whose cursor outlives it.  TLC reaches
both.  No comment or test of the code says that this cannot happen, so it is a
hazard and not a finding.  `DamageIsCurrent` says what is dealt then: all that
the creatures still facing each other deal in this step, nothing of first
strike, nothing to one that left; normal damage of a blocker that left under the
screen is still dealt to the attacker, because only the views of its targets go.

Fairness is `WF(Engine)`: the calls belong to one thread that always goes on.
Nothing is assumed of the players.

## 4. ActionStack

`pc` is where the frame is: the player is picked, the stack is updated, somebody
acts or a key is read, state based effects.  `stack` holds the kinds of the
unresolved objects (a resolved one only waits for the garbage collection of the
turn), `decision`, `ask`, `isInterrupting` and `timer` are the fields
`interruptDecision`, `askIfWishesToInterrupt`, `isInterrupting`, `timer`.
`mover` is who may act in the phase the game is in, `acting` is
`currentActionPlayer`, taken from it once a frame, and `framePlayer` the player
the frame is for.  `asked` is a history: who was asked about the stack as it is
now, or held the hand meanwhile (a player who interrupts sees the stack and may
answer again).

What is abstracted: what objects do.  An object that resolves may leave the
stack as it is, counter another one, or put one on top; a change of phase may
change who may act.  No target chooser, menu or tutorial is open, players may
interrupt, and an object with split second does not counter.  The decisions of
the AI are free.  Seconds are counted in frames.

A detail the model shows: `AddNextGamePhase` and `AddNextCombatStep` call
`getNext(nullptr, NOT_RESOLVED)`, which passes the state as the type, so that
their own test never finds anything.  That a change of phase is put on an empty
stack only (`PhaseAtBottom`) is due to the tests of their callers.

Fairness is `WF(Loop)`: frames follow one another, and a frame without a key is
always possible.  Nobody is assumed to answer: `OfferEnds` rests on the timer
(`Seconds > 0`; with 0 the code waits for ever, as its comment says) and
`StackSettles` is claimed only if eventually no object is added and nobody
interrupts.

## 5. CardCache

`at` is where each of the two threads is: `main`, the game's, in `Retrieve`,
`Get`, `Cleanup`, `QueueRequest`, `Release`, `ClearUnlocked` or `Refresh`, and
`worker` in `ThreadProc`; both run `LoadIntoCache`.  A step is what a thread
does between two accesses to something both use: a load is eight steps
(`BeginLoad` to `Add`), so that `mError` can change between `Attempt`, which
sets it, and `Judge` and `Record`, which read it, and `cacheItems` between
`Count`, which reads it, and `Add`, which writes it.  `cache`, `cacheItems`,
`mError`, `mRequestQueue`, `mRequestLookup`, `mProcessing` and the mutexes are
the fields of the code; the queue's own mutex is the atomicity of the steps that
take it.  `read` is the register of `+=` and `-=`; `victim` is the item being
deleted.  `held` is a history: the locks on an item that somebody can give back,
because he still has the texture they were taken on.

What is abstracted:

- Items are pictures of cards, which `Get` queues, or boards, which it loads
  itself.  Whether a file exists, and whether it loads, is fixed per item.
- `cacheItems` stands for `cacheSize` and `totalSize` too: an eviction may
  start, and go on, at any time because the sizes may ask for it (`MayStop` only
  says when it may end).  The oldest item is any unlocked one.
- The map is atomic.  `QueueRequest`, `ClearUnlocked` and `Release` use it
  without its mutex while the worker inserts; what that data race does to a
  `std::map` is not modelled, only the orders it allows.
- `volatile mProcessing` is read and written as such.
- A locked texture is released by who holds it.  `Refresh` loads again any of
  the cached items (a load may fail, and then leaves the texture); a texture it
  replaced is not found by `Release`, which then does nothing.
- `RETRIEVE_EXISTING` is used only with the retriever without a thread.
  Managed textures, samples and PSI files have no second thread and are left out.

`PictureService` is what a screen may rely on: a picture is asked for when it is
neither kept nor on its way, loads come one at a time, none takes the place of a
picture that is kept (which would leak the texture), and when too many wait one
is given up.  The refinement mapping reads `request` from the queue and from
where the worker is.

Fairness: `WF(Main)` and `WF(Worker)`, the threads go on; and strong fairness for
the worker's two mutexes, which the game's thread may take again and again, so
that a worker waiting for one is not passed over for ever.  It is what the mutexes of a
fair scheduler give; without it nothing could be said of the worker.  Main gets
no such promise, and needs none: the worker runs out of requests while main
waits.  A call is made or not, as the game likes.

## 6. DamageScreen and CombatDamage

`DamageScreen` is `GuiCombat`'s arithmetic as pure operators: `AutoAffect` is
`autoaffectDamage`, `AddOne`, `RemoveOne` and the keys have the names of the
code.  A fight is the attacker's power, deathtouch and trample, with the
toughness and life of its blockers in their order.

`CombatDamage` is what becomes of the amounts.  `cards` are the creatures with
their counters (`nb`), `life`, `toughness`, `preventable`, `regenerateTokens`
and `doDamageTest`; `players` life, poison and prevention; `shields` the
`ReplacementEffects` in order; `line`, `blocked`, `amounts` the fight;
`damages` and `dealt` the `DamageStack`; `queue` the events `receiveEvent` has
not handled.  `phase` is where a combat is: nothing fights ("free"), the screen
is open, damages are dealt one by one, their events are heard, and "settled"
when the stack object has resolved and its deaths are done.  `before` is a
history: the table as it was when the damages were made.

The actions outside a fight are `AACounter::resolve` with its counters put and
taken, prevention, regeneration, shields (a circle of protection, a fog), burn,
state based effects and the end of the turn.  In a fight they are the
keys, `GuiCombat::resolve`, `Damage::resolve` one damage at a time with its
replacement effects, and the events of the damages, which deathtouch waits for.

One attacker of player 0 fights the blockers of player 1: an attacker is the
only source of damage to its blockers, so that the list of damages of a
`DefenserDamaged` is a number.  Left out: bonuses to power and toughness that
are not counters, banding, double strike (its second combat is another one
here), planeswalkers, lifelink and other triggers, and counters with a name.

`AssignmentLegal`: keys lead from a legal assignment to a legal one.  It is said
of blockers with toughness.  Of one without, that stays because it cannot be
destroyed (wilted away), the OK key takes one more than it has and gives it to
the next: damage out of nothing.
`CreaturesSound`: power and toughness are those of the card and its
counters; no order of counters, prevention and damage makes a creature healthier
than its toughness; who has no life left is indestructible or
marked for the test.
`CountersSound`: +1/+1 and -1/-1 counters go in pairs, and only counters bury a
creature before the triggers of the damage.  `AtTheSameTime`: what is left
after a combat is a function of the sums of damage, not of their order, except
where the code lets the order decide (named in the property).

## 7. ManaCost and ManaPool

`ManaCost` has `canAfford`, `Diff`, `pay`, `isPositive` and `tryToPayHybrids`
as operators over the colours, with `Wrap` for the `int8_t` of the code, which
holds -Half to Half - 1 (Half is 128 there); a cost has generic mana, colours,
hybrids, and an X.  The loops over colours and kickers are recursive functions.
`Payable` is the reference: a choice of one side of each hybrid exists so that
the colours and the total are there.  `Proper` is a cost as
`ManaCost::parseManaCost` reads it from a card: a side of a hybrid is one mana
of a colour or up to nine without, and no colour is asked for more often than
the width allows.

`ManaPool`'s variables are the pool and the icons `GuiMana` draws, life, the
card in hand with its cost (which sunburst and the kicker change while it is in
the hand), and the option to kick always.  The actions are mana abilities,
mana taken, the pool emptied with the phase, abilities paid for, a card cast by
`MTGPutInPlayRule` or `MTGKickerRule`, with the question for targets before the
payment, Phyrexian mana paid with life, and X.  `spell` and `odd` are
histories: the last payment, and what could excuse a pool below zero or icons
that differ from it.

`AffordIsRight`: `canAfford` affirms only what is `Payable`, and all of it if
each side of the hybrids has a colour, with the backtracking of the hybrids.
`SpellIsPaid`: what is taken for a spell, in mana and in pairs of life, is what
is printed on it and its X.  `KickedIsPaid`: with kickers these are paid too.
`SunburstKeepsTotal`: the cost of a card with sunburst does not drift with each
look at it.
`IconsShowPool`: the icons are the pool, whatever was paid.  `PoolSound`: the
pool is below zero only by a kicker.

## 8. Zones

`w` holds the objects (`objs`), the cards of each zone of each player, the
cards of the library that wait in temp (`placeOnTop`), `lastCardDrawn` and the
events that are waiting.  An object is a `MTGCardInstance`: `previous` and
`next` are the fields of the code, and `live` says that it is not deleted.
`aim` is the object an ability on the stack is meant for.  `sweeping` is the
place in the loops of `GameObserver::gameStateBasedEffects`, with the index and
the number of cards it compares; `cleanup` and `swept` say that the phase after
the end of turn has begun and that its loop has run.

`Put` is `putInZone` with `removeCard` and `addCard`: a new object, except
between two battlefields, the memory of temp skipped, the event sent.
`HandleEvent` is the event delivered to the rules for tokens, persist and
unearth, which move cards again.  `NextTurn` deletes what is in the garbage and
all it was before.

Left out: suspend and madness, flashback and other costs to cast from another
zone, the order a player sees his library in, splitting and meld.

`CardsInPlace`: no card is lost or doubled, and its object knows its zone.
`PastIsKept`: next leads from all a card was to what it is, and no event tells
of temp.  `TokensCease`: a token that left play is gone when the events are
handled.  `SweepInBounds`: the loops of `gameStateBasedEffects` never look past
the cards in play, though cards leave and come back while they run.

## 9. Profile

`disk` maps each file, and the `.tmp` of the two that are renamed, to what it
holds.  `own` is the `PlayerData` of the screen; `mine`, `deck` and `shown` are
`myCollection`, `myDeck` and `displayed_deck` of the editor; `stock` and
`touched` are the shop's.  `menu` is the question before a purchase or a sale,
which hears Yes again until it has closed.  A save is a list `todo` of steps
(open, which empties the file, close, remove, rename), between which the
program may be killed; `save` remembers what was written, what there was before
and which files were whole.  `board` says that the shop's task board was opened:
its list is then saved by Save And Exit, before what was bought and even if
nothing was (`GameStateShop.cpp:778`).  `again` is a history: Yes was pressed
twice; the second Yes sells the card that is shown then (`Sell`), another one if
the last of its kind went with the first.

The parts of a price that `rand()` chooses are 0.  Prices, tasks and the
content of a booster are small sets.  The options file, awards and the
statistics of decks are left out.

`ShopKeepsBooks`: nobody owes credits, not even by a second Yes, and the shop
knows when something is to be saved.  `EditorKeepsBooks`: deck and others add up
to the collection, and cards and credits to what there was, unless Yes was
pressed twice.  `KilledSafely` has three parts.  `FilesInOrder`: every file that
is whole is that of one of two saves in a row, and what the save changes is
changed in the order credits, collection, tasks; a file it only writes again has
no place in that order.  `OneFileLost`: of the files there were, a kill takes one
at most.  That covers the tasks too, which the shop rewrites before the credits
though they did not change: a kill at that moment empties them and nothing else.
`CardsSurvive`: the collection is read back as it was or as it will be, but for
the moment between `remove` and `rename` (`JFileSystem.cpp:462`).  There it is
whole in the `.tmp`, which the program never reads: to the player the cards are
lost.

## 10. Abilities

`g` holds the layer: `heap` maps addresses to abilities, so that an ability
deleted twice or lost shows, `mObjects` is `ActionLayer`'s list, `garbage` what
`moveToGarbage` put aside, `flying` and `power` what the abilities do to
creatures, `member` the creatures of the type lords ask for and
`changed` the mark that a type changed.  A lord (`ALord`) has `kids`, its map of children; a
`GenericInstantAbility` has a `child`, whose `forced` is the `forceDestroy` of
-1.  An ability that gives flying keeps what it found in `saved`; a pump is
worth a bonus that may depend on the table and is counted again each frame.

`Update` is `ActionLayer::Update`: the sweep from the last to the first, in
which `testDestroy` decides and the index is corrected when others have gone,
and the update from the first to the last.  `NextTurn` is the frame of the end
of turn, `cleanGarbage`, and the next frame.

No ability is on the stack or waits for an answer, no menu is open, no card is
phased out, and none has abilities that work from the graveyard or from exile.
An object that has left play does not come back (`Zones`).

`LayerSound`: every ability is in the layer or in the garbage, once; every
child has one owner and goes with it; the power gained is what the pumps in the
layer are worth.  `InstantsEnd`: what lasts until the end of turn is not there
in the next.  `Settles`: lords that depend on each other come to agree when the
players do nothing more.  Its fairness is `WF_tick(tick' = ~tick)`: frames go
on for ever, and a frame is possible in every state.

## 11. Runs

| run | configuration | what it checks | bounds |
|---|---|---|---|
| turn_engine_combat | a1 (double strike), a2 (trample) against b1 (first strike), b2 | the combat properties, `EngineReturns` | 4 creatures; 497,105 states |
| turn_engine_turns | a1 against b1, extra and skipped turns | `TypeOK`, `TurnsInOrder` | one extra and one skipped turn due per player at a time (`MaxMod`); 284,644 states |
| action_stack | human 0, AI 1, two frames to answer | all of ActionStack | 4 objects; 83,800 states |
| card_cache_pictures | three pictures (one missing, one bad), a board | `CacheSound`, `RequestsAgree`, `ServesPictures` | queue and cache of 1, counters below 4, 2 locks; 863,662 states |
| card_cache_threads | two pictures (one missing), a board | `RequestsEnd`, `MainReturns` | the same with 1 lock |
| card_cache_locks | as card_cache_pictures | `LocksComeBack`, violated | |
| combat_damage | an attacker against two or three blockers, eight casts | all of CombatDamage | `Amounts` 1, `Batches` -1 and 2, 3 acts; 697,483 states |
| mana_pool | nine kinds of card, three abilities | all of ManaPool | 3 colours, `Half` 8, at most 5 mana before more is made, 7 acts; 117,251 states |
| zones | a persist creature, an aura, a creature bound to leave, a token | all of Zones | 3 acts; 57,835 states |
| profile | two cards at 1 and 2 credits, a booster at 2, a task | all of Profile | 5 acts, Yes pressed at most twice; 1,001,421 states |
| abilities | two creatures, a lord that gives flying, a lord that pumps flyers | `LayerSound`, `InstantsEnd`, `Settles` | 6 acts, 2 turns; 404,688 states |
| abilities_flight | as abilities | `FlightEnds`, violated | |

In every `TurnEngine` run player 1 is the AI and either player may begin, so
that both an attacking human, who has the damage screen, and an attacking AI,
whose steps chain inside one another, occur.  Two attackers with two
blockers are the least that let a blocker move from one attacker to another
while a third creature keeps the screen open; one creature of each kind of
strike, and one trampler, make every pair the code tells apart.  The queue and the call stack are not bounded: they stay finite because
the environment waits.  With `MaxMod` 1, both players can have an extra turn and
a turn to skip at once, which is every case `nextPlayer` tells apart.  Four
objects on the stack let a phase change, an answer, a counter and a trigger be
there together.

In the cache, a queue of one request (7 in the code) makes the cap bite at the
second request, and with three pictures a request is dropped while another
picture is being loaded.  `MaxCached` 1 makes every other retrieval evict;
`CounterLimit` 4 lets the unsigned counters wrap round both ways; two locks are
the least of which one can be given back while the other stays.  The program
terminates, so that deadlock is not checked there: `MainReturns` says what
matters of it.

In `CombatDamage`, three acts (`MaxActs`), of which a fight is one, let two of
counters, prevention, a shield and regeneration meet before a fight, or one of
them come between two fights.  The casts put abilities together that touch the
same damage: deathtouch with trample, wither with an indestructible blocker,
infect with phantom and wilting.  Three blockers are the least for which the screen
takes damage from one in the middle.  A batch of two counters against one makes a
pair and a rest.

In `ManaPool`, numbers of 4 bits stand for the 8 of `int8_t`: `Wrap` is defined
for any width, and five mana and a doubling pass 7 as sixty-four and a doubling pass
127.  Three colours (generic, green, white) are enough for hybrids that compete
for one mana, which is where `tryToPayHybrids` has to backtrack.

In `Zones`, three acts by the players are followed by any number of events,
rules and sweeps.  An aura on a creature that persists, one that is bound to
leave and persists too, and a token make the sweeps lose and gain cards while
they run; the decks begin in play, or in the library and the hand.

In `Profile`, `Default` (3000 in the code) is 2, as only its being more or
less than a price matters.  Two credits buy one card or a booster and not both,
which is what a second Yes needs.

In `Abilities`, two creatures and two lords make the shortest chain in which
one list depends on what another one gives; `Bonus` is 0 there, which stands for
"as many as there are creatures", so that a pump's worth changes between its
beginning and its end.

`CHECK_DEADLOCK FALSE` in these runs stands for a bound that is reached or a
player who stops.

The runs that violate are findings:

- `LocksComeBack`: `Refresh` deletes a texture whose holder gives the lock back
  by that very pointer, as the AI's avatar does when a duel changes the style.
- `FlightEnds`: an ability that gives flying keeps the flag it found and puts
  that back.  When what came first goes first, the creature flies for the rest
  of the game with nothing that makes it.

The models show other differences between what the code does and what its
names, comments or players would have; no run is about them, and the
properties are stated so as to allow for them:

- Turns: `forward` builds the next turn from the ring of the player after next
  (`PhaseRing.cpp:233`); `extraDamagePhase` does not count a double striker
  (`PhaseRing.cpp:172`).
- Offers: the offer after an interrupted one has only what is left of the timer
  (`ActionStack.cpp:873`); a key of the human answers the AI's offer in the
  frame it is made (`GameObserver.cpp:479`).
- Cache: `cacheItems` is counted outside the mutex of the map
  (`WResourceManager.cpp:1230`); `mError` is shared, so that a file that exists
  may be recorded as missing (`:1042`).
- Damage: `preventable` of the other player is not reset at the end of a turn
  (`GameObserver.cpp:187`).
- Mana: a kicker is paid apart from the cost, which may leave the pool below
  zero (`MTGRules.cpp:354`); a kicker of many times is counted once too often
  (`MTGRules.cpp:447`).
- Zones: `lastCardDrawn` is the object of the library, not the one in the hand
  (`MTGGameZones.cpp:213`).
- Profile: Yes pressed again on a closing menu sells a card twice
  (`GameStateDeckViewer.cpp:1640`); a kill while the collection is renamed loses
  it, and one while the shop saves its task board loses the tasks (section 9).
- Abilities: `ALoseAbilities` may put a wrapper back whose child is gone
  (`AllAbilities.cpp:3762`).

Every property of a passing run has a mutant, a plausible error in one
definition, for which TLC finds it violated (the operators named in comments
"Mutant of ...").  A property that is a conjunction of parts has a mutant for
each part that a different error would break.

## 12. Proofs

`TurnEngine_proofs` proves, for any finite set of creatures, any owners,
strikes, trample and AI players, any starting phase `GameAssumption` allows and
any `MaxMod`, that every reachable state satisfies `TypeOK`, `StepFitsPhase` and
`FullCombat`, that the drain never pops an empty queue (`QueueIsSound`), and that
the engine implements `TurnOrder` (`TurnsAreInOrder`).  The assumptions are `CreatureAssumption` and
`GameAssumption`.

None of these is inductive: whether a call is right depends on the calls and
events that wait around it.  `Control` has one disjunct for each form the
re-entrant call stack takes:

- `Running`: the queue is empty and the calls are the game loop's own.
- `Quiet`: a queue is drained whose events make no listener call the engine.
- `Arrives`: the queue ends in the event of a combat step.
- `Nested`: a listener's own call (the next phase, the next step) is under way,
  while the event it answers is at the head of the queue.
- `NestedArrives`: the same, with the event of a further step behind it.

Each says which calls may come next (`Ready`), which events may wait, and what
holds of the step, of the steps resolved so far and of the screen (`Fits`,
`StrikesFit`, `GuiFits`, and `FitsSoon`, `StrikesSoon`, `GuiFitsSoon` while the event of
a step is still to be told).  Every action has a lemma for each form it can be taken in;
that a listener's call comes back to the interrupted calls only in COMBATDAMAGE
or COMBATEND (`Interrupts`) is what makes the rest of `nextGamePhase`, which
reads `currentGamePhase` again, do the right thing.  The refinement then follows
from three facts: the call of phase actions is there exactly while they are to
be done, only `EnterPhase` and `PhaseActions` change what `TurnOrder` sees, and
the phase entered is the one after, or COMBATEND after a combat nobody attacks
in.  Each disjunct was checked by TLC on both instances before it was proved.

The second half of `TurnEngine_proofs` goes on from there: every reachable
state satisfies `ListsAgree` and `ViewsAgree`, and every step `BlockedStays`.
`GuiCombat` keeps its views from events delivered after the cards have changed,
so that views and cards differ while events wait.  Its invariant, `VInv`, adds to
`IInv`:

- `CardsSound`: the flags and lists of the cards alone.  Attackers are the
  current player's and block nobody, nobody out of play blocks or is blocked,
  and before the blockers phase nobody is.
- `Views(Waiting)`: the views relative to the events that wait.  A creature is
  shown if and only if it fights, unless an event about it waits
  (`ViewSound`, `TouchSound`), and shown facing who it blocks, unless its change
  of block waits (`MoveSound`, `FaceSound`).  Without waiting events this is
  `ViewsAgree`.
- `QueueFits`: the events whose listeners raise others are alone in the queue
  (`LoneSound`), the end of the attackers phase is told before anybody blocks
  (`LeavesAttack`), who blocks whom is told before the steps after BLOCKERS
  (`BlocksEarly`), and creatures hit in the blockers phase, where there is only
  first strike without a first striker, block nobody (`HitsAttack`, `NoFirst`).
  This is why a blocker that dies does so in the damage phase, where leaving
  combat keeps the attacker's `blocked`; with that, `BlockedStays` follows.

`ScreenIsSafe` needs both invariants: the first part of `ScreenSafe` is in `Control`, and the
second rests on the views.  Each step that keeps the screen up keeps what it
shows, unless the event delivered is about it (`DeparturesKeepSafe`); a step that
opens it shows attackers with blockers (`OpensSafe`); and a skipped first strike
screen is replaced by that of normal damage unless there is none (`AssignKeepsSafe`).

`DamageAlwaysCurrent` adds `Current` to `VInv`: from the delivery of DAMAGE until
END_DAMAGE is resolved, the damages fit the views (`DamagesFit`).  They do when they are
assigned (`AssignedFits`); an attacker or blocker that leaves takes its damage off
together with its view, except what a blocker was to deal (`DropFits`, `UnblockFits`);
no new pair comes up by then (`BlocksEarly`); and the step of normal damage is not
told a second time before it is resolved (`NoDamageWaits`).

Each part was checked by TLC on the instances before it was proved.

`ActionStack_proofs` proves, for any `AI`, `AutoDecline`, `Seconds` and
`MaxStack`, that every reachable state satisfies `HandsMatch`
(an open offer is to who is marked as interrupting, and nobody is marked over
an empty stack) and `StackSound` (types, and `PhaseAtBottom`), and every step `BothWereAsked`.  The
only assumption is `StackAssumption` in `ActionStack.tla`, which says what the
constants are.

The argument is an inductive invariant, `IInv`:

- `AskIsHand`: an open offer is to the player marked as interrupting.
  `cancelInterruptOffer` finds its player by that mark, so this is what keeps it
  from recording an answer for the wrong player.
- `HandIsOpen`, `HandHasObject`: while somebody is marked, not everybody has
  declined, and something that can be answered is on the stack.
- `DecidedWereAsked`: whoever has decided was asked about the stack as it is.
- `HandWasAsked`: so was, when a key is read, the player who is marked.

With these, `resolve`, which is reached only when both have declined, is reached
only when both were asked (`BothWereAsked`), and leaves nobody marked.
`PhaseAtBottom` needs only that every path to `AddNextGamePhase` and
`AddNextCombatStep` finds the stack empty.  Each operation has a lemma, and
what `SubSeq` and removal do to a sequence is stated once.  The invariant was
checked by TLC on the instance of `action_stack` before it was proved.

`CardCache_proofs` proves, for any pictures, boards, cap on the queue, limit of
the cache, width of the counters and bound on locks, that every reachable state
satisfies `CacheSound` (types, and `HeldStays`) and `RequestsAgree`, and that the cache
implements `PictureService` (`ServesPictures`): the initial state maps to an
initial state and every step to a step or a stutter.  The assumption is
`CacheAssumption`: pictures and boards are different ids, and the bounds are
numbers.

Its invariant, `IInv`, says what each thread may rely on between two looks:

- `WorkerInv`: what the worker loads is not in the queue, and until it is stored
  there is no entry for it.  The lookup keeps its id for the whole load, so that
  it cannot be queued again.
- `QueueInv`: what is queued is queued once and has no entry.  This is why
  `QueueRequest` must look at the map once more although `Get` just did: the
  worker may have stored the picture, and forgotten the request, since.
- `BoardAbsent`, `FoundStays`: only main stores and deletes boards.
- `VictimUnlocked`, `HeldInv`: what is deleted is unlocked; what is locked is
  cached, with at least the locks somebody can give back.

None of it uses the mutexes of the map and of the file system: as long as an
access to the map is atomic, the lookup alone keeps loads apart.  What the
queue is made of (`Popped`, `Appended`, `Counted`) is stated once for sequences
without repetitions.

`CombatDamage_proofs` proves, for any attacker and blockers, any casts with
Nat powers and positive toughness, any amounts and batches and any `MaxActs`,
that every reachable state satisfies `CreaturesSound`: `TypeOK`,
`StatsAgree`, `NeverHealthier` and `DeadAreTested` (`CreaturesAlwaysSound`).
The only assumption is `DamageAssumption`.

Its invariant, `IInv`, is about one creature at a time (`TablesSound`: each is
`Sound`) and about the shapes of the rest (`StackTyped`).  A `Sound` creature
has its types, agrees with its counters, is not healthier than its toughness,
and is tested if it is dead.  While counters are put and cancelled one by one it
is only `Firm`: it may be dead and not marked for a moment, and the test that
follows makes it `Sound`.  Every operation on a creature (`Count`, `Bury`,
`Destroy`, `AfterDamage`, the cancelling of pairs) has a lemma of this kind; the
steps of `Next` are those lemmas applied to one or to all creatures.

Its second half proves `CountersSound` from the same assumption, with the
invariant `CInv`: every creature is `Fit`, which is more than `Sound`.  It is
`Bare`, so that one that takes no counters keeps the positive toughness of its
card and is not buried for want of it, and `Spared`: in play without life and
untested it is indestructible and not exiled instead.  The one operation that
tests for death while damages are dealt and puts no -1/-1 counter is the first
+1/+1 counter of a creature that damage makes grow (vigor).  `Hardy` says that
such a creature lives: it does when the damage step begins, since no test is
owed then and it is `Spared`, and damage only adds to its life.  What a damage
does to one creature (`Struck`) is then `Harmed`, a relation that composes:
-1/-1 counters are not lost, and a creature that left has more of them.  For
`PairsCancel` the abilities of creatures do not change, and each step keeps a
creature `Neat` if no creature is one that brings counters by damage.  The new
parts of the invariant were checked by TLC, with creatures that grow and cannot
be destroyed among the casts, before they were proved.

Its third part is the damage screen, `AssignmentLegal`, for any number of
blockers in any order and any power.  A `Game` is a fight whose blockers have
toughness; amounts are `Legal` in it if they add up to the power (with trample,
to no more) and are `Ordered`: whoever comes after a blocker that is short of
lethal damage has nothing, and nothing is trampled over.  The loops behind the
keys have a lemma each: one more for a blocker, taken from the first blocker the
power is exceeded at (`AddOneLegal`); one less (`RemoveOneLegal`); the shares
the screen opens with (`AutoAffectLegal`), by counting up the blockers; and the
repeated taking of the OK key (`KeyOkLegal`).  `AInv` adds to `IInv` that the
amounts on the screen are `Legal`.

`Profile_proofs` proves, for any finite sets of cards and tasks, any prices and
rewards, any first deck and any bounds, that every reachable state satisfies
`ShopKeepsBooks`, `KilledSafely` and `EditorKeepsBooks`.  The only assumption is
`ProfileAssumption`.

What makes them inductive is `Stage`.  A save is a list of steps that shrinks,
so what has been done is known from what is left: `Stage` has one disjunct for
each list that can be left, and `Progress(D, R)` says of it that the files of
`D` are written (`Done`), those of `R` still hold what was there before (`Old`),
and the one between is not whole.  `Written` says that a `.tmp` holds what is to
be renamed.  The shop's save writes the tasks twice: while it is at the first time
(`Board2`, `Board1`) they count as not yet touched, as what is written then is
what was there (`Same("tasks")`, which `ShopBooks` gives: the shop never changes
the tasks).  From `Progress` alone, and `D` coming before `R` in the order of
the files, the three parts of `KilledSafely` follow (`ProgressIsSafe`); when the
program is killed the list is emptied and they stay.  The list each screen
begins with is computed in `Saves`.  `ShopBooks` and `EditorBooks` say what a
screen shows: what is in the files, or, while a save is under way, what it
writes.  `SaleShown` (the card that may be sold is still there as long as Yes
was not pressed) is what makes the sale of a card exact: neither of the two
removals looks.  The invariant was checked by TLC before it was proved.

What a collection is worth is a sum over all cards.  `Sums_proofs` proves what
sums do: the library's induction theorems cannot be used here, but a set of sets
that contains a finite set whenever it contains the set without some element of
its own contains all of them, as strict inclusion is well founded on finite sets
(`SubsetInduction`).  From that, `SumFunction` has the recursive equations of a sum
(`SumFunctionIs`), changes by what one value changes (`SumChange`), and is the sum
of what each kind comes to (`SumByKind`).
`CombatDamage_proofs` uses them for amounts, and `CountUp`, the induction over
numbers that is made the same way, for its loops.

`ManaPool_proofs` proves, for any number of colours, any width of the numbers,
any costs, abilities and bounds, that every reachable state satisfies
`PoolSound`, `IconsShowPool`, `AffordIsRight`, `SunburstKeepsTotal` and
`SpellIsPaid`.  `PoolAssumption` says that costs are `Proper`, that a mana ability
adds no more than a number holds, and that a card with sunburst costs mana without
colour, or X, which is so of all fifteen in `bin/Res/sets/primitives/mtg.txt`.
Kickers need not be proper.

The invariant, `IInv`, has two parts.  `Kept` is about the pool: its width, that
it owes nothing and is what the icons show unless `odd` tells why not.  `Held` is
about the card in hand: its cost stays proper, and is the printed one unless the
card has sunburst; with sunburst (`Bursting`) it asks in all for at least what is
printed, and for exactly that without an X.  The second is needed since `Burst` rewrites the cost each time the card
is looked at: it asks for one mana of a colour where none was asked for, and that
is in the pool, so the cost stays proper, and can still be paid if it could before
(`BurstIs`, `LookedIs`).  The first needs it because a payment takes only what is
there if nothing wraps.

Most of the proof is about what a payment does:

- `NothingWraps`: from a pool that owes nothing, what a proper cost leaves fits
  into a number, so `Diff` subtracts as integers do.
- `GenericIs`, `CoveredIs`: the loop that pays generic mana with colours, from the
  first one up, takes no more than it owes from each, and ends without debt if
  and only if the total was enough (`GenericKeepsTotal`: and in all exactly that).
- `PaidSidesAre`: the recursion over the hybrids returns a choice of sides, and
  if any fits, one that fits, the first that does.  This needs that a choice of the least rank exists
  among those that fit (`RankType`).
- `AffordIs`, `AffordSound`: so `canAfford` says that the choice it came to is
  covered, which is one way to be `Payable`; and then a payment leaves each number
  between zero and what it was, which is why icons that follow the events of the
  payment are the pool again (`SpentKeeps`).
- `AffordExact`: if another choice is covered, this one is.  Colour by colour it
  fits since some choice does; in the whole it asks for as much as any other, one
  mana for each hybrid, as what the sides ask of the colours together is what the
  sides ask (`TakesInAll`, from `SumByKind`).  A hybrid of two mana without colour or
  one of a colour breaks this, which is why `AffordIsExact` asks for colours.
- `PaidInAll`: what is left in all is the pool without the cost and its X, and
  `PayLifeTakes` the same for Phyrexian mana, in mana and pairs of life.
- `XIsRead`: the rule reads X a second time, from what was paid.  There the hybrids
  are settled again, with other mana; as the first choice that fitted the pool
  fits what was paid for it, and no earlier one can, it is the same (`SameSides`),
  so what is left of a colour is the X of it (`ColorOfX`).  An X of any mana takes
  the whole pool (`AllForX`).  That makes `SpellIsPaid` an equation (`SpellPaid`),
  which `CastPays` and `NextPays` carry over to steps.

The loops are functions on numbers up to n, which exist and keep to a set of
values if each round does (`RoundsExist`, `RoundsStay`).  `IInv` was checked by TLC
on the instance of `mana_pool` before it was proved.

`Zones_proofs` proves, for any decks, tokens, owners, abilities, starting zones
and `MaxActs`, that every reachable state satisfies `CardsInPlace`,
`PastIsKept`, `TokensCease` and `SweepInBounds`.  The only assumption is
`ZonesAssumption`: a card of a deck is no token, there are finitely many, and a
game begins with cards in libraries, hands, graveyards and in play.

Everything a rule does to a card is one or more calls of `putInZone`, so the
invariant, `IInv`, is what one call keeps, and most of the proof is about that
operator:

- `Sound` is about the objects, the zones and the events: what lies in a zone is
  a live object without a next, once (`Placed`, `Once`), and every such object
  lies in the zone it is told to be in (`Found`); `next` and `previous` are each
  other's inverse among what is not deleted (`LinkedOn`, `LinkedBack`) and go
  forward (`InOrder`); each card of a deck is one such object (`Held`); what is
  in temp knows a zone before it (`FromElsewhere`), which is why the event that
  skips temp never tells of it; and what waits is still true (`Told`).
- `Tidy`: temp is `placeOnTop`, and no token is in it.
- `TokensTold`: of a token that is neither in play, in temp nor in the garbage
  an event still waits that will bring it there.  Once no event waits there is
  no such token, which is `TokensCease`.
- `InBounds`: where the sweep is.  What leaves is compensated at once, because
  the index goes down or the number of cards is read again before the next look.

A move takes one of four forms (`Stayed`, `Came`, `Waited`, `Went`), each with
its own lemma of what becomes of objects, zones and events; `Grown` is what all
of them come to for the rest of the world (no object disappears, no card
changes, old events stay true) and composes, so that rules which move a card
several times, `shuffleLibrary` with any number of cards in temp
(`Stepwise`, by induction on the cards) and the two halves of `drawFromLibrary`
need nothing more.  `IInv` was checked by TLC on the instance of `zones` before
it was proved.

Only model-checked:

- Of `ManaPool` `KickedIsPaid`.  It holds of the costs of the run and not of all:
  the X of a kicked spell is read from a payment that had the kicker in it, and in
  a pool that owes a kicker the numbers may wrap.
- Of `CombatDamage` `AtTheSameTime`, which relates sums over the whole list of
  damages, dealt in any order, to what becomes of each creature.
- `Abilities`: the sweep is a RECURSIVE operator, since its length depends on
  what it removes.
- Liveness: `EngineReturns`, `OfferEnds`, `StackSettles`, `RequestsEnd`,
  `MainReturns` and `Settles`, which rest on fairness.

## 13. Not modelled

Targets and the choice of them; reading rules, cards and abilities from text;
what each of the several hundred abilities does, beyond the kinds in `Abilities`,
`CombatDamage`, `ManaPool` and `Zones`; the heuristics of the AI; drawing and
layout; the network player, which the build leaves out; the scripted player of
the tests; the engine and XML libraries.  Their states are files and widgets, or
data the models take as free choices.  Costs that select a target (sacrifice,
discard, tap another) suspend the payment in ways `ManaPool` does not have.

Undo and replay are planned: a replay feeds every click through the whole
program, and so is a property of all modules together.
