-------------------------------- MODULE Profile --------------------------------
(***************************************************************************)
(* What a player owns, between the screens that change it and the files    *)
(* that keep it.  Each screen loads the profile anew when it starts; the   *)
(* shop, the deck editor, the end of a duel and the end of a story write   *)
(* their part of it back, file by file, and the program may be killed      *)
(* between any two steps.  A menu that closes still listens for a tenth of *)
(* a second.  The random part of a price is 0, an outcome of rand().       *)
(***************************************************************************)
EXTENDS Integers, Sequences, FiniteSetsExt, Functions

CONSTANTS
  Cards,        \* the cards that are sold
  Price,        \* what each of them costs
  BoosterPrice,
  Tasks,        \* the tasks there may be
  Reward,       \* what a task, or a victory, brings
  Default,      \* the credits of a player without a file: 3000
  FirstDeck,    \* the collection of createUsersFirstDeck()
  MaxYes,       \* bound on how often Yes is pressed before a menu is closed
  MaxActs       \* bound on what the player does

Bag == [Cards -> Nat]
Files == {"deck", "credits", "collection", "tasks"}

ASSUME ProfileAssumption ==
  /\ IsFiniteSet(Cards) /\ Price \in [Cards -> Nat \ {0}] /\ BoosterPrice \in Nat \ {0}
  /\ IsFiniteSet(Tasks) /\ Reward \in Nat \ {0} /\ Default \in Nat
  /\ FirstDeck \in Bag /\ MaxYes \in Nat /\ MaxActs \in Nat

VARIABLES
  disk,         \* the files, and those of the same name with .tmp
  screen,
  own,          \* PlayerData: the credits, the collection, the tasks
  mine,         \* myCollection: the cards shown as the player's
  deck,         \* myDeck
  shown,        \* displayed_deck: the collection or the deck
  stock,        \* mInventory
  touched,      \* mTouched
  board,        \* taskList: the task board was opened in this visit
  menu,         \* the question whether to buy or to sell
  todo,         \* the steps of a save that are still to be done
  save,         \* what is being written, and what there was before
  again,        \* history: Yes was pressed while the menu was closing
  acts

vars == <<disk, screen, own, mine, deck, shown, stock, touched, board, menu, todo, save, again, acts>>

None == [c \in Cards |-> 0]
NoMenu == [kind |-> "none"]
Plus(b, c) == [b EXCEPT ![c] = @ + 1]

(* MTGDeck::remove(), WSrcDeck::Remove(): nothing if there is none.         *)
Minus(b, c) == [b EXCEPT ![c] = IF @ > 0 THEN @ - 1 ELSE 0]
Take(b, d) == [c \in Cards |-> b[c] - d[c]]

----------------------------------------------------------------------------
(* The files.  A file holds one part of what there was when it was written. *)

Absent == [state |-> "absent"]
Whole(data) == [state |-> "whole", data |-> data]
Part(f) == disk[f].data[f]

(* PlayerData::init(), MTGDeck's constructor and TaskList::load(): a file   *)
(* that is absent or empty gives the default.                               *)
Loaded ==
    [deck |-> IF disk["deck"].state = "whole" THEN Part("deck") ELSE None,
     credits |-> IF disk["credits"].state = "whole" THEN Part("credits") ELSE Default,
     collection |-> IF disk["collection"].state = "whole" THEN Part("collection") ELSE None,
     tasks |-> IF disk["tasks"].state = "whole" THEN Part("tasks") ELSE {}]

(* Only decks and collections are written to a file of their own first.    *)
Tmp(f) == IF f = "deck" THEN "deck.tmp" ELSE "collection.tmp"

(* A file written in its place: opening it empties it.                      *)
InPlace(f) == << <<"open", f>>, <<"close", f>> >>

(* Mutant of ViaTmp: a deck is written in its place.                        *)
ViaTmpInPlace(f) == InPlace(f)

(* MTGDeck::save(), with JFileSystem::Rename(), which removes the old file. *)
ViaTmp(f) == InPlace(Tmp(f)) \o << <<"remove", f>>, <<"rename", f>> >>

(* Mutant of SavePlayer: the tasks are written before the credits.          *)
SavePlayerTasksFirst(withCollection) ==
    InPlace("tasks") \o InPlace("credits")
      \o (IF withCollection THEN ViaTmp("collection") ELSE <<>>)

(* PlayerData::save().                                                      *)
SavePlayer(withCollection) ==
    InPlace("credits") \o (IF withCollection THEN ViaTmp("collection") ELSE <<>>)
      \o InPlace("tasks")

Holds(o, d) == [deck |-> d, credits |-> o.credits, collection |-> o.collection, tasks |-> o.tasks]
Write(steps, now) ==
    /\ todo' = steps
    /\ save' = [last |-> now, prev |-> Loaded, had |-> {f \in Files : disk[f].state = "whole"}]
WriteNothing == UNCHANGED <<todo, save>>


Step ==
    LET s == Head(todo)
    IN /\ todo # <<>> /\ todo' = Tail(todo)
       /\ disk' = CASE s[1] = "open" -> [disk EXCEPT ![s[2]] = [state |-> "empty"]]
                    [] s[1] = "close" -> [disk EXCEPT ![s[2]] = Whole(save.last)]
                    [] s[1] = "remove" -> [disk EXCEPT ![s[2]] = Absent]
                    [] s[1] = "rename" -> [disk EXCEPT ![s[2]] = disk[Tmp(s[2])], ![Tmp(s[2])] = Absent]
       /\ UNCHANGED <<screen, own, mine, deck, shown, stock, touched, board, menu, save, again, acts>>

(* The program is killed: what is not in a file is gone.                    *)
Quiet ==
    /\ screen' = "menu" /\ own' = [credits |-> 0, collection |-> None, tasks |-> {}]
    /\ mine' = None /\ deck' = None /\ shown' = "collection" /\ stock' = None /\ touched' = FALSE
    /\ board' = FALSE /\ menu' = NoMenu /\ again' = FALSE

Kill ==
    /\ screen # "menu" /\ Quiet /\ todo' = <<>> /\ UNCHANGED <<disk, save, acts>>

----------------------------------------------------------------------------
(* The player does one thing at a time, and a save ends before the next.    *)

At(s) == screen = s /\ todo = <<>>
Act == acts < MaxActs /\ acts' = acts + 1
Read == own' = [credits |-> Loaded.credits, collection |-> Loaded.collection, tasks |-> Loaded.tasks]

----------------------------------------------------------------------------
(* The shop.                                                                *)

EnterShop ==
    /\ At("menu") /\ Act /\ screen' = "shop" /\ Read /\ mine' = Loaded.collection
    /\ stock' = [c \in Cards |-> 1] /\ touched' = FALSE /\ board' = FALSE
    /\ UNCHANGED <<disk, deck, shown, menu, again>> /\ WriteNothing

(* Another look at the cards: load().                                       *)
Shuffle ==
    /\ At("shop") /\ Act /\ menu = NoMenu /\ stock' = [c \in Cards |-> 1]
    /\ UNCHANGED <<disk, screen, own, mine, deck, shown, touched, board, menu, again>> /\ WriteNothing

(* beginPurchase(), when there is one left and it can be paid.              *)
AskCard(c) ==
    /\ At("shop") /\ Act /\ menu = NoMenu /\ stock[c] > 0 /\ own.credits >= Price[c]
    /\ menu' = [kind |-> "card", card |-> c, yes |-> 0]
    /\ UNCHANGED <<disk, screen, own, mine, deck, shown, stock, touched, board, again>> /\ WriteNothing

AskBooster ==
    /\ At("shop") /\ Act /\ menu = NoMenu /\ own.credits >= BoosterPrice
    /\ menu' = [kind |-> "booster", yes |-> 0]
    /\ UNCHANGED <<disk, screen, own, mine, deck, shown, stock, touched, board, again>> /\ WriteNothing

(* Yes is heard until the menu is closed.                                   *)
Pressed(kind) ==
    /\ menu.kind = kind /\ menu.yes < MaxYes
    /\ menu' = [menu EXCEPT !.yes = @ + 1] /\ again' = (again \/ menu.yes > 0)

(* Mutant of PurchaseCard: what beginPurchase() found is relied upon.       *)
PurchaseCardUnchecked ==
    /\ At("shop") /\ Pressed("card")
    /\ LET c == menu.card
       IN /\ own' = [own EXCEPT !.credits = @ - Price[c]]
          /\ mine' = Plus(mine, c) /\ stock' = [stock EXCEPT ![c] = @ - 1] /\ touched' = TRUE
    /\ UNCHANGED <<disk, screen, deck, shown, board, acts>> /\ WriteNothing

(* purchaseCard().                                                          *)
PurchaseCard ==
    /\ At("shop") /\ Pressed("card") /\ own.credits >= Price[menu.card]
    /\ LET c == menu.card
       IN /\ own' = [own EXCEPT !.credits = @ - Price[c]]
          /\ mine' = Plus(mine, c) /\ stock' = [stock EXCEPT ![c] = @ - 1]
    /\ touched' = TRUE /\ UNCHANGED <<disk, screen, deck, shown, board, acts>> /\ WriteNothing

(* save(): the collection is made from what the shop shows.                 *)
Rebuilt(o, m) == [o EXCEPT !.collection = m]
ShopSaves(o, m) == own' = Rebuilt(o, m) /\ Write(SavePlayer(TRUE), Holds(own', Loaded.deck))

(* purchaseBooster(): saved at once.                                        *)
PurchaseBooster(c) ==
    /\ At("shop") /\ Pressed("booster") /\ own.credits >= BoosterPrice
    /\ mine' = Plus(mine, c) /\ touched' = FALSE
    /\ ShopSaves([own EXCEPT !.credits = @ - BoosterPrice], mine')
    /\ UNCHANGED <<disk, screen, deck, shown, stock, board, acts>>

(* The task board: its list is read from the file, which holds the tasks of *)
(* own as long as the player is in the shop.                                *)
OpenBoard ==
    /\ At("shop") /\ menu = NoMenu /\ ~board /\ board' = TRUE
    /\ UNCHANGED <<disk, screen, own, mine, deck, shown, stock, touched, menu, again, acts>>
    /\ WriteNothing

(* Save And Exit: the list of the board is saved whether something was      *)
(* bought or not, and before what was bought.                               *)
SaveShop ==
    /\ At("shop") /\ menu = NoMenu /\ (board \/ touched) /\ touched' = FALSE
    /\ own' = IF touched THEN Rebuilt(own, mine) ELSE own
    /\ Write((IF board THEN InPlace("tasks") ELSE <<>>)
                \o (IF touched THEN SavePlayer(TRUE) ELSE <<>>),
             IF touched THEN Holds(own', Loaded.deck) ELSE [Loaded EXCEPT !.tasks = own.tasks])
    /\ UNCHANGED <<disk, screen, mine, deck, shown, stock, board, menu, again, acts>>

(* End(), when the screen has faded: it listened until then.                *)
LeaveShop ==
    /\ At("shop")
    /\ IF touched
       THEN /\ ShopSaves(own, mine) /\ touched' = FALSE
            /\ UNCHANGED <<disk, screen, mine, deck, shown, stock, board, menu, again, acts>>
       ELSE Quiet /\ WriteNothing /\ UNCHANGED <<disk, acts>>

(* No, or the menu has closed.                                              *)
MenuCloses ==
    /\ todo = <<>> /\ menu # NoMenu /\ menu' = NoMenu
    /\ UNCHANGED <<disk, screen, own, mine, deck, shown, stock, touched, board, again, acts>> /\ WriteNothing

----------------------------------------------------------------------------
(* The deck editor.                                                         *)

EnterEditor ==
    /\ At("menu") /\ Act /\ screen' = "welcome" /\ Read /\ mine' = Loaded.collection
    /\ deck' = None /\ shown' = "collection"
    /\ UNCHANGED <<disk, stock, touched, board, menu, again>> /\ WriteNothing

(* Mutant of LoadDeck: the cards of the deck are not taken from the others. *)
LoadDeckAsIs ==
    /\ screen \in {"welcome", "editor"} /\ todo = <<>> /\ menu = NoMenu /\ Act
    /\ screen' = "editor" /\ shown' = "collection"
    /\ deck' = Loaded.deck /\ mine' = own.collection
    /\ UNCHANGED <<disk, own, stock, touched, board, menu, again>> /\ WriteNothing

(* loadDeck(): what is not in the collection leaves the deck.  The player   *)
(* may come back to it from the deck, whose changes are not saved then.     *)
LoadDeck ==
    /\ screen \in {"welcome", "editor"} /\ todo = <<>> /\ menu = NoMenu /\ Act
    /\ screen' = "editor" /\ shown' = "collection"
    /\ deck' = [c \in Cards |-> Min({Loaded.deck[c], own.collection[c]})]
    /\ mine' = Take(own.collection, deck')
    /\ UNCHANGED <<disk, own, stock, touched, board, menu, again>> /\ WriteNothing

(* switchDisplay().                                                         *)
SwitchDisplay ==
    /\ At("editor") /\ menu = NoMenu
    /\ shown' = IF shown = "deck" THEN "collection" ELSE "deck"
    /\ UNCHANGED <<disk, screen, own, mine, deck, stock, touched, board, menu, again, acts>> /\ WriteNothing

Displayed == IF shown = "deck" THEN deck ELSE mine

(* addRemove().                                                             *)
AddRemove(c) ==
    /\ At("editor") /\ Act /\ menu = NoMenu /\ Displayed[c] > 0
    /\ IF shown = "collection" THEN mine' = Minus(mine, c) /\ deck' = Plus(deck, c)
       ELSE deck' = Minus(deck, c) /\ mine' = Plus(mine, c)
    /\ UNCHANGED <<disk, screen, own, shown, stock, touched, board, menu, again>> /\ WriteNothing

(* sellCard().                                                              *)
AskSale(c) ==
    /\ At("editor") /\ Act /\ menu = NoMenu /\ Displayed[c] > 0
    /\ menu' = [kind |-> "sale", card |-> c, yes |-> 0]
    /\ UNCHANGED <<disk, screen, own, mine, deck, shown, stock, touched, board, again>> /\ WriteNothing

(* Mutant of Sell: only what is shown loses the card.                       *)
SellShown(c) ==
    /\ At("editor") /\ Pressed("sale")
    /\ Displayed[c] > 0 /\ (Displayed[menu.card] > 0 => c = menu.card)
    /\ own' = [own EXCEPT !.credits = @ + Price[menu.card]]
    /\ IF shown = "deck" THEN deck' = Minus(deck, c) /\ UNCHANGED mine
       ELSE mine' = Minus(mine, c) /\ UNCHANGED deck
    /\ UNCHANGED <<disk, screen, shown, stock, touched, board, acts>> /\ WriteNothing

(* The answer Yes sells the card c that is shown, for the price asked for.  *)
(* Once the last one of a kind is sold another card is shown in its place,  *)
(* and that is the one a second Yes sells.                                  *)
Sell(c) ==
    /\ At("editor") /\ Pressed("sale")
    /\ Displayed[c] > 0 /\ (Displayed[menu.card] > 0 => c = menu.card)
    /\ own' = [own EXCEPT !.credits = @ + Price[menu.card], !.collection = Minus(@, c)]
    /\ IF shown = "deck" THEN deck' = Minus(deck, c) /\ UNCHANGED mine
       ELSE mine' = Minus(mine, c) /\ UNCHANGED deck
    /\ UNCHANGED <<disk, screen, shown, stock, touched, board, acts>> /\ WriteNothing

(* saveDeck().                                                              *)
SaveDeck ==
    /\ At("editor") /\ Act /\ menu = NoMenu
    /\ Write(ViaTmp("deck") \o SavePlayer(TRUE), Holds(own, deck))
    /\ UNCHANGED <<disk, screen, own, mine, deck, shown, stock, touched, board, menu, again>>

(* End(): what was not saved is forgotten.                                  *)
LeaveEditor ==
    /\ screen \in {"welcome", "editor"} /\ todo = <<>> /\ Quiet /\ WriteNothing /\ UNCHANGED <<disk, acts>>

----------------------------------------------------------------------------
(* The end of a duel and of a story, with a PlayerData of their own.        *)

Ended == At("ending") /\ Quiet /\ WriteNothing /\ UNCHANGED <<disk, acts>>

Ending == /\ At("menu") /\ Act /\ screen' = "ending"
          /\ UNCHANGED <<disk, mine, deck, shown, stock, touched, board, menu, again>>

(* Credits::compute(): the tasks done are paid and removed, a day passes,   *)
(* and there may be new ones.                                               *)
WinDuel(done, expired, fresh) ==
    /\ Ending /\ done \subseteq Loaded.tasks /\ expired \subseteq Loaded.tasks \ done
    /\ fresh \cap Loaded.tasks = {}
    /\ own' = [credits |-> Loaded.credits + Reward * (1 + Cardinality(done)),
               collection |-> Loaded.collection,
               tasks |-> (Loaded.tasks \ (done \cup expired)) \cup fresh]
    /\ Write(SavePlayer(TRUE), Holds(own', Loaded.deck))

LoseDuel(expired) ==
    /\ Ending /\ expired \subseteq Loaded.tasks
    /\ own' = [credits |-> Loaded.credits, collection |-> Loaded.collection,
               tasks |-> Loaded.tasks \ expired]
    /\ Write(SavePlayer(TRUE), Holds(own', Loaded.deck))

(* Back to the main menu: only the tasks are saved.                         *)
QuitDuel(expired) ==
    /\ Ending /\ expired \subseteq Loaded.tasks
    /\ own' = [credits |-> Loaded.credits, collection |-> Loaded.collection,
               tasks |-> Loaded.tasks \ expired]
    /\ Write(InPlace("tasks"), Holds(own', Loaded.deck))

(* ~StoryFlow(): a PlayerData without a collection.                         *)
EndStory ==
    /\ Ending /\ Read /\ Write(SavePlayer(FALSE), Holds(own', Loaded.deck))

----------------------------------------------------------------------------
Start == [deck |-> None, credits |-> Default, collection |-> FirstDeck, tasks |-> {}]

Init ==
    /\ disk = [f \in Files \cup {Tmp(g) : g \in {"deck", "collection"}} |->
                 IF f = "collection" THEN Whole(Start) ELSE Absent]
    /\ screen = "menu" /\ own = [credits |-> 0, collection |-> None, tasks |-> {}]
    /\ mine = None /\ deck = None /\ shown = "collection" /\ stock = None /\ touched = FALSE /\ board = FALSE
    /\ menu = NoMenu /\ todo = <<>> /\ save = [last |-> Start, prev |-> Start, had |-> {"collection"}]
    /\ again = FALSE /\ acts = 0

Next ==
    \/ Step \/ Kill \/ MenuCloses
    \/ EnterShop \/ Shuffle \/ AskBooster \/ PurchaseCard \/ OpenBoard \/ SaveShop \/ LeaveShop
    \/ EnterEditor \/ LoadDeck \/ SwitchDisplay \/ SaveDeck \/ LeaveEditor
    \/ \E c \in Cards : AskCard(c) \/ PurchaseBooster(c) \/ AddRemove(c) \/ AskSale(c) \/ Sell(c)
    \/ Ended \/ EndStory
    \/ \E expired \in SUBSET Tasks :
          \/ LoseDuel(expired) \/ QuitDuel(expired)
          \/ \E done, fresh \in SUBSET Tasks : WinDuel(done, expired, fresh)

Spec == Init /\ [][Next]_vars

----------------------------------------------------------------------------
(* Properties.                                                              *)

TypeOK ==
    /\ \A f \in DOMAIN disk : disk[f].state \in {"absent", "empty", "whole"}
    /\ screen \in {"menu", "shop", "welcome", "editor", "ending"}
    /\ own.credits \in Int /\ {own.collection, mine, deck} \subseteq Bag /\ own.tasks \subseteq Tasks
    /\ stock \in [Cards -> Int] /\ {touched, board, again} \subseteq BOOLEAN

(* A player never owes credits, not even when Yes is pressed again while    *)
(* the menu that found the card affordable is closing.                      *)
NoDebt == own.credits >= 0 /\ Loaded.credits >= 0

(* Killed in the middle of a save, the files are those of two saves that    *)
(* follow each other, and what the save changes is changed in order: a      *)
(* reward is in the credits before its task is gone, a booster is paid      *)
(* before its cards are there.  A file that the save only writes again, as  *)
(* the tasks are in the shop, has no place in this order.                   *)
FilesInOrder ==
    LET Order == <<"deck", "credits", "collection", "tasks">>
        Old(f) == Loaded[f] = save.prev[f]
        New(f) == disk[f].state = "whole" /\ Part(f) = save.last[f]
        Changes(f) == save.last[f] # save.prev[f]
    IN \A i, j \in DOMAIN Order :
         /\ disk[Order[i]].state = "whole" => Old(Order[i]) \/ New(Order[i])
         /\ i < j /\ Changes(Order[i]) /\ Changes(Order[j]) /\ ~Old(Order[j]) => New(Order[i])

(* Whatever the steps of a save, also where a file is written twice, a kill *)
(* costs the player one of the files there were, never two.                 *)
OneFileLost ==
    \A f, g \in save.had : f # g => disk[f].state = "whole" \/ disk[g].state = "whole"

(* The collection is read back as it was or as it will be, but for one      *)
(* moment: removed, it is all in the .tmp.  The program does not read that  *)
(* file again, so to the player the cards are lost with a kill there.       *)
CardsSurvive ==
    "collection" \in save.had =>
      \/ /\ disk["collection"].state = "whole"
         /\ Part("collection") \in {save.prev.collection, save.last.collection}
      \/ /\ disk["collection"].state = "absent" /\ disk["collection.tmp"].state = "whole"
         /\ disk["collection.tmp"].data.collection = save.last.collection

(* The shop knows when there is something to save.                          *)
TouchedIfUnsaved ==
    At("shop") /\ ~touched => own.credits = Loaded.credits /\ mine = Loaded.collection

(* In the editor every card the player owns is in the deck or among the     *)
(* others, once.                                                            *)
EveryCardShown ==
    screen = "editor" /\ ~again =>
      \A c \in Cards : mine[c] + deck[c] = own.collection[c]

(* A card that is sold is gone for what it brings, whichever list it was    *)
(* sold from, whether the deck is saved or not.                             *)
Worth(o) == o.credits + SumFunction([c \in Cards |-> Price[c] * o.collection[c]])

FairSale ==
    screen = "editor" /\ todo = <<>> /\ ~again => Worth(own) = Worth(Loaded)

(* The shop sells what is paid for, and knows that it sold.                 *)
ShopKeepsBooks == TypeOK /\ NoDebt /\ TouchedIfUnsaved

(* A kill in the middle of a save leaves files that belong together, takes  *)
(* one of them at most, and the collection only at the moment it is renamed.*)
KilledSafely == FilesInOrder /\ OneFileLost /\ CardsSurvive

(* Deck and collection, cards and credits always add up in the editor.      *)
EditorKeepsBooks == EveryCardShown /\ FairSale
===============================================================================
