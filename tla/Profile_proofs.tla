--------------------------- MODULE Profile_proofs ---------------------------
(***************************************************************************)
(* What is proved of the player's profile, for any cards, prices, tasks    *)
(* and bounds: nobody owes credits, what the shop and the deck editor show *)
(* adds up with the files, and a program killed in the middle of a save    *)
(* leaves files that belong together.                                      *)
(*                                                                         *)
(* The invariant says how far a save is: for each list of steps that can   *)
(* be left (todo), which files are written, which one is being written and *)
(* which are as they were before (Stage), and that the player is shown     *)
(* what is in the files, or will be once the save is over.                 *)
(***************************************************************************)
EXTENDS Profile, Sums_proofs, SequenceTheorems

-----------------------------------------------------------------------------
(* Types.                                                                  *)

AllFiles == Files \cup {"deck.tmp", "collection.tmp"}
Data == [deck : Bag, credits : Nat, collection : Bag, tasks : SUBSET Tasks]
FileState == [state : {"absent", "empty"}] \cup [state : {"whole"}, data : Data]

DiskTyped == disk \in [AllFiles -> FileState]
SaveTyped == save \in [last : Data, prev : Data, had : SUBSET Files]
OwnTyped  == own \in [credits : Nat, collection : Bag, tasks : SUBSET Tasks]
ListsTyped ==
  /\ mine \in Bag /\ deck \in Bag /\ shown \in {"collection", "deck"}
  /\ stock \in [Cards -> Int] /\ touched \in BOOLEAN /\ board \in BOOLEAN
  /\ again \in BOOLEAN
ScreenTyped ==
  /\ screen \in {"menu", "shop", "welcome", "editor", "ending"}
  /\ menu \in {NoMenu} \cup [kind : {"card", "sale"}, card : Cards, yes : Nat]
              \cup [kind : {"booster"}, yes : Nat]
  /\ screen \in {"menu", "welcome", "ending"} => menu = NoMenu

Typed == DiskTyped /\ SaveTyped /\ OwnTyped /\ ListsTyped /\ ScreenTyped

-----------------------------------------------------------------------------
(* How far a save is.                                                      *)

Old(f)  == Loaded[f] = save.prev[f]
New(f)  == disk[f].state = "whole" /\ Part(f) = save.last[f]
Same(f) == save.last[f] = save.prev[f]
Gone(f) == disk[f].state # "whole"
Done(f) == New(f) \/ (Old(f) /\ Same(f))
Written(f) == disk[Tmp(f)].state = "whole" /\ disk[Tmp(f)].data = save.last

(* The collection is being renamed.                                        *)
Moving == Written("collection") /\ disk["collection"].state = "absent"

(* The files of D are written, those of R are not yet touched.             *)
Progress(D, R) ==
  /\ \A f \in D : Done(f)
  /\ \A f \in R : Old(f)
  /\ \A f \in Files \ (D \cup R) : Gone(f)
  /\ \A f \in D \cup R : f \in save.had => disk[f].state = "whole"

(* The steps that are left, from the last to the first.                    *)
Cons(x, s) == <<x>> \o s
Tasks1 == Cons(<<"close", "tasks">>, <<>>)
Tasks2 == Cons(<<"open", "tasks">>, Tasks1)
Cards1 == Cons(<<"rename", "collection">>, Tasks2)
Cards2 == Cons(<<"remove", "collection">>, Cards1)
Cards3 == Cons(<<"close", "collection.tmp">>, Cards2)
Cards4 == Cons(<<"open", "collection.tmp">>, Cards3)
Money1 == Cons(<<"close", "credits">>, Cards4)
Money2 == Cons(<<"open", "credits">>, Money1)
Story1 == Cons(<<"close", "credits">>, Tasks2)
Story2 == Cons(<<"open", "credits">>, Story1)
Board1 == Cons(<<"close", "tasks">>, Money2)
Board2 == Cons(<<"open", "tasks">>, Board1)
Deck1  == Cons(<<"rename", "deck">>, Money2)
Deck2  == Cons(<<"remove", "deck">>, Deck1)
Deck3  == Cons(<<"close", "deck.tmp">>, Deck2)
Deck4  == Cons(<<"open", "deck.tmp">>, Deck3)

Stage ==
  \/ todo = <<>>
  \/ todo \in {Deck4, Deck3} /\ Progress({}, Files)
  \/ todo = Deck2 /\ Progress({}, Files) /\ Written("deck")
  \/ todo = Deck1 /\ Progress({}, Files \ {"deck"}) /\ Written("deck")
  \/ todo = Money2 /\ Progress({"deck"}, {"credits", "collection", "tasks"})
  \/ todo = Money1 /\ Progress({"deck"}, {"collection", "tasks"})
  \/ todo \in {Cards4, Cards3} /\ Progress({"deck", "credits"}, {"collection", "tasks"})
  \/ todo = Cards2 /\ Progress({"deck", "credits"}, {"collection", "tasks"}) /\ Written("collection")
  \/ todo = Cards1 /\ Progress({"deck", "credits"}, {"tasks"}) /\ Moving
  \/ todo = Board2 /\ Progress({"deck"}, {"credits", "collection", "tasks"}) /\ Same("tasks")
  \/ todo = Board1 /\ Progress({"deck"}, {"credits", "collection"}) /\ Same("tasks")
  \/ todo = Story2 /\ Progress({"deck"}, {"credits", "collection", "tasks"}) /\ Same("collection")
  \/ todo = Story1 /\ Progress({"deck"}, {"collection", "tasks"}) /\ Same("collection")
  \/ todo = Tasks2 /\ Progress({"deck", "credits", "collection"}, {"tasks"})
  \/ todo = Tasks1 /\ Progress({"deck", "credits", "collection"}, {})

(* What the player is shown is what is in the files, or will be; and the   *)
(* shop never changes the tasks.                                           *)
ShopBooks ==
  /\ screen = "shop" /\ ~touched =>
       IF todo = <<>> THEN own.credits = Loaded.credits /\ mine = Loaded.collection
       ELSE own.credits = save.last.credits /\ mine = save.last.collection
  /\ screen = "shop" =>
       own.tasks = IF todo = <<>> THEN Loaded.tasks ELSE save.last.tasks

EditorBooks ==
  screen \in {"welcome", "editor"} /\ ~again =>
    IF todo = <<>> THEN Worth(own) = Worth(Loaded)
    ELSE own.credits = save.last.credits /\ own.collection = save.last.collection

SaleShown == menu # NoMenu /\ menu.kind = "sale" /\ menu.yes = 0 => Displayed[menu.card] > 0

IInv ==
  /\ Typed /\ Stage /\ KilledSafely
  /\ ShopBooks /\ EditorBooks /\ EveryCardShown /\ SaleShown

-----------------------------------------------------------------------------
(* The lists of steps.                                                     *)

StepOf == {"open", "close", "remove", "rename"} \X AllFiles

(* The first step and the others.                                          *)
LEMMA ConsParts ==
  ASSUME NEW S, NEW x \in S, NEW s \in Seq(S)
  PROVE  /\ Cons(x, s) \in Seq(S) /\ Cons(x, s) # <<>>
         /\ Head(Cons(x, s)) = x /\ Tail(Cons(x, s)) = s
<1>1. <<x>> \in Seq(S) /\ Len(<<x>>) = 1 /\ <<x>>[1] = x
  OBVIOUS
<1>2. /\ Cons(x, s) \in Seq(S) /\ Len(Cons(x, s)) = 1 + Len(s)
      /\ \A i \in 1..(1 + Len(s)) : Cons(x, s)[i] = IF i <= 1 THEN <<x>>[i] ELSE s[i - 1]
  BY <1>1, ConcatProperties DEF Cons
<1>3. Cons(x, s) # <<>>
  BY <1>2, LenProperties
<1>4. Head(Cons(x, s)) = x
  BY <1>1, <1>2, <1>3, LenProperties
<1>5. Tail(Cons(x, s)) = s
  <2>1. /\ Tail(Cons(x, s)) \in Seq(S) /\ Len(Tail(Cons(x, s))) = Len(s)
        /\ \A i \in 1..Len(s) : Tail(Cons(x, s))[i] = Cons(x, s)[i + 1]
    BY <1>2, <1>3, HeadTailProperties, LenProperties
  <2>2. \A i \in 1..Len(s) : Tail(Cons(x, s))[i] = s[i]
    BY <1>2, <2>1, LenProperties
  <2> QED BY <2>1, <2>2, SeqEqual
<1> QED
  BY <1>2, <1>3, <1>4, <1>5

(* Every list that is left, by its first step and the rest.                *)
LEMMA Chain ==
  /\ Tasks1 # <<>> /\ Head(Tasks1) = <<"close", "tasks">> /\ Tail(Tasks1) = <<>>
  /\ Tasks2 # <<>> /\ Head(Tasks2) = <<"open", "tasks">> /\ Tail(Tasks2) = Tasks1
  /\ Cards1 # <<>> /\ Head(Cards1) = <<"rename", "collection">> /\ Tail(Cards1) = Tasks2
  /\ Cards2 # <<>> /\ Head(Cards2) = <<"remove", "collection">> /\ Tail(Cards2) = Cards1
  /\ Cards3 # <<>> /\ Head(Cards3) = <<"close", "collection.tmp">> /\ Tail(Cards3) = Cards2
  /\ Cards4 # <<>> /\ Head(Cards4) = <<"open", "collection.tmp">> /\ Tail(Cards4) = Cards3
  /\ Money1 # <<>> /\ Head(Money1) = <<"close", "credits">> /\ Tail(Money1) = Cards4
  /\ Money2 # <<>> /\ Head(Money2) = <<"open", "credits">> /\ Tail(Money2) = Money1
  /\ Story1 # <<>> /\ Head(Story1) = <<"close", "credits">> /\ Tail(Story1) = Tasks2
  /\ Story2 # <<>> /\ Head(Story2) = <<"open", "credits">> /\ Tail(Story2) = Story1
  /\ Board1 # <<>> /\ Head(Board1) = <<"close", "tasks">> /\ Tail(Board1) = Money2
  /\ Board2 # <<>> /\ Head(Board2) = <<"open", "tasks">> /\ Tail(Board2) = Board1
  /\ Deck1 # <<>> /\ Head(Deck1) = <<"rename", "deck">> /\ Tail(Deck1) = Money2
  /\ Deck2 # <<>> /\ Head(Deck2) = <<"remove", "deck">> /\ Tail(Deck2) = Deck1
  /\ Deck3 # <<>> /\ Head(Deck3) = <<"close", "deck.tmp">> /\ Tail(Deck3) = Deck2
  /\ Deck4 # <<>> /\ Head(Deck4) = <<"open", "deck.tmp">> /\ Tail(Deck4) = Deck3
  /\ Tasks1 \in Seq(StepOf) /\ Tasks2 \in Seq(StepOf)
  /\ Cards1 \in Seq(StepOf) /\ Cards2 \in Seq(StepOf)
  /\ Cards3 \in Seq(StepOf) /\ Cards4 \in Seq(StepOf)
  /\ Money1 \in Seq(StepOf) /\ Money2 \in Seq(StepOf)
  /\ Deck1 \in Seq(StepOf) /\ Deck2 \in Seq(StepOf)
<1>0. /\ <<"open", "tasks">> \in StepOf /\ <<"close", "tasks">> \in StepOf
      /\ <<"rename", "collection">> \in StepOf /\ <<"remove", "collection">> \in StepOf
      /\ <<"close", "collection.tmp">> \in StepOf /\ <<"open", "collection.tmp">> \in StepOf
      /\ <<"close", "credits">> \in StepOf /\ <<"open", "credits">> \in StepOf
      /\ <<"rename", "deck">> \in StepOf /\ <<"remove", "deck">> \in StepOf
      /\ <<"close", "deck.tmp">> \in StepOf /\ <<"open", "deck.tmp">> \in StepOf
  BY DEF StepOf, AllFiles, Files
<1>c. ASSUME NEW x \in StepOf, NEW s \in Seq(StepOf)
      PROVE  /\ Cons(x, s) \in Seq(StepOf) /\ Cons(x, s) # <<>>
             /\ Head(Cons(x, s)) = x /\ Tail(Cons(x, s)) = s
  BY ConsParts
<1>1. /\ Tasks1 \in Seq(StepOf) /\ Tasks1 # <<>>
      /\ Head(Tasks1) = <<"close", "tasks">> /\ Tail(Tasks1) = <<>>
  <2>1. <<>> \in Seq(StepOf)
    OBVIOUS
  <2> QED BY <1>0, <1>c, <2>1 DEF Tasks1
<1>2. /\ Tasks2 \in Seq(StepOf) /\ Tasks2 # <<>>
      /\ Head(Tasks2) = <<"open", "tasks">> /\ Tail(Tasks2) = Tasks1
  BY <1>0, <1>c, <1>1 DEF Tasks2
<1>3. /\ Cards1 \in Seq(StepOf) /\ Cards1 # <<>>
      /\ Head(Cards1) = <<"rename", "collection">> /\ Tail(Cards1) = Tasks2
  BY <1>0, <1>c, <1>2 DEF Cards1
<1>4. /\ Cards2 \in Seq(StepOf) /\ Cards2 # <<>>
      /\ Head(Cards2) = <<"remove", "collection">> /\ Tail(Cards2) = Cards1
  BY <1>0, <1>c, <1>3 DEF Cards2
<1>5. /\ Cards3 \in Seq(StepOf) /\ Cards3 # <<>>
      /\ Head(Cards3) = <<"close", "collection.tmp">> /\ Tail(Cards3) = Cards2
  BY <1>0, <1>c, <1>4 DEF Cards3
<1>6. /\ Cards4 \in Seq(StepOf) /\ Cards4 # <<>>
      /\ Head(Cards4) = <<"open", "collection.tmp">> /\ Tail(Cards4) = Cards3
  BY <1>0, <1>c, <1>5 DEF Cards4
<1>7. /\ Money1 \in Seq(StepOf) /\ Money1 # <<>>
      /\ Head(Money1) = <<"close", "credits">> /\ Tail(Money1) = Cards4
  BY <1>0, <1>c, <1>6 DEF Money1
<1>8. /\ Money2 \in Seq(StepOf) /\ Money2 # <<>>
      /\ Head(Money2) = <<"open", "credits">> /\ Tail(Money2) = Money1
  BY <1>0, <1>c, <1>7 DEF Money2
<1>9. /\ Story1 \in Seq(StepOf) /\ Story1 # <<>>
      /\ Head(Story1) = <<"close", "credits">> /\ Tail(Story1) = Tasks2
  BY <1>0, <1>c, <1>2 DEF Story1
<1>10. /\ Story2 \in Seq(StepOf) /\ Story2 # <<>>
       /\ Head(Story2) = <<"open", "credits">> /\ Tail(Story2) = Story1
  BY <1>0, <1>c, <1>9 DEF Story2
<1>11. /\ Deck1 \in Seq(StepOf) /\ Deck1 # <<>>
       /\ Head(Deck1) = <<"rename", "deck">> /\ Tail(Deck1) = Money2
  BY <1>0, <1>c, <1>8 DEF Deck1
<1>12. /\ Deck2 \in Seq(StepOf) /\ Deck2 # <<>>
       /\ Head(Deck2) = <<"remove", "deck">> /\ Tail(Deck2) = Deck1
  BY <1>0, <1>c, <1>11 DEF Deck2
<1>13. /\ Deck3 \in Seq(StepOf) /\ Deck3 # <<>>
       /\ Head(Deck3) = <<"close", "deck.tmp">> /\ Tail(Deck3) = Deck2
  BY <1>0, <1>c, <1>12 DEF Deck3
<1>14. /\ Deck4 # <<>> /\ Head(Deck4) = <<"open", "deck.tmp">> /\ Tail(Deck4) = Deck3
  BY <1>0, <1>c, <1>13 DEF Deck4
<1>15. /\ Board1 \in Seq(StepOf) /\ Board1 # <<>>
       /\ Head(Board1) = <<"close", "tasks">> /\ Tail(Board1) = Money2
  BY <1>0, <1>c, <1>8 DEF Board1
<1>16. /\ Board2 # <<>> /\ Head(Board2) = <<"open", "tasks">> /\ Tail(Board2) = Board1
  BY <1>0, <1>c, <1>15 DEF Board2
<1> QED
  BY <1>1, <1>2, <1>3, <1>4, <1>5, <1>6, <1>7, <1>8, <1>9, <1>10, <1>11, <1>12, <1>13, <1>14,
     <1>15, <1>16

Two(a, b) == <<a, b>>
Before(r, s) == r \o s

(* Two steps before others.                                                *)
LEMMA ConsTwo ==
  ASSUME NEW S, NEW a \in S, NEW b \in S, NEW s \in Seq(S)
  PROVE  Before(Two(a, b), s) = Cons(a, Cons(b, s)) /\ Two(a, b) \in Seq(S)
<1>1. <<a>> \in Seq(S) /\ <<b>> \in Seq(S) /\ <<a, b>> \in Seq(S)
  OBVIOUS
<1>2. <<a>> \o <<b>> = <<a, b>>
  <2>1. /\ <<a>> \o <<b>> \in Seq(S) /\ Len(<<a>> \o <<b>>) = 2
        /\ \A i \in 1..2 : (<<a>> \o <<b>>)[i] = <<a, b>>[i]
    BY <1>1, ConcatProperties, SMT
  <2> QED BY <1>1, <2>1, SeqEqual
<1>3. (<<a>> \o <<b>>) \o s = <<a>> \o (<<b>> \o s)
  BY <1>1, ConcatAssociative
<1> QED
  BY <1>1, <1>2, <1>3 DEF Cons, Two, Before

(* Lists one after the other.                                              *)
LEMMA BeforeBefore ==
  ASSUME NEW S, NEW r \in Seq(S), NEW s \in Seq(S), NEW t \in Seq(S)
  PROVE  /\ Before(Before(r, s), t) = Before(r, Before(s, t))
         /\ Before(r, s) \in Seq(S) /\ Before(r, <<>>) = r
<1>1. r \o s \in Seq(S)
  BY ConcatProperties
<1> QED
  BY <1>1, ConcatAssociative, ConcatEmptySeq DEF Before

(* What a save begins with.                                                *)
LEMMA Saves ==
  /\ InPlace("tasks") = Tasks2
  /\ SavePlayer(FALSE) = Story2
  /\ SavePlayer(TRUE) = Money2
  /\ ViaTmp("deck") \o SavePlayer(TRUE) = Deck4
  /\ InPlace("tasks") \o SavePlayer(TRUE) = Board2
  /\ InPlace("tasks") \o <<>> = Tasks2
  /\ <<>> \o SavePlayer(TRUE) = Money2
<1> DEFINE O(f) == <<"open", f>>     C(f) == <<"close", f>>
           D(f) == <<"remove", f>>   N(f) == <<"rename", f>>
<1>1. \A f \in AllFiles : O(f) \in StepOf /\ C(f) \in StepOf /\ D(f) \in StepOf /\ N(f) \in StepOf
  BY DEF StepOf
<1>2. /\ InPlace("tasks") = Two(O("tasks"), C("tasks"))
      /\ InPlace("credits") = Two(O("credits"), C("credits"))
      /\ ViaTmp("collection") = Before(Two(O("collection.tmp"), C("collection.tmp")),
                                       Two(D("collection"), N("collection")))
      /\ ViaTmp("deck") = Before(Two(O("deck.tmp"), C("deck.tmp")), Two(D("deck"), N("deck")))
  BY DEF InPlace, ViaTmp, Tmp, Two, Before
<1>3. /\ Tasks1 = Cons(C("tasks"), <<>>) /\ Tasks2 = Cons(O("tasks"), Tasks1)
      /\ Cards1 = Cons(N("collection"), Tasks2) /\ Cards2 = Cons(D("collection"), Cards1)
      /\ Cards3 = Cons(C("collection.tmp"), Cards2) /\ Cards4 = Cons(O("collection.tmp"), Cards3)
      /\ Money1 = Cons(C("credits"), Cards4) /\ Money2 = Cons(O("credits"), Money1)
      /\ Story1 = Cons(C("credits"), Tasks2) /\ Story2 = Cons(O("credits"), Story1)
      /\ Deck1 = Cons(N("deck"), Money2) /\ Deck2 = Cons(D("deck"), Deck1)
      /\ Deck3 = Cons(C("deck.tmp"), Deck2) /\ Deck4 = Cons(O("deck.tmp"), Deck3)
      /\ Board1 = Cons(C("tasks"), Money2) /\ Board2 = Cons(O("tasks"), Board1)
  BY DEF Tasks1, Tasks2, Cards1, Cards2, Cards3, Cards4, Money1, Money2, Story1, Story2,
         Deck1, Deck2, Deck3, Deck4, Board1, Board2
<1> HIDE DEF O, C, D, N
<1>4. /\ "tasks" \in AllFiles /\ "credits" \in AllFiles
      /\ "collection.tmp" \in AllFiles /\ "collection" \in AllFiles
      /\ "deck.tmp" \in AllFiles /\ "deck" \in AllFiles
  BY DEF AllFiles, Files
<1>5. /\ Tasks2 \in Seq(StepOf) /\ Cards2 \in Seq(StepOf) /\ Cards4 \in Seq(StepOf)
      /\ Money2 \in Seq(StepOf) /\ Deck2 \in Seq(StepOf) /\ <<>> \in Seq(StepOf)
  BY Chain
<1>c. ASSUME NEW a \in StepOf, NEW b \in StepOf, NEW s \in Seq(StepOf)
      PROVE  Before(Two(a, b), s) = Cons(a, Cons(b, s)) /\ Two(a, b) \in Seq(StepOf)
  BY ConsTwo
<1>b. ASSUME NEW r \in Seq(StepOf), NEW s \in Seq(StepOf), NEW t \in Seq(StepOf)
      PROVE  /\ Before(Before(r, s), t) = Before(r, Before(s, t))
             /\ Before(r, s) \in Seq(StepOf) /\ Before(r, <<>>) = r
  BY BeforeBefore
<1>6. Before(Two(O("tasks"), C("tasks")), <<>>) = Tasks2
  <2>1. O("tasks") \in StepOf /\ C("tasks") \in StepOf
    BY <1>1, <1>4
  <2>2. Before(Two(O("tasks"), C("tasks")), <<>>) = Cons(O("tasks"), Cons(C("tasks"), <<>>))
    BY <2>1, <1>5, <1>c
  <2> QED BY <1>3, <2>2
<1>t. Before(Two(O("tasks"), C("tasks")), Money2) = Board2
  <2>1. O("tasks") \in StepOf /\ C("tasks") \in StepOf
    BY <1>1, <1>4
  <2>2. Before(Two(O("tasks"), C("tasks")), Money2) = Cons(O("tasks"), Cons(C("tasks"), Money2))
    BY <2>1, <1>5, <1>c
  <2> QED BY <1>3, <2>2
<1>7. Before(Two(O("credits"), C("credits")), Tasks2) = Story2
  <2>1. O("credits") \in StepOf /\ C("credits") \in StepOf
    BY <1>1, <1>4
  <2>2. Before(Two(O("credits"), C("credits")), Tasks2) = Cons(O("credits"), Cons(C("credits"), Tasks2))
    BY <2>1, <1>5, <1>c
  <2> QED BY <1>3, <2>2
<1>8. Before(Two(O("credits"), C("credits")), Cards4) = Money2
  <2>1. O("credits") \in StepOf /\ C("credits") \in StepOf
    BY <1>1, <1>4
  <2>2. Before(Two(O("credits"), C("credits")), Cards4) = Cons(O("credits"), Cons(C("credits"), Cards4))
    BY <2>1, <1>5, <1>c
  <2> QED BY <1>3, <2>2
<1>9. /\ Before(Two(D("collection"), N("collection")), Tasks2) = Cards2
      /\ Before(Two(O("collection.tmp"), C("collection.tmp")), Cards2) = Cards4
  <2>1. /\ D("collection") \in StepOf /\ N("collection") \in StepOf
        /\ O("collection.tmp") \in StepOf /\ C("collection.tmp") \in StepOf
    BY <1>1, <1>4
  <2>2. Before(Two(D("collection"), N("collection")), Tasks2)
          = Cons(D("collection"), Cons(N("collection"), Tasks2))
    BY <2>1, <1>5, <1>c
  <2>3. Before(Two(O("collection.tmp"), C("collection.tmp")), Cards2)
          = Cons(O("collection.tmp"), Cons(C("collection.tmp"), Cards2))
    BY <2>1, <1>5, <1>c
  <2> QED BY <1>3, <2>2, <2>3
<1>10. /\ Before(Two(D("deck"), N("deck")), Money2) = Deck2
       /\ Before(Two(O("deck.tmp"), C("deck.tmp")), Deck2) = Deck4
  <2>1. /\ D("deck") \in StepOf /\ N("deck") \in StepOf
        /\ O("deck.tmp") \in StepOf /\ C("deck.tmp") \in StepOf
    BY <1>1, <1>4
  <2>2. Before(Two(D("deck"), N("deck")), Money2) = Cons(D("deck"), Cons(N("deck"), Money2))
    BY <2>1, <1>5, <1>c
  <2>3. Before(Two(O("deck.tmp"), C("deck.tmp")), Deck2)
          = Cons(O("deck.tmp"), Cons(C("deck.tmp"), Deck2))
    BY <2>1, <1>5, <1>c
  <2> QED BY <1>3, <2>2, <2>3
<1>11. \A f \in AllFiles :
            Two(O(f), C(f)) \in Seq(StepOf) /\ Two(D(f), N(f)) \in Seq(StepOf)
  <2>1. ASSUME NEW f \in AllFiles
        PROVE  Two(O(f), C(f)) \in Seq(StepOf) /\ Two(D(f), N(f)) \in Seq(StepOf)
    <3>1. O(f) \in StepOf /\ C(f) \in StepOf /\ D(f) \in StepOf /\ N(f) \in StepOf
      BY <1>1, <2>1
    <3> QED BY <1>5, <1>c, <3>1
  <2> QED BY <2>1
<1> DEFINE WriteTasks == Two(O("tasks"), C("tasks"))
           WriteCredits == Two(O("credits"), C("credits"))
           WriteCards == Two(O("collection.tmp"), C("collection.tmp"))
           MoveCards == Two(D("collection"), N("collection"))
           WriteDeck == Two(O("deck.tmp"), C("deck.tmp"))
           MoveDeck == Two(D("deck"), N("deck"))
<1>12. /\ WriteTasks \in Seq(StepOf) /\ WriteCredits \in Seq(StepOf) /\ WriteCards \in Seq(StepOf)
       /\ MoveCards \in Seq(StepOf) /\ WriteDeck \in Seq(StepOf) /\ MoveDeck \in Seq(StepOf)
  BY <1>4, <1>11
<1>13. /\ InPlace("tasks") = WriteTasks /\ InPlace("credits") = WriteCredits
       /\ ViaTmp("collection") = Before(WriteCards, MoveCards)
       /\ ViaTmp("deck") = Before(WriteDeck, MoveDeck)
  BY <1>2
<1>14. /\ Before(WriteTasks, Money2) = Board2
       /\ Before(WriteTasks, <<>>) = Tasks2 /\ Before(WriteCredits, Tasks2) = Story2
       /\ Before(WriteCredits, Cards4) = Money2
       /\ Before(MoveCards, Tasks2) = Cards2 /\ Before(WriteCards, Cards2) = Cards4
       /\ Before(MoveDeck, Money2) = Deck2 /\ Before(WriteDeck, Deck2) = Deck4
  BY <1>6, <1>7, <1>8, <1>9, <1>10, <1>t
<1> HIDE DEF WriteTasks, WriteCredits, WriteCards, MoveCards, WriteDeck, MoveDeck
<1>15. WriteTasks = Tasks2
  BY <1>5, <1>12, <1>14, <1>b
<1>16. SavePlayer(FALSE) = Story2
  <2>1. SavePlayer(FALSE) = Before(Before(WriteCredits, <<>>), WriteTasks)
    BY <1>13 DEF SavePlayer, Before
  <2>2. Before(WriteCredits, <<>>) = WriteCredits
    BY <1>5, <1>12, <1>b
  <2> QED BY <1>14, <1>15, <2>1, <2>2
<1>17. SavePlayer(TRUE) = Money2
  <2>1. SavePlayer(TRUE) = Before(Before(WriteCredits, Before(WriteCards, MoveCards)), WriteTasks)
    BY <1>13 DEF SavePlayer, Before
  <2>2. Before(WriteCards, MoveCards) \in Seq(StepOf)
    BY <1>12, <1>b
  <2>3. Before(Before(WriteCredits, Before(WriteCards, MoveCards)), Tasks2)
          = Before(WriteCredits, Before(Before(WriteCards, MoveCards), Tasks2))
    BY <1>5, <1>12, <2>2, <1>b
  <2>4. Before(Before(WriteCards, MoveCards), Tasks2) = Before(WriteCards, Before(MoveCards, Tasks2))
    BY <1>5, <1>12, <1>b
  <2> QED BY <1>14, <1>15, <2>1, <2>3, <2>4
<1>18. ViaTmp("deck") \o SavePlayer(TRUE) = Deck4
  <2>1. ViaTmp("deck") \o SavePlayer(TRUE) = Before(Before(WriteDeck, MoveDeck), Money2)
    BY <1>13, <1>17 DEF Before
  <2>2. Before(Before(WriteDeck, MoveDeck), Money2) = Before(WriteDeck, Before(MoveDeck, Money2))
    BY <1>5, <1>12, <1>b
  <2> QED BY <1>14, <2>1, <2>2
<1>19. /\ InPlace("tasks") \o SavePlayer(TRUE) = Board2
       /\ InPlace("tasks") \o <<>> = Tasks2
  BY <1>13, <1>14, <1>17 DEF Before
<1>20. <<>> \o SavePlayer(TRUE) = Money2
  BY <1>5, <1>17, ConcatEmptySeq
<1> QED
  BY <1>13, <1>15, <1>16, <1>17, <1>18, <1>19, <1>20

-----------------------------------------------------------------------------
(* The files, one by one.                                                  *)

Blank == [deck |-> None, credits |-> Default, collection |-> None, tasks |-> {}]

(* What is read from a file, before and after a step.                      *)
LEMMA LoadedFrom ==
  ASSUME NEW f \in Files
  PROVE  /\ Loaded[f] = IF disk[f].state = "whole" THEN disk[f].data[f] ELSE Blank[f]
         /\ Loaded'[f] = IF disk'[f].state = "whole" THEN disk'[f].data[f] ELSE Blank[f]
<1>1. CASE f = "deck"
  BY <1>1 DEF Loaded, Part, Blank
<1>2. CASE f = "credits"
  BY <1>2 DEF Loaded, Part, Blank
<1>3. CASE f = "collection"
  BY <1>3 DEF Loaded, Part, Blank
<1>4. CASE f = "tasks"
  BY <1>4 DEF Loaded, Part, Blank
<1> QED
  BY <1>1, <1>2, <1>3, <1>4 DEF Files

Kept(f) == disk'[f] = disk[f]

(* A file that a step leaves alone is what it was.                         *)
LEMMA FileKept ==
  ASSUME NEW f \in Files, Kept(f), save' = save
  PROVE  /\ Old(f)' <=> Old(f)
         /\ New(f)' <=> New(f)
         /\ Done(f)' <=> Done(f)
         /\ Gone(f)' <=> Gone(f)
<1>1. Loaded'[f] = Loaded[f]
  BY LoadedFrom DEF Kept
<1> QED
  BY <1>1 DEF Kept, Old, New, Done, Same, Gone, Part

(* A step on a file of its own, or one that leaves all files alone.        *)
LEMMA ProgressKept ==
  ASSUME NEW D \in SUBSET Files, NEW R \in SUBSET Files, Progress(D, R),
         save' = save, \A f \in Files : Kept(f)
  PROVE  Progress(D, R)'
<1>1. \A f \in Files : (Old(f)' <=> Old(f)) /\ (Done(f)' <=> Done(f)) /\ (Gone(f)' <=> Gone(f))
  BY FileKept
<1>2. \A f \in D \cup R : disk'[f] = disk[f]
  BY DEF Kept
<1> QED
  BY <1>1, <1>2 DEF Progress

(* A file is emptied, or removed.                                          *)
LEMMA ProgressOpens ==
  ASSUME NEW D \in SUBSET Files, NEW R \in SUBSET Files, NEW g \in R, g \notin D,
         Progress(D, R), save' = save, \A f \in Files \ {g} : Kept(f), Gone(g)'
  PROVE  Progress(D, R \ {g})'
<1>1. \A f \in Files \ {g} :
        (Old(f)' <=> Old(f)) /\ (Done(f)' <=> Done(f)) /\ (Gone(f)' <=> Gone(f))
  BY FileKept
<1>2. \A f \in D \cup (R \ {g}) : disk'[f] = disk[f]
  BY DEF Kept
<1> QED
  BY <1>1, <1>2 DEF Progress

(* A file is written, or put in its place.                                 *)
LEMMA ProgressCloses ==
  ASSUME NEW D \in SUBSET Files, NEW R \in SUBSET Files, NEW g \in Files, g \notin R,
         Progress(D, R), save' = save, \A f \in Files \ {g} : Kept(f), New(g)'
  PROVE  Progress(D \cup {g}, R)'
<1>1. \A f \in Files \ {g} :
        (Old(f)' <=> Old(f)) /\ (Done(f)' <=> Done(f)) /\ (Gone(f)' <=> Gone(f))
  BY FileKept
<1>2. \A f \in (D \cup R) \ {g} : disk'[f] = disk[f]
  BY DEF Kept
<1>3. disk'[g].state = "whole"
  BY DEF New
<1>4. Done(g)'
  BY DEF Done
<1> QED
  BY <1>1, <1>2, <1>3, <1>4 DEF Progress

-----------------------------------------------------------------------------
(* The steps of a save.                                                    *)

(* Opening empties a file and leaves the others.                           *)
LEMMA OpenDoes ==
  ASSUME DiskTyped, Step, NEW x \in AllFiles, Head(todo) = <<"open", x>>
  PROVE  /\ save' = save /\ todo' = Tail(todo)
         /\ \A y \in AllFiles \ {x} : Kept(y)
         /\ Gone(x)'
BY DEF DiskTyped, Step, Kept, Gone

(* Closing makes a file whole.                                             *)
LEMMA CloseDoes ==
  ASSUME DiskTyped, Step, NEW x \in AllFiles, Head(todo) = <<"close", x>>
  PROVE  /\ save' = save /\ todo' = Tail(todo)
         /\ \A y \in AllFiles \ {x} : Kept(y)
         /\ disk'[x] = Whole(save.last)
         /\ x \in Files => New(x)'
<1>1. /\ save' = save /\ todo' = Tail(todo)
      /\ \A y \in AllFiles \ {x} : Kept(y)
      /\ disk'[x] = Whole(save.last)
  BY DEF DiskTyped, Step, Kept
<1> QED
  BY <1>1 DEF New, Part, Whole

(* Removing.                                                               *)
LEMMA RemoveDoes ==
  ASSUME DiskTyped, Step, NEW x \in AllFiles, Head(todo) = <<"remove", x>>
  PROVE  /\ save' = save /\ todo' = Tail(todo)
         /\ \A y \in AllFiles \ {x} : Kept(y)
         /\ Gone(x)' /\ disk'[x].state = "absent"
BY DEF DiskTyped, Step, Kept, Gone, Absent

(* What is renamed was written whole.                                      *)
LEMMA RenameDoes ==
  ASSUME DiskTyped, Step, NEW x \in {"deck", "collection"}, Head(todo) = <<"rename", x>>, Written(x)
  PROVE  /\ save' = save /\ todo' = Tail(todo)
         /\ \A y \in Files \ {x} : Kept(y)
         /\ New(x)'
<1>1. /\ Tmp(x) \in AllFiles \ Files /\ x \in AllFiles
      /\ Files \subseteq AllFiles
  BY DEF Tmp, AllFiles, Files
<1>2. /\ save' = save /\ todo' = Tail(todo)
      /\ disk' = [disk EXCEPT ![x] = disk[Tmp(x)], ![Tmp(x)] = Absent]
  <2>1. Head(todo)[1] = "rename" /\ Head(todo)[2] = x
    OBVIOUS
  <2>2. disk' = [disk EXCEPT ![Head(todo)[2]] = disk[Tmp(Head(todo)[2])],
                             ![Tmp(Head(todo)[2])] = Absent]
    BY <2>1 DEF Step
  <2> QED BY <2>1, <2>2, Zenon DEF Step
<1>3. /\ \A y \in Files \ {x} : Kept(y)
      /\ disk'[x] = disk[Tmp(x)]
  BY <1>1, <1>2 DEF DiskTyped, Kept
<1> QED
  BY <1>2, <1>3 DEF New, Part, Written

-----------------------------------------------------------------------------
(* A save, step by step.                                                   *)

(* What is left of a save is what it has not done yet, step by step.       *)
LEMMA StageStep ==
  ASSUME DiskTyped, Stage, Step
  PROVE  Stage' /\ (todo' = <<>> => Progress(Files, {})')
<1>0. /\ todo # <<>>
      /\ {"deck", "credits", "collection", "tasks", "deck.tmp", "collection.tmp"} = AllFiles
      /\ {"deck", "credits", "collection", "tasks"} = Files
  BY DEF Step, AllFiles, Files
<1>t. Tmp("deck") = "deck.tmp" /\ Tmp("collection") = "collection.tmp"
  BY DEF Tmp
<1>1. CASE todo = Deck4 /\ Progress({}, Files)
  <2>2. Head(todo) = <<"open", "deck.tmp">> /\ Tail(todo) = Deck3
    BY <1>1, Chain
  <2>3. save' = save /\ todo' = Deck3 /\ \A g \in Files : Kept(g)
    BY <1>0, <2>2, OpenDoes
  <2>4. Progress({}, Files)'
    BY <1>0, <1>1, <2>3, ProgressKept
  <2> QED
    BY <2>3, <2>4, Chain DEF Stage
<1>2. CASE todo = Deck3 /\ Progress({}, Files)
  <2>2. Head(todo) = <<"close", "deck.tmp">> /\ Tail(todo) = Deck2
    BY <1>2, Chain
  <2>3. /\ save' = save /\ todo' = Deck2 /\ \A g \in Files : Kept(g)
        /\ disk'["deck.tmp"] = Whole(save.last)
    BY <1>0, <2>2, CloseDoes
  <2>4. Progress({}, Files)'
    BY <1>0, <1>2, <2>3, ProgressKept
  <2>5. Written("deck")'
    BY <1>t, <2>3 DEF Written, Whole
  <2> QED
    BY <2>3, <2>4, <2>5, Chain DEF Stage
<1>3. CASE todo = Deck2 /\ Progress({}, Files) /\ Written("deck")
  <2>2. Head(todo) = <<"remove", "deck">> /\ Tail(todo) = Deck1
    BY <1>3, Chain
  <2>e. /\ {} \in SUBSET Files /\ Files \in SUBSET Files
        /\ "deck" \in Files /\ "deck" \notin {}
    BY <1>0
  <2>3. /\ save' = save /\ todo' = Deck1 /\ Gone("deck")'
        /\ \A g \in Files \ {"deck"} : Kept(g)
        /\ Kept("deck.tmp")
    BY <1>0, <2>2, RemoveDoes
  <2>4. Progress({}, Files \ {"deck"})'
    BY <1>0, <1>3, <2>3, <2>e, ProgressOpens
  <2>5. Written("deck")'
    BY <1>t, <1>3, <2>3 DEF Written, Kept
  <2> QED
    BY <2>3, <2>4, <2>5, Chain DEF Stage
<1>4. CASE todo = Deck1 /\ Progress({}, Files \ {"deck"}) /\ Written("deck")
  <2>2. Head(todo) = <<"rename", "deck">> /\ Tail(todo) = Money2
    BY <1>4, Chain
  <2>e. /\ {} \in SUBSET Files /\ Files \ {"deck"} \in SUBSET Files
        /\ "deck" \in Files /\ "deck" \notin Files \ {"deck"}
        /\ {"deck"} = {} \cup {"deck"}
        /\ {"credits", "collection", "tasks"} = Files \ {"deck"}
    BY <1>0
  <2>3. /\ save' = save /\ todo' = Money2 /\ New("deck")'
        /\ \A g \in Files \ {"deck"} : Kept(g)
    BY <1>0, <1>4, <2>2, RenameDoes
  <2>4. Progress({"deck"}, {"credits", "collection", "tasks"})'
    BY <1>0, <1>4, <2>3, <2>e, ProgressCloses
  <2> QED
    BY <2>3, <2>4, Chain DEF Stage
<1>5. CASE todo = Money2 /\ Progress({"deck"}, {"credits", "collection", "tasks"})
  <2>2. Head(todo) = <<"open", "credits">> /\ Tail(todo) = Money1
    BY <1>5, Chain
  <2>e. /\ {"deck"} \in SUBSET Files /\ {"credits", "collection", "tasks"} \in SUBSET Files
        /\ "credits" \in {"credits", "collection", "tasks"} /\ "credits" \notin {"deck"}
        /\ {"collection", "tasks"} = {"credits", "collection", "tasks"} \ {"credits"}
    BY <1>0
  <2>3. /\ save' = save /\ todo' = Money1 /\ Gone("credits")'
        /\ \A g \in Files \ {"credits"} : Kept(g)
    BY <1>0, <2>2, OpenDoes
  <2>4. Progress({"deck"}, {"collection", "tasks"})'
    BY <1>0, <1>5, <2>3, <2>e, ProgressOpens
  <2> QED
    BY <2>3, <2>4, Chain DEF Stage
<1>6. CASE todo = Money1 /\ Progress({"deck"}, {"collection", "tasks"})
  <2>2. Head(todo) = <<"close", "credits">> /\ Tail(todo) = Cards4
    BY <1>6, Chain
  <2>e. /\ {"deck"} \in SUBSET Files /\ {"collection", "tasks"} \in SUBSET Files
        /\ "credits" \in Files /\ "credits" \notin {"collection", "tasks"}
        /\ {"deck", "credits"} = {"deck"} \cup {"credits"}
    BY <1>0
  <2>3. /\ save' = save /\ todo' = Cards4 /\ New("credits")'
        /\ \A g \in Files \ {"credits"} : Kept(g)
    BY <1>0, <1>6, <2>2, CloseDoes
  <2>4. Progress({"deck", "credits"}, {"collection", "tasks"})'
    BY <1>0, <1>6, <2>3, <2>e, ProgressCloses
  <2> QED
    BY <2>3, <2>4, Chain DEF Stage
<1>7. CASE todo = Cards4 /\ Progress({"deck", "credits"}, {"collection", "tasks"})
  <2>2. Head(todo) = <<"open", "collection.tmp">> /\ Tail(todo) = Cards3
    BY <1>7, Chain
  <2>3. save' = save /\ todo' = Cards3 /\ \A g \in Files : Kept(g)
    BY <1>0, <2>2, OpenDoes
  <2>4. Progress({"deck", "credits"}, {"collection", "tasks"})'
    BY <1>0, <1>7, <2>3, ProgressKept
  <2> QED
    BY <2>3, <2>4, Chain DEF Stage
<1>8. CASE todo = Cards3 /\ Progress({"deck", "credits"}, {"collection", "tasks"})
  <2>2. Head(todo) = <<"close", "collection.tmp">> /\ Tail(todo) = Cards2
    BY <1>8, Chain
  <2>3. /\ save' = save /\ todo' = Cards2 /\ \A g \in Files : Kept(g)
        /\ disk'["collection.tmp"] = Whole(save.last)
    BY <1>0, <2>2, CloseDoes
  <2>4. Progress({"deck", "credits"}, {"collection", "tasks"})'
    BY <1>0, <1>8, <2>3, ProgressKept
  <2>5. Written("collection")'
    BY <1>t, <2>3 DEF Written, Whole
  <2> QED
    BY <2>3, <2>4, <2>5, Chain DEF Stage
<1>9. CASE todo = Cards2 /\ Progress({"deck", "credits"}, {"collection", "tasks"}) /\ Written("collection")
  <2>2. Head(todo) = <<"remove", "collection">> /\ Tail(todo) = Cards1
    BY <1>9, Chain
  <2>e. /\ {"deck", "credits"} \in SUBSET Files /\ {"collection", "tasks"} \in SUBSET Files
        /\ "collection" \in {"collection", "tasks"} /\ "collection" \notin {"deck", "credits"}
        /\ {"tasks"} = {"collection", "tasks"} \ {"collection"}
    BY <1>0
  <2>3. /\ save' = save /\ todo' = Cards1 /\ Gone("collection")'
        /\ disk'["collection"].state = "absent"
        /\ \A g \in Files \ {"collection"} : Kept(g)
        /\ Kept("collection.tmp")
    BY <1>0, <2>2, RemoveDoes
  <2>4. Progress({"deck", "credits"}, {"tasks"})'
    BY <1>0, <1>9, <2>3, <2>e, ProgressOpens
  <2>5. Moving'
    BY <1>t, <1>9, <2>3 DEF Moving, Written, Kept
  <2> QED
    BY <2>3, <2>4, <2>5, Chain DEF Stage
<1>10. CASE todo = Cards1 /\ Progress({"deck", "credits"}, {"tasks"}) /\ Moving
  <2>2. Head(todo) = <<"rename", "collection">> /\ Tail(todo) = Tasks2
    BY <1>10, Chain
  <2>e. /\ {"deck", "credits"} \in SUBSET Files /\ {"tasks"} \in SUBSET Files
        /\ "collection" \in Files /\ "collection" \notin {"tasks"}
        /\ {"deck", "credits", "collection"} = {"deck", "credits"} \cup {"collection"}
    BY <1>0
  <2>3. /\ save' = save /\ todo' = Tasks2 /\ New("collection")'
        /\ \A g \in Files \ {"collection"} : Kept(g)
    BY <1>0, <1>10, <2>2, RenameDoes DEF Moving
  <2>4. Progress({"deck", "credits", "collection"}, {"tasks"})'
    BY <1>0, <1>10, <2>3, <2>e, ProgressCloses
  <2> QED
    BY <2>3, <2>4, Chain DEF Stage
<1>11. CASE todo = Story2 /\ Progress({"deck"}, {"credits", "collection", "tasks"}) /\ Same("collection")
  <2>2. Head(todo) = <<"open", "credits">> /\ Tail(todo) = Story1
    BY <1>11, Chain
  <2>e. /\ {"deck"} \in SUBSET Files /\ {"credits", "collection", "tasks"} \in SUBSET Files
        /\ "credits" \in {"credits", "collection", "tasks"} /\ "credits" \notin {"deck"}
        /\ {"collection", "tasks"} = {"credits", "collection", "tasks"} \ {"credits"}
    BY <1>0
  <2>3. /\ save' = save /\ todo' = Story1 /\ Gone("credits")'
        /\ \A g \in Files \ {"credits"} : Kept(g)
    BY <1>0, <2>2, OpenDoes
  <2>4. Progress({"deck"}, {"collection", "tasks"})'
    BY <1>0, <1>11, <2>3, <2>e, ProgressOpens
  <2>5. Same("collection")'
    BY <1>11, <2>3 DEF Same
  <2> QED
    BY <2>3, <2>4, <2>5, Chain DEF Stage
<1>12. CASE todo = Story1 /\ Progress({"deck"}, {"collection", "tasks"}) /\ Same("collection")
  <2>2. Head(todo) = <<"close", "credits">> /\ Tail(todo) = Tasks2
    BY <1>12, Chain
  <2>e. /\ {"deck"} \in SUBSET Files /\ {"collection", "tasks"} \in SUBSET Files
        /\ "credits" \in Files /\ "credits" \notin {"collection", "tasks"}
        /\ {"deck", "credits"} = {"deck"} \cup {"credits"}
    BY <1>0
  <2>3. /\ save' = save /\ todo' = Tasks2 /\ New("credits")'
        /\ \A g \in Files \ {"credits"} : Kept(g)
    BY <1>0, <2>2, CloseDoes
  <2>4. Progress({"deck", "credits"}, {"collection", "tasks"})'
    BY <1>0, <1>12, <2>3, <2>e, ProgressCloses
  <2>5. Same("collection")'
    BY <1>12, <2>3 DEF Same
  <2>6. Progress({"deck", "credits", "collection"}, {"tasks"})'
    BY <1>0, <2>4, <2>5 DEF Progress, Done
  <2> QED
    BY <2>3, <2>6, Chain DEF Stage
<1>13. CASE todo = Tasks2 /\ Progress({"deck", "credits", "collection"}, {"tasks"})
  <2>2. Head(todo) = <<"open", "tasks">> /\ Tail(todo) = Tasks1
    BY <1>13, Chain
  <2>e. /\ {"deck", "credits", "collection"} \in SUBSET Files /\ {"tasks"} \in SUBSET Files
        /\ "tasks" \in {"tasks"} /\ "tasks" \notin {"deck", "credits", "collection"}
        /\ {} = {"tasks"} \ {"tasks"}
    BY <1>0
  <2>3. /\ save' = save /\ todo' = Tasks1 /\ Gone("tasks")'
        /\ \A g \in Files \ {"tasks"} : Kept(g)
    BY <1>0, <2>2, OpenDoes
  <2>4. Progress({"deck", "credits", "collection"}, {})'
    BY <1>0, <1>13, <2>3, <2>e, ProgressOpens
  <2> QED
    BY <2>3, <2>4, Chain DEF Stage
<1>14. CASE todo = Tasks1 /\ Progress({"deck", "credits", "collection"}, {})
  <2>2. Head(todo) = <<"close", "tasks">> /\ Tail(todo) = <<>>
    BY <1>14, Chain
  <2>e. /\ {"deck", "credits", "collection"} \in SUBSET Files /\ {} \in SUBSET Files
        /\ "tasks" \in Files /\ "tasks" \notin {}
        /\ Files = {"deck", "credits", "collection"} \cup {"tasks"}
    BY <1>0
  <2>3. /\ save' = save /\ todo' = <<>> /\ New("tasks")'
        /\ \A g \in Files \ {"tasks"} : Kept(g)
    BY <1>0, <1>14, <2>2, CloseDoes
  <2>4. Progress(Files, {})'
    BY <1>0, <1>14, <2>3, <2>e, ProgressCloses
  <2> QED
    BY <2>3, <2>4, Chain DEF Stage
<1>15. CASE /\ todo = Board2 /\ Progress({"deck"}, {"credits", "collection", "tasks"})
            /\ Same("tasks")
  <2>2. Head(todo) = <<"open", "tasks">> /\ Tail(todo) = Board1
    BY <1>15, Chain
  <2>e. /\ {"deck"} \in SUBSET Files /\ {"credits", "collection", "tasks"} \in SUBSET Files
        /\ "tasks" \in {"credits", "collection", "tasks"} /\ "tasks" \notin {"deck"}
        /\ {"credits", "collection"} = {"credits", "collection", "tasks"} \ {"tasks"}
    BY <1>0
  <2>3. /\ save' = save /\ todo' = Board1 /\ Gone("tasks")'
        /\ \A g \in Files \ {"tasks"} : Kept(g)
    BY <1>0, <2>2, OpenDoes
  <2>4. Progress({"deck"}, {"credits", "collection"})'
    BY <1>0, <1>15, <2>3, <2>e, ProgressOpens
  <2>5. Same("tasks")'
    BY <1>15, <2>3 DEF Same
  <2> QED
    BY <2>3, <2>4, <2>5, Chain DEF Stage
<1>16. CASE todo = Board1 /\ Progress({"deck"}, {"credits", "collection"}) /\ Same("tasks")
  <2>2. Head(todo) = <<"close", "tasks">> /\ Tail(todo) = Money2
    BY <1>16, Chain
  <2>e. /\ {"deck"} \in SUBSET Files /\ {"credits", "collection"} \in SUBSET Files
        /\ "tasks" \in Files /\ "tasks" \notin {"credits", "collection"}
        /\ {"deck", "tasks"} = {"deck"} \cup {"tasks"}
    BY <1>0
  <2>3. /\ save' = save /\ todo' = Money2 /\ New("tasks")'
        /\ \A g \in Files \ {"tasks"} : Kept(g)
    BY <1>0, <1>16, <2>2, CloseDoes
  <2>4. Progress({"deck", "tasks"}, {"credits", "collection"})'
    BY <1>0, <1>16, <2>3, <2>e, ProgressCloses
  <2>5. Old("tasks")'
    <3>1. Loaded'["tasks"] = save'.last["tasks"]
      BY <2>3, LoadedFrom DEF New, Part, Files
    <3>2. save'.last["tasks"] = save'.prev["tasks"]
      BY <1>16, <2>3 DEF Same
    <3> QED BY <3>1, <3>2 DEF Old
  <2>6. Progress({"deck"}, {"credits", "collection", "tasks"})'
    BY <1>0, <2>4, <2>5 DEF Progress
  <2> QED
    BY <2>3, <2>6, Chain DEF Stage
<1> QED
  BY <1>0, <1>1, <1>2, <1>3, <1>4, <1>5, <1>6, <1>7, <1>8, <1>9, <1>10, <1>11, <1>12, <1>13, <1>14,
     <1>15, <1>16 DEF Stage

(* The order of the files, spelled out.                                    *)
InPlaceOf(g) == Old(g) \/ Same(g)

LEMMA OrderIs ==
  ASSUME \A f \in Files : Gone(f) \/ Old(f) \/ New(f),
         \A g \in {"credits", "collection", "tasks"} : InPlaceOf(g) \/ Same("deck") \/ New("deck"),
         \A g \in {"collection", "tasks"} : InPlaceOf(g) \/ Same("credits") \/ New("credits"),
         InPlaceOf("tasks") \/ Same("collection") \/ New("collection")
  PROVE  FilesInOrder
<1> DEFINE Order == <<"deck", "credits", "collection", "tasks">>
<1>1. DOMAIN Order = 1..4 /\ \A i \in 1..4 : Order[i] \in Files
  BY DEF Files
<1>2. \A f \in Files : /\ Old(f) <=> Loaded[f] = save.prev[f]
                       /\ New(f) <=> disk[f].state = "whole" /\ Part(f) = save.last[f]
                       /\ Same(f) <=> save.last[f] = save.prev[f]
                       /\ Gone(f) <=> disk[f].state # "whole"
  BY DEF Old, New, Same, Gone
<1>3. ASSUME NEW i \in 1..4, NEW j \in 1..4, i < j, ~InPlaceOf(Order[j]), ~Same(Order[i])
      PROVE  New(Order[i])
  <2>1. CASE i = 1
    <3>1. Order[j] \in {"credits", "collection", "tasks"}
      BY <1>3, <2>1
    <3> QED BY <1>3, <2>1, <3>1
  <2>2. CASE i = 2
    <3>1. Order[j] \in {"collection", "tasks"}
      BY <1>3, <2>2
    <3> QED BY <1>3, <2>2, <3>1
  <2>3. CASE i = 3
    <3>1. Order[j] = "tasks"
      BY <1>3, <2>3
    <3> QED BY <1>3, <2>3, <3>1
  <2> QED BY <1>3, <2>1, <2>2, <2>3
<1> HIDE DEF Order
<1>4. \A i \in 1..4 : Gone(Order[i]) \/ Old(Order[i]) \/ New(Order[i])
  BY <1>1
<1>5. \A i, j \in DOMAIN Order :
         /\ disk[Order[i]].state = "whole" =>
              \/ Loaded[Order[i]] = save.prev[Order[i]]
              \/ disk[Order[i]].state = "whole" /\ Part(Order[i]) = save.last[Order[i]]
         /\ /\ i < j /\ save.last[Order[i]] # save.prev[Order[i]]
            /\ save.last[Order[j]] # save.prev[Order[j]] /\ Loaded[Order[j]] # save.prev[Order[j]]
            => disk[Order[i]].state = "whole" /\ Part(Order[i]) = save.last[Order[i]]
  BY <1>1, <1>2, <1>3, <1>4 DEF InPlaceOf
<1> QED
  BY <1>5 DEF FilesInOrder, Order

(* A save that has come that far can be killed.                            *)
LEMMA ProgressIsSafe ==
  ASSUME SaveTyped, NEW D \in SUBSET Files, NEW R \in SUBSET Files, Progress(D, R),
         "deck" \in D \/ \A g \in {"credits", "collection", "tasks"} : g \in R \/ Same(g),
         "credits" \in D \/ \A g \in {"collection", "tasks"} : g \in R \/ Same(g),
         "collection" \in D \/ "tasks" \in R \/ Same("tasks"),
         "collection" \in D \cup R \/ Moving,
         \A f, g \in Files \ (D \cup R) : f = g
  PROVE  KilledSafely
<1>1. FilesInOrder
  <2>1. \A f \in Files : Gone(f) \/ Old(f) \/ New(f)
    BY DEF Progress, Done
  <2>2. \A f \in D : New(f) \/ Same(f)
    BY DEF Progress, Done
  <2>3. \A f \in R : Old(f)
    BY DEF Progress
  <2> QED BY <2>1, <2>2, <2>3, OrderIs DEF InPlaceOf
<1>2. CardsSurvive
  <2>1. SUFFICES ASSUME "collection" \in save.had PROVE CardsSurvive
    BY DEF CardsSurvive
  <2>2. CASE "collection" \in D \cup R
    <3>1. disk["collection"].state = "whole" /\ (Old("collection") \/ New("collection"))
      BY <2>1, <2>2 DEF Progress, Done
    <3>2. Loaded["collection"] = disk["collection"].data["collection"]
      BY <3>1, LoadedFrom DEF Files
    <3>3. disk["collection"].data["collection"] \in {save.prev["collection"], save.last["collection"]}
      BY <3>1, <3>2 DEF Old, New, Part
    <3> QED BY <3>1, <3>3 DEF CardsSurvive, Part
  <2>3. CASE Moving
    BY <2>3 DEF Moving, Written, Tmp, CardsSurvive
  <2> QED BY <2>2, <2>3
<1>3. OneFileLost
  <2>1. SUFFICES ASSUME NEW f \in save.had, NEW g \in save.had, f # g, f \in Files, g \in Files
                 PROVE  disk[f].state = "whole" \/ disk[g].state = "whole"
    BY DEF OneFileLost, SaveTyped
  <2>2. f \in D \cup R \/ g \in D \cup R
    BY <2>1
  <2> QED BY <2>1, <2>2 DEF Progress
<1> QED
  BY <1>1, <1>2, <1>3 DEF KilledSafely

(* So can a save at any of its steps.                                      *)
LEMMA StageIsSafe ==
  ASSUME SaveTyped, Stage, todo = <<>> => Progress(Files, {})
  PROVE  KilledSafely
<1>0. Files = {"deck", "credits", "collection", "tasks"}
  BY DEF Files
<1>1. CASE Progress({}, Files) \/ Progress({}, Files \ {"deck"}) \/ Progress(Files, {})
  BY <1>0, <1>1, ProgressIsSafe
<1>2. CASE \/ Progress({"deck"}, {"credits", "collection", "tasks"})
           \/ Progress({"deck"}, {"collection", "tasks"})
           \/ Progress({"deck", "credits"}, {"collection", "tasks"})
  BY <1>0, <1>2, ProgressIsSafe
<1>3. CASE Progress({"deck", "credits"}, {"tasks"}) /\ Moving
  BY <1>0, <1>3, ProgressIsSafe
<1>4. CASE \/ Progress({"deck", "credits", "collection"}, {"tasks"})
           \/ Progress({"deck", "credits", "collection"}, {})
  BY <1>0, <1>4, ProgressIsSafe
<1>5. CASE Progress({"deck"}, {"credits", "collection"}) /\ Same("tasks")
  BY <1>0, <1>5, ProgressIsSafe
<1> QED
  BY <1>1, <1>2, <1>3, <1>4, <1>5 DEF Stage

-----------------------------------------------------------------------------
(* A save begins with what is in the files.                                *)
LEMMA WriteStarts ==
  ASSUME NEW steps, NEW now, Write(steps, now), disk' = disk,
         NEW D \in SUBSET Files, NEW R \in SUBSET Files, D \cup R = Files,
         \A f \in D : now[f] = Loaded[f]
  PROVE  todo' = steps /\ Progress(D, R)'
<1>1. /\ todo' = steps
      /\ save'.last = now /\ save'.prev = Loaded
      /\ save'.had = {f \in Files : disk[f].state = "whole"}
  BY DEF Write
<1>2. \A f \in Files : Loaded'[f] = Loaded[f]
  BY LoadedFrom
<1>3. \A f \in Files : Old(f)'
  BY <1>1, <1>2 DEF Old
<1>4. \A f \in D : Done(f)'
  BY <1>1, <1>3 DEF Done, Same, Old
<1>5. \A f \in Files : f \in save'.had => disk'[f].state = "whole"
  BY <1>1
<1> QED
  BY <1>1, <1>3, <1>4, <1>5 DEF Progress

(* A save that is over has written what is loaded now.                     *)
LEMMA SaveOver ==
  ASSUME Progress(Files, {})'
  PROVE  /\ Loaded'.credits = save'.last.credits /\ Loaded'.collection = save'.last.collection
         /\ Loaded'.tasks = save'.last.tasks
<1>1. \A f \in {"credits", "collection", "tasks"} : Done(f)'
  BY DEF Progress, Files
<1>2. ASSUME NEW f \in {"credits", "collection", "tasks"} PROVE Loaded'[f] = save'.last[f]
  <2>1. CASE New(f)'
    BY <2>1, LoadedFrom DEF New, Part, Files
  <2>2. CASE Old(f)' /\ Same(f)'
    BY <2>2 DEF Old, Same
  <2> QED BY <1>1, <1>2, <2>1, <2>2 DEF Done
<1> QED
  BY <1>2

(* What is loaded is data.                                                 *)
LEMMA LoadedTyped ==
  ASSUME DiskTyped
  PROVE  /\ Loaded \in Data
         /\ Loaded.credits \in Nat /\ Loaded.collection \in Bag
         /\ Loaded.deck \in Bag /\ Loaded.tasks \in SUBSET Tasks
<1>1. None \in Bag /\ Default \in Nat
  BY ProfileAssumption DEF None, Bag
<1>2. \A f \in Files : disk[f].state = "whole" => disk[f].data \in Data
  BY DEF DiskTyped, AllFiles, FileState
<1>3. /\ Loaded.credits \in Nat /\ Loaded.collection \in Bag
      /\ Loaded.deck \in Bag /\ Loaded.tasks \in SUBSET Tasks
  BY <1>1, <1>2 DEF Loaded, Part, Data, Files
<1>4. Loaded = [deck |-> Loaded.deck, credits |-> Loaded.credits,
                collection |-> Loaded.collection, tasks |-> Loaded.tasks]
  BY DEF Loaded
<1> QED
  BY <1>3, <1>4 DEF Data

(* The smaller of two numbers.                                             *)
LEMMA MinIs ==
  ASSUME NEW a \in Nat, NEW b \in Nat
  PROVE  Min({a, b}) \in Nat /\ Min({a, b}) <= a /\ Min({a, b}) <= b
<1>1. \E m \in {a, b} : \A n \in {a, b} : m <= n
  OBVIOUS
<1>2. Min({a, b}) \in {a, b} /\ \A n \in {a, b} : Min({a, b}) <= n
  BY <1>1 DEF Min
<1> QED
  BY <1>2

(* What a card less is worth.                                              *)
LEMMA WorthLess ==
  ASSUME NEW o \in [credits : Nat, collection : Bag, tasks : SUBSET Tasks],
         NEW c \in Cards, o.collection[c] > 0,
         NEW p \in [credits : Nat, collection : Bag, tasks : SUBSET Tasks],
         p.credits = o.credits + Price[c], p.collection = Minus(o.collection, c)
  PROVE  Worth(p) = Worth(o)
<1> DEFINE h == [d \in Cards |-> Price[d] * o.collection[d]]
           k == [d \in Cards |-> Price[d] * p.collection[d]]
<1>1. /\ IsFiniteSet(Cards) /\ Price \in [Cards -> Nat] /\ o.collection \in [Cards -> Nat]
      /\ p.collection \in [Cards -> Nat]
  BY ProfileAssumption DEF Bag
<1>2. h \in [Cards -> Nat] /\ k \in [Cards -> Nat]
  BY <1>1
<1>3. \A d \in Cards \ {c} : p.collection[d] = o.collection[d]
  BY <1>1 DEF Minus, Bag
<1>4. p.collection[c] = o.collection[c] - 1
  BY <1>1 DEF Minus, Bag
<1>5. \A d \in Cards \ {c} : h[d] = k[d]
  BY <1>3
<1>6. h[c] - k[c] = Price[c]
  <2>1. Price[c] \in Nat /\ o.collection[c] \in Nat
    BY <1>1
  <2>2. h[c] = Price[c] * o.collection[c] /\ k[c] = Price[c] * (o.collection[c] - 1)
    BY <1>4
  <2> QED BY <2>1, <2>2
<1> HIDE DEF h, k
<1>7. SumFunction(k) = SumFunction(h) - h[c] + k[c]
  BY <1>1, <1>2, <1>5, SumChange
<1>8. SumFunction(h) \in Int /\ h[c] \in Int /\ k[c] \in Int
  BY <1>1, <1>2, SumIsNumber
<1>9. Worth(p) = p.credits + SumFunction(k) /\ Worth(o) = o.credits + SumFunction(h)
  BY DEF Worth, h, k
<1> QED
  BY <1>1, <1>6, <1>7, <1>8, <1>9

-----------------------------------------------------------------------------
(* The files after every step.                                             *)

(* A save under way, or just over.                                         *)
Underway == Stage /\ (todo = <<>> => Progress(Files, {}))

(* It can be killed.                                                       *)
LEMMA UnderwayIsSafe == SaveTyped /\ Underway => KilledSafely
BY StageIsSafe DEF Underway

(* The same of the next state.                                             *)
LEMMA UnderwayIsSafeNext == SaveTyped' /\ Underway' => KilledSafely'
BY UnderwayIsSafe, PTL

(* Each of the five lists of steps begins where the files are old.         *)
LEMMA SaveBegins ==
  ASSUME NEW steps, NEW now, Write(steps, now), disk' = disk, SaveTyped',
         \/ steps = ViaTmp("deck") \o SavePlayer(TRUE)
         \/ steps = SavePlayer(TRUE) /\ now.deck = Loaded.deck
         \/ steps = SavePlayer(FALSE) /\ now.deck = Loaded.deck /\ now.collection = Loaded.collection
         \/ /\ steps = InPlace("tasks") /\ now.deck = Loaded.deck
            /\ now.collection = Loaded.collection /\ now.credits = Loaded.credits
         \/ /\ steps = InPlace("tasks") \o SavePlayer(TRUE) /\ now.deck = Loaded.deck
            /\ now.tasks = Loaded.tasks
  PROVE  Stage' /\ KilledSafely' /\ todo' # <<>>
<1>0. Files = {"deck", "credits", "collection", "tasks"}
  BY DEF Files
<1>w. ASSUME NEW D \in SUBSET Files, NEW R \in SUBSET Files, D \cup R = Files,
             \A f \in D : now[f] = Loaded[f]
      PROVE  todo' = steps /\ Progress(D, R)'
  BY <1>w, WriteStarts
<1>1. Stage' /\ todo' # <<>>
  <2>1. CASE steps = ViaTmp("deck") \o SavePlayer(TRUE)
    <3>0. /\ {} \in SUBSET Files /\ Files \in SUBSET Files /\ {} \cup Files = Files
          /\ \A f \in {} : now[f] = Loaded[f]
      BY <1>0, <2>1
    <3>1. Progress({}, Files)' /\ todo' = Deck4
      BY <1>w, <3>0, <2>1, Saves
    <3> QED BY <3>1, Chain DEF Stage
  <2>2. CASE steps = SavePlayer(TRUE) /\ now.deck = Loaded.deck
    <3>0. /\ {"deck"} \in SUBSET Files /\ {"credits", "collection", "tasks"} \in SUBSET Files /\ {"deck"} \cup {"credits", "collection", "tasks"} = Files
          /\ \A f \in {"deck"} : now[f] = Loaded[f]
      BY <1>0, <2>2
    <3>1. Progress({"deck"}, {"credits", "collection", "tasks"})' /\ todo' = Money2
      BY <1>w, <3>0, <2>2, Saves
    <3> QED BY <3>1, Chain DEF Stage
  <2>3. CASE steps = SavePlayer(FALSE) /\ now.deck = Loaded.deck /\ now.collection = Loaded.collection
    <3>0. /\ {"deck"} \in SUBSET Files /\ {"credits", "collection", "tasks"} \in SUBSET Files /\ {"deck"} \cup {"credits", "collection", "tasks"} = Files
          /\ \A f \in {"deck"} : now[f] = Loaded[f]
      BY <1>0, <2>3
    <3>1. Progress({"deck"}, {"credits", "collection", "tasks"})' /\ todo' = Story2
      BY <1>w, <3>0, <2>3, Saves
    <3>2. Same("collection")'
      BY <2>3 DEF Same, Write
    <3> QED BY <3>1, <3>2, Chain DEF Stage
  <2>4. CASE /\ steps = InPlace("tasks") /\ now.deck = Loaded.deck
             /\ now.collection = Loaded.collection /\ now.credits = Loaded.credits
    <3>0. /\ {"deck", "credits", "collection"} \in SUBSET Files /\ {"tasks"} \in SUBSET Files /\ {"deck", "credits", "collection"} \cup {"tasks"} = Files
          /\ \A f \in {"deck", "credits", "collection"} : now[f] = Loaded[f]
      BY <1>0, <2>4
    <3>1. Progress({"deck", "credits", "collection"}, {"tasks"})' /\ todo' = Tasks2
      BY <1>w, <3>0, <2>4, Saves
    <3> QED BY <3>1, Chain DEF Stage
  <2>5. CASE /\ steps = InPlace("tasks") \o SavePlayer(TRUE) /\ now.deck = Loaded.deck
             /\ now.tasks = Loaded.tasks
    <3>0. /\ {"deck"} \in SUBSET Files /\ {"credits", "collection", "tasks"} \in SUBSET Files /\ {"deck"} \cup {"credits", "collection", "tasks"} = Files
          /\ \A f \in {"deck"} : now[f] = Loaded[f]
      BY <1>0, <2>5
    <3>1. Progress({"deck"}, {"credits", "collection", "tasks"})' /\ todo' = Board2
      BY <1>w, <3>0, <2>5, Saves
    <3>2. Same("tasks")'
      BY <2>5 DEF Same, Write
    <3> QED BY <3>1, <3>2, Chain DEF Stage
  <2> QED BY <2>1, <2>2, <2>3, <2>4, <2>5
<1> QED
  BY <1>1, UnderwayIsSafeNext DEF Underway

(* An action that leaves the files and the save alone.                     *)
LEMMA FilesKept ==
  ASSUME Stage, KilledSafely, disk' = disk, save' = save, todo' \in {<<>>, todo}
  PROVE  Stage' /\ KilledSafely'
<1>1. Loaded' = Loaded
  BY DEF Loaded, Part
<1>2. FilesInOrder'
  BY <1>1 DEF KilledSafely, FilesInOrder, Part
<1>3. CardsSurvive' /\ OneFileLost'
  <2>1. CardsSurvive'
    BY DEF KilledSafely, CardsSurvive, Part
  <2>2. OneFileLost'
    BY DEF KilledSafely, OneFileLost
  <2> QED BY <2>1, <2>2
<1>4. CASE todo' = <<>>
  BY <1>2, <1>3, <1>4 DEF Stage, KilledSafely
<1>5. CASE todo' = todo
  <2>1. \A f \in Files : Kept(f)
    BY DEF Kept
  <2>2. /\ Written("deck") <=> Written("deck")'
        /\ Written("collection") <=> Written("collection")'
        /\ Moving <=> Moving'
        /\ Same("collection") <=> Same("collection")'
        /\ Same("tasks") <=> Same("tasks")'
    BY DEF Written, Moving, Same
  <2>3. \A D, R \in SUBSET Files : Progress(D, R) => Progress(D, R)'
    BY <2>1, ProgressKept
  <2>4. Files = {"deck", "credits", "collection", "tasks"}
    BY DEF Files
  <2>5. /\ Progress({}, Files) => Progress({}, Files)'
        /\ Progress({}, Files \ {"deck"}) => Progress({}, Files \ {"deck"})'
        /\ Progress({"deck"}, {"credits", "collection", "tasks"})
             => Progress({"deck"}, {"credits", "collection", "tasks"})'
        /\ Progress({"deck"}, {"collection", "tasks"}) => Progress({"deck"}, {"collection", "tasks"})'
        /\ Progress({"deck", "credits"}, {"collection", "tasks"})
             => Progress({"deck", "credits"}, {"collection", "tasks"})'
        /\ Progress({"deck", "credits"}, {"tasks"}) => Progress({"deck", "credits"}, {"tasks"})'
        /\ Progress({"deck"}, {"credits", "collection"}) => Progress({"deck"}, {"credits", "collection"})'
        /\ Progress({"deck", "credits", "collection"}, {"tasks"})
             => Progress({"deck", "credits", "collection"}, {"tasks"})'
        /\ Progress({"deck", "credits", "collection"}, {})
             => Progress({"deck", "credits", "collection"}, {})'
    BY <2>3, <2>4
  <2>6. Stage'
    BY <1>5, <2>2, <2>5 DEF Stage
  <2> QED BY <1>2, <1>3, <2>6 DEF KilledSafely
<1> QED
  BY <1>4, <1>5

(* Of all actions, only a step of a save and the beginning of one touch    *)
(* the files or what is left to do.                                        *)
LEMMA StageNext ==
  ASSUME IInv, [Next]_vars, Typed'
  PROVE  Stage' /\ KilledSafely'
<1> USE DEF IInv, Typed
<1>1. CASE Step
  BY <1>1, StageStep, UnderwayIsSafeNext DEF Underway
<1>2. CASE Kill
  BY <1>2, FilesKept DEF Kill
<1>3. CASE \/ MenuCloses \/ EnterShop \/ Shuffle \/ AskBooster \/ PurchaseCard
           \/ OpenBoard \/ EnterEditor \/ LoadDeck \/ SwitchDisplay \/ LeaveEditor \/ Ended
           \/ \E c \in Cards : AskCard(c) \/ AddRemove(c) \/ AskSale(c) \/ Sell(c)
  <2>1. disk' = disk /\ save' = save /\ todo' = todo
    BY <1>3 DEF WriteNothing, MenuCloses, EnterShop, Shuffle, AskBooster, PurchaseCard, OpenBoard, EnterEditor,
                LoadDeck, SwitchDisplay, Sell, LeaveEditor, Ended, AskCard, AddRemove, AskSale
  <2> QED BY <2>1, FilesKept
<1>4. ASSUME NEW c \in Cards, PurchaseBooster(c)
      PROVE  Stage' /\ KilledSafely'
  <2>1. PICK now : now = Holds(own', Loaded.deck)
    OBVIOUS
  <2>2. disk' = disk /\ Write(SavePlayer(TRUE), now) /\ now.deck = Loaded.deck
    BY <1>4, <2>1 DEF PurchaseBooster, ShopSaves, Holds
  <2> QED BY <2>2, SaveBegins
<1>5. CASE LeaveShop /\ touched
  <2>1. PICK now : now = Holds(own', Loaded.deck)
    OBVIOUS
  <2>2. disk' = disk /\ Write(SavePlayer(TRUE), now) /\ now.deck = Loaded.deck
    BY <1>5, <2>1 DEF LeaveShop, ShopSaves, Holds
  <2> QED BY <2>2, SaveBegins
<1>13. CASE SaveShop /\ touched
  <2>1. PICK now : now = Holds(own', Loaded.deck)
    OBVIOUS
  <2>2. /\ disk' = disk
        /\ Write((IF board THEN InPlace("tasks") ELSE <<>>) \o SavePlayer(TRUE), now)
    BY <1>13, <2>1 DEF SaveShop
  <2>3. now.deck = Loaded.deck /\ now.tasks = Loaded.tasks
    <3>1. own'.tasks = own.tasks
      BY <1>13 DEF SaveShop, Rebuilt, OwnTyped
    <3>2. own.tasks = Loaded.tasks
      BY <1>13 DEF SaveShop, At, ShopBooks
    <3> QED BY <2>1, <3>1, <3>2 DEF Holds
  <2>4. CASE board
    BY <2>2, <2>3, <2>4, SaveBegins
  <2>5. CASE ~board
    BY <2>2, <2>3, <2>5, Saves, SaveBegins
  <2> QED BY <2>4, <2>5
<1>14. CASE SaveShop /\ ~touched
  <2>1. PICK now : now = [Loaded EXCEPT !.tasks = own.tasks]
    OBVIOUS
  <2>2. disk' = disk /\ Write(InPlace("tasks") \o <<>>, now)
    BY <1>14, <2>1 DEF SaveShop
  <2>3. /\ now.deck = Loaded.deck /\ now.collection = Loaded.collection
        /\ now.credits = Loaded.credits
    BY <2>1 DEF Loaded
  <2> QED BY <2>2, <2>3, Saves, SaveBegins
<1>6. CASE LeaveShop /\ ~touched
  BY <1>6, FilesKept DEF LeaveShop, WriteNothing
<1>7. CASE SaveDeck
  <2>1. disk' = disk /\ Write(ViaTmp("deck") \o SavePlayer(TRUE), Holds(own, deck))
    BY <1>7 DEF SaveDeck
  <2> QED BY <2>1, SaveBegins
<1>8. CASE EndStory
  <2>1. PICK now : now = Holds(own', Loaded.deck)
    OBVIOUS
  <2>2. /\ disk' = disk /\ Write(SavePlayer(FALSE), now) /\ now.deck = Loaded.deck
        /\ now.collection = Loaded.collection
    BY <1>8, <2>1 DEF EndStory, Ending, Read, Holds
  <2> QED BY <2>2, SaveBegins
<1>9. ASSUME NEW expired \in SUBSET Tasks, LoseDuel(expired)
      PROVE  Stage' /\ KilledSafely'
  <2>1. PICK now : now = Holds(own', Loaded.deck)
    OBVIOUS
  <2>2. disk' = disk /\ Write(SavePlayer(TRUE), now) /\ now.deck = Loaded.deck
    BY <1>9, <2>1 DEF LoseDuel, Ending, Holds
  <2> QED BY <2>2, SaveBegins
<1>10. ASSUME NEW expired \in SUBSET Tasks, QuitDuel(expired)
       PROVE  Stage' /\ KilledSafely'
  <2>1. PICK now : now = Holds(own', Loaded.deck)
    OBVIOUS
  <2>2. /\ disk' = disk /\ Write(InPlace("tasks"), now) /\ now.deck = Loaded.deck
        /\ now.collection = Loaded.collection /\ now.credits = Loaded.credits
    BY <1>10, <2>1 DEF QuitDuel, Ending, Holds
  <2> QED BY <2>2, SaveBegins
<1>11. ASSUME NEW expired \in SUBSET Tasks, NEW done \in SUBSET Tasks, NEW fresh \in SUBSET Tasks,
              WinDuel(done, expired, fresh)
       PROVE  Stage' /\ KilledSafely'
  <2>1. PICK now : now = Holds(own', Loaded.deck)
    OBVIOUS
  <2>2. disk' = disk /\ Write(SavePlayer(TRUE), now) /\ now.deck = Loaded.deck
    BY <1>11, <2>1 DEF WinDuel, Ending, Holds
  <2> QED BY <2>2, SaveBegins
<1>12. CASE UNCHANGED vars
  BY <1>12, FilesKept DEF vars
<1> QED
  BY <1>1, <1>2, <1>3, <1>4, <1>5, <1>6, <1>7, <1>8, <1>9, <1>10, <1>11, <1>12, <1>13, <1>14 DEF Next

-----------------------------------------------------------------------------
(* The types after every step.                                             *)

Own == [credits : Nat, collection : Bag, tasks : SUBSET Tasks]

(* What a save may do next.                                                *)
LEMMA StepKinds ==
  ASSUME Stage, todo # <<>>
  PROVE  \/ \E x \in AllFiles : Head(todo) = <<"open", x>> \/ Head(todo) = <<"close", x>>
         \/ \E x \in {"deck", "collection"} :
              Head(todo) = <<"remove", x>> \/ Head(todo) = <<"rename", x>>
<1>1. AllFiles = {"deck", "credits", "collection", "tasks", "deck.tmp", "collection.tmp"}
  BY DEF AllFiles, Files
<1>2. todo \in {Deck4, Deck3, Deck2, Deck1, Money2, Money1, Cards4, Cards3, Cards2, Cards1,
                Story2, Story1, Board2, Board1, Tasks2, Tasks1}
  BY DEF Stage
<1> QED
  BY <1>1, <1>2, Chain

(* The files stay files.                                                   *)
LEMMA DiskTypedStep ==
  ASSUME DiskTyped, SaveTyped, Stage, Step
  PROVE  DiskTyped'
<1>1. save.last \in Data /\ todo # <<>>
  BY DEF SaveTyped, Step
<1>2. /\ Absent \in FileState /\ Whole(save.last) \in FileState
      /\ [state |-> "empty"] \in FileState
  BY <1>1 DEF FileState, Absent, Whole
<1>3. CASE \E x \in AllFiles : Head(todo) = <<"open", x>>
  <2>1. disk' = [disk EXCEPT ![Head(todo)[2]] = [state |-> "empty"]]
    BY <1>3 DEF Step
  <2> QED BY <1>2, <1>3, <2>1 DEF DiskTyped
<1>4. CASE \E x \in AllFiles : Head(todo) = <<"close", x>>
  <2>1. disk' = [disk EXCEPT ![Head(todo)[2]] = Whole(save.last)]
    BY <1>4 DEF Step
  <2> QED BY <1>2, <1>4, <2>1 DEF DiskTyped
<1>5. CASE \E x \in {"deck", "collection"} : Head(todo) = <<"remove", x>>
  <2>1. disk' = [disk EXCEPT ![Head(todo)[2]] = Absent]
    BY <1>5 DEF Step
  <2> QED BY <1>2, <1>5, <2>1 DEF DiskTyped
<1>6. CASE \E x \in {"deck", "collection"} : Head(todo) = <<"rename", x>>
  <2>1. PICK x \in {"deck", "collection"} : Head(todo) = <<"rename", x>>
    BY <1>6
  <2>2. Head(todo)[1] = "rename" /\ Head(todo)[2] = x
    BY <2>1
  <2>3. disk' = [disk EXCEPT ![Head(todo)[2]] = disk[Tmp(Head(todo)[2])],
                             ![Tmp(Head(todo)[2])] = Absent]
    BY <2>2 DEF Step
  <2>4. disk' = [disk EXCEPT ![x] = disk[Tmp(x)], ![Tmp(x)] = Absent]
    BY <2>2, <2>3, Zenon
  <2>5. Tmp(x) \in AllFiles
    BY DEF Tmp, AllFiles
  <2> QED BY <1>2, <2>4, <2>5 DEF DiskTyped
<1> QED
  BY <1>1, <1>3, <1>4, <1>5, <1>6, StepKinds

(* What is written is data.                                                *)
LEMMA WriteData ==
  ASSUME DiskTyped, disk' = disk, NEW steps, NEW now \in Data, Write(steps, now)
  PROVE  DiskTyped' /\ SaveTyped'
<1>1. Loaded \in Data
  BY LoadedTyped
<1>2. save' = [last |-> now, prev |-> Loaded, had |-> {f \in Files : disk[f].state = "whole"}]
  BY DEF Write
<1> QED
  BY <1>1, <1>2 DEF SaveTyped, DiskTyped

(* What a screen writes is data.                                           *)
LEMMA WriteTyped ==
  ASSUME DiskTyped, disk' = disk, NEW steps, NEW o \in Own, NEW d \in Bag, Write(steps, Holds(o, d))
  PROVE  DiskTyped' /\ SaveTyped'
<1>1. Holds(o, d) \in Data
  BY DEF Own, Data, Holds
<1> QED
  BY <1>1, WriteData

(* The bags of cards.                                                      *)
LEMMA BagsTyped ==
  ASSUME NEW b \in Bag, NEW c \in Cards
  PROVE  Plus(b, c) \in Bag /\ Minus(b, c) \in Bag /\ None \in Bag
BY DEF Plus, Minus, None, Bag

(* Nothing but a save changes the files.                                   *)
LEMMA NothingWritten ==
  ASSUME DiskTyped, SaveTyped, disk' = disk, save' = save
  PROVE  DiskTyped' /\ SaveTyped'
BY DEF DiskTyped, SaveTyped

(* The main menu.                                                          *)
LEMMA QuietTyped ==
  ASSUME Quiet
  PROVE  OwnTyped' /\ ListsTyped' /\ ScreenTyped'
<1>1. None \in Bag
  BY DEF None, Bag
<1>2. None \in [Cards -> Int]
  BY DEF None
<1> QED
  BY <1>1, <1>2 DEF Quiet, OwnTyped, ListsTyped, ScreenTyped

(* The screens of the shop.                                                *)
LEMMA ShopTyped ==
  ASSUME Typed, \/ EnterShop \/ Shuffle \/ AskBooster \/ PurchaseCard \/ OpenBoard \/ SaveShop
                \/ LeaveShop \/ \E c \in Cards : AskCard(c) \/ PurchaseBooster(c)
  PROVE  Typed'
<1> USE DEF Typed
<1>0. /\ Loaded.credits \in Nat /\ Loaded.collection \in Bag
      /\ Loaded.deck \in Bag /\ Loaded.tasks \in SUBSET Tasks
  BY LoadedTyped
<1>1. [c \in Cards |-> 1] \in [Cards -> Int]
  OBVIOUS
<1>2. Price \in [Cards -> Nat] /\ BoosterPrice \in Nat
  BY ProfileAssumption
<1>3. CASE EnterShop
  <2>1. DiskTyped' /\ SaveTyped'
    BY <1>3, NothingWritten DEF EnterShop, WriteNothing
  <2>2. OwnTyped'
    BY <1>0, <1>3 DEF EnterShop, Read, OwnTyped
  <2>3. ListsTyped'
    BY <1>0, <1>1, <1>3 DEF EnterShop, ListsTyped
  <2>4. ScreenTyped'
    BY <1>3 DEF EnterShop, At, ScreenTyped
  <2> QED BY <2>1, <2>2, <2>3, <2>4
<1>4. CASE Shuffle
  <2>1. DiskTyped' /\ SaveTyped'
    BY <1>4, NothingWritten DEF Shuffle, WriteNothing
  <2> QED BY <1>1, <1>4, <2>1 DEF Shuffle, OwnTyped, ListsTyped, ScreenTyped
<1>5. CASE AskBooster
  <2>1. DiskTyped' /\ SaveTyped'
    BY <1>5, NothingWritten DEF AskBooster, WriteNothing
  <2>2. ScreenTyped'
    BY <1>5 DEF AskBooster, At, ScreenTyped
  <2> QED BY <1>5, <2>1, <2>2 DEF AskBooster, OwnTyped, ListsTyped
<1>6. ASSUME NEW c \in Cards, AskCard(c) PROVE Typed'
  <2>1. DiskTyped' /\ SaveTyped'
    BY <1>6, NothingWritten DEF AskCard, WriteNothing
  <2>2. ScreenTyped'
    BY <1>6 DEF AskCard, At, ScreenTyped
  <2> QED BY <1>6, <2>1, <2>2 DEF AskCard, OwnTyped, ListsTyped
<1>7. CASE PurchaseCard
  <2>1. DiskTyped' /\ SaveTyped'
    BY <1>7, NothingWritten DEF PurchaseCard, WriteNothing
  <2>2. /\ menu \in [kind : {"card"}, card : Cards, yes : Nat]
        /\ screen = "shop" /\ screen' = screen
        /\ menu' = [menu EXCEPT !.yes = @ + 1] /\ again' = (again \/ menu.yes > 0)
    BY <1>7 DEF PurchaseCard, Pressed, At, ScreenTyped, NoMenu
  <2>3. ScreenTyped'
    BY <2>2 DEF ScreenTyped
  <2>4. OwnTyped'
    BY <1>2, <1>7, <2>2 DEF PurchaseCard, OwnTyped
  <2>5. mine' \in Bag
    BY <1>7, <2>2, BagsTyped DEF PurchaseCard, ListsTyped
  <2>6. stock' \in [Cards -> Int]
    BY <1>7, <2>2 DEF PurchaseCard, ListsTyped
  <2>7. ListsTyped'
    BY <1>7, <2>2, <2>5, <2>6 DEF PurchaseCard, ListsTyped
  <2> QED BY <2>1, <2>3, <2>4, <2>7
<1>8. ASSUME NEW c \in Cards, PurchaseBooster(c) PROVE Typed'
  <2>1. mine' \in Bag
    BY <1>8, BagsTyped DEF PurchaseBooster, ListsTyped
  <2>2. own' = [[own EXCEPT !.credits = @ - BoosterPrice] EXCEPT !.collection = mine']
    BY <1>8 DEF PurchaseBooster, ShopSaves, Rebuilt
  <2>3. own' \in Own
    <3>1. own \in Own /\ own.credits - BoosterPrice \in Nat
      BY <1>2, <1>8 DEF PurchaseBooster, OwnTyped, Own
    <3>2. PICK o \in Own : o = [own EXCEPT !.credits = @ - BoosterPrice]
      BY <3>1 DEF Own
    <3>3. own' = [o EXCEPT !.collection = mine']
      BY <2>2, <3>2
    <3> QED BY <2>1, <3>2, <3>3 DEF Own
  <2>4. PICK o \in Own : o = own'
    BY <2>3
  <2>5. disk' = disk /\ Write(SavePlayer(TRUE), Holds(o, Loaded.deck))
    BY <1>8, <2>4 DEF PurchaseBooster, ShopSaves
  <2>6. DiskTyped' /\ SaveTyped'
    BY <1>0, <2>5, WriteTyped
  <2>7. OwnTyped'
    BY <2>3 DEF OwnTyped, Own
  <2>8. /\ menu \in [kind : {"booster"}, yes : Nat]
        /\ screen = "shop" /\ screen' = screen
        /\ menu' = [menu EXCEPT !.yes = @ + 1] /\ again' = (again \/ menu.yes > 0)
    BY <1>8 DEF PurchaseBooster, Pressed, At, ScreenTyped, NoMenu
  <2>9. ScreenTyped'
    BY <2>8 DEF ScreenTyped
  <2>10. ListsTyped'
    BY <1>8, <2>1, <2>8 DEF PurchaseBooster, ListsTyped
  <2> QED BY <2>6, <2>7, <2>9, <2>10
<1>9. CASE (SaveShop \/ LeaveShop) /\ touched
  <2>1. own' = [own EXCEPT !.collection = mine]
    BY <1>9 DEF SaveShop, LeaveShop, ShopSaves, Rebuilt
  <2>2. own' \in Own
    BY <2>1 DEF OwnTyped, ListsTyped, Own
  <2>3. PICK o \in Own : o = own'
    BY <2>2
  <2>4. disk' = disk /\ \E steps : Write(steps, Holds(o, Loaded.deck))
    BY <1>9, <2>3 DEF SaveShop, LeaveShop, ShopSaves
  <2>5. DiskTyped' /\ SaveTyped'
    BY <1>0, <2>4, WriteTyped
  <2>6. OwnTyped'
    BY <2>2 DEF OwnTyped, Own
  <2> QED BY <1>9, <2>5, <2>6 DEF SaveShop, LeaveShop, ListsTyped, ScreenTyped
<1>10. CASE LeaveShop /\ ~touched
  <2>1. DiskTyped' /\ SaveTyped'
    BY <1>10, NothingWritten DEF LeaveShop, WriteNothing
  <2> QED BY <1>10, <2>1, QuietTyped DEF LeaveShop
<1>11. CASE SaveShop /\ ~touched
  <2>1. PICK now : now = [Loaded EXCEPT !.tasks = own.tasks]
    OBVIOUS
  <2>2. now \in Data
    BY <2>1, LoadedTyped DEF OwnTyped, Data
  <2>3. disk' = disk /\ own' = own /\ \E steps : Write(steps, now)
    BY <1>11, <2>1 DEF SaveShop
  <2>4. DiskTyped' /\ SaveTyped'
    BY <2>2, <2>3, WriteData
  <2> QED BY <1>11, <2>3, <2>4 DEF SaveShop, OwnTyped, ListsTyped, ScreenTyped
<1>12. CASE OpenBoard
  <2>1. DiskTyped' /\ SaveTyped'
    BY <1>12, NothingWritten DEF OpenBoard, WriteNothing
  <2> QED BY <1>12, <2>1 DEF OpenBoard, OwnTyped, ListsTyped, ScreenTyped
<1> QED
  BY <1>3, <1>4, <1>5, <1>6, <1>7, <1>8, <1>9, <1>10, <1>11, <1>12

(* The screens of the deck editor.                                         *)
LEMMA EditorTyped ==
  ASSUME Typed, \/ EnterEditor \/ LoadDeck \/ SwitchDisplay \/ SaveDeck \/ LeaveEditor
                \/ \E c \in Cards : AddRemove(c) \/ AskSale(c) \/ Sell(c)
  PROVE  Typed'
<1> USE DEF Typed
<1>0. /\ Loaded.credits \in Nat /\ Loaded.collection \in Bag
      /\ Loaded.deck \in Bag /\ Loaded.tasks \in SUBSET Tasks
      /\ None \in Bag
  BY LoadedTyped DEF None, Bag
<1>1. Price \in [Cards -> Nat]
  BY ProfileAssumption
<1>2. CASE EnterEditor
  <2>1. DiskTyped' /\ SaveTyped'
    BY <1>2, NothingWritten DEF EnterEditor, WriteNothing
  <2>2. OwnTyped'
    BY <1>0, <1>2 DEF EnterEditor, Read, OwnTyped
  <2>3. ListsTyped'
    BY <1>0, <1>2 DEF EnterEditor, ListsTyped
  <2>4. ScreenTyped'
    BY <1>2 DEF EnterEditor, At, ScreenTyped
  <2> QED BY <2>1, <2>2, <2>3, <2>4
<1>3. CASE LoadDeck
  <2>1. DiskTyped' /\ SaveTyped'
    BY <1>3, NothingWritten DEF LoadDeck, WriteNothing
  <2>2. OwnTyped'
    BY <1>3 DEF LoadDeck, OwnTyped
  <2>3. own.collection \in Bag
    BY DEF OwnTyped
  <2>4. \A c \in Cards : /\ Min({Loaded.deck[c], own.collection[c]}) \in Nat
                         /\ Min({Loaded.deck[c], own.collection[c]}) <= own.collection[c]
    BY <1>0, <2>3, MinIs DEF Bag
  <2>5. deck' = [c \in Cards |-> Min({Loaded.deck[c], own.collection[c]})]
    BY <1>3 DEF LoadDeck
  <2>6. deck' \in Bag /\ \A c \in Cards : deck'[c] <= own.collection[c]
    BY <2>4, <2>5 DEF Bag
  <2>7. mine' = [c \in Cards |-> own.collection[c] - deck'[c]]
    BY <1>3 DEF LoadDeck, Take
  <2>8. mine' \in Bag
    BY <2>3, <2>6, <2>7 DEF Bag
  <2>9. ListsTyped'
    BY <1>3, <2>6, <2>8 DEF LoadDeck, ListsTyped
  <2>10. ScreenTyped'
    BY <1>3 DEF LoadDeck, ScreenTyped
  <2> QED BY <2>1, <2>2, <2>9, <2>10
<1>4. CASE SwitchDisplay
  <2>1. DiskTyped' /\ SaveTyped'
    BY <1>4, NothingWritten DEF SwitchDisplay, WriteNothing
  <2> QED BY <1>4, <2>1 DEF SwitchDisplay, OwnTyped, ListsTyped, ScreenTyped
<1>5. ASSUME NEW c \in Cards, Sell(c) PROVE Typed'
  <2>1. DiskTyped' /\ SaveTyped'
    BY <1>5, NothingWritten DEF Sell, WriteNothing
  <2>2. /\ menu \in [kind : {"sale"}, card : Cards, yes : Nat]
        /\ screen = "editor" /\ screen' = screen
        /\ menu' = [menu EXCEPT !.yes = @ + 1] /\ again' = (again \/ menu.yes > 0)
    <3>1. /\ menu.kind = "sale" /\ UNCHANGED screen /\ screen = "editor"
          /\ menu' = [menu EXCEPT !.yes = @ + 1] /\ again' = (again \/ menu.yes > 0)
      BY <1>5, Zenon DEF Sell, Pressed, At
    <3>2. menu \in [kind : {"sale"}, card : Cards, yes : Nat]
      BY <3>1 DEF ScreenTyped, NoMenu
    <3> QED BY <3>1, <3>2
  <2>3. PICK m \in Cards : m = menu.card
    BY <2>2
  <2>4. ScreenTyped'
    BY <2>2 DEF ScreenTyped
  <2>5. OwnTyped'
    <3>1. Minus(own.collection, c) \in Bag /\ own.credits + Price[m] \in Nat
      BY <1>1, BagsTyped DEF OwnTyped
    <3>2. own' = [own EXCEPT !.credits = @ + Price[m], !.collection = Minus(@, c)]
      BY <1>5, <2>3 DEF Sell
    <3>3. own' = [credits |-> own.credits + Price[m], collection |-> Minus(own.collection, c),
                  tasks |-> own.tasks]
      BY <3>2 DEF OwnTyped
    <3> QED BY <3>1, <3>3 DEF OwnTyped
  <2>6. deck' \in Bag /\ mine' \in Bag
    <3>1. Minus(deck, c) \in Bag /\ Minus(mine, c) \in Bag
      BY BagsTyped DEF ListsTyped
    <3> QED BY <1>5, <3>1 DEF Sell, ListsTyped
  <2>7. ListsTyped'
    BY <1>5, <2>2, <2>6 DEF Sell, ListsTyped
  <2> QED BY <2>1, <2>4, <2>5, <2>7
<1>6. CASE SaveDeck
  <2>1. own \in Own /\ deck \in Bag
    BY DEF OwnTyped, ListsTyped, Own
  <2>2. DiskTyped' /\ SaveTyped'
    BY <1>6, <2>1, WriteTyped DEF SaveDeck
  <2> QED BY <1>6, <2>2 DEF SaveDeck, OwnTyped, ListsTyped, ScreenTyped
<1>7. CASE LeaveEditor
  <2>1. DiskTyped' /\ SaveTyped'
    BY <1>7, NothingWritten DEF LeaveEditor, WriteNothing
  <2> QED BY <1>7, <2>1, QuietTyped DEF LeaveEditor
<1>8. ASSUME NEW c \in Cards, AddRemove(c) PROVE Typed'
  <2>1. DiskTyped' /\ SaveTyped'
    BY <1>8, NothingWritten DEF AddRemove, WriteNothing
  <2>2. /\ Minus(deck, c) \in Bag /\ Minus(mine, c) \in Bag
        /\ Plus(deck, c) \in Bag /\ Plus(mine, c) \in Bag
    BY BagsTyped DEF ListsTyped
  <2>3. ListsTyped'
    BY <1>8, <2>2 DEF AddRemove, ListsTyped
  <2> QED BY <1>8, <2>1, <2>3 DEF AddRemove, OwnTyped, ScreenTyped
<1>9. ASSUME NEW c \in Cards, AskSale(c) PROVE Typed'
  <2>1. DiskTyped' /\ SaveTyped'
    BY <1>9, NothingWritten DEF AskSale, WriteNothing
  <2>2. ScreenTyped'
    BY <1>9 DEF AskSale, At, ScreenTyped
  <2> QED BY <1>9, <2>1, <2>2 DEF AskSale, OwnTyped, ListsTyped
<1> QED
  BY <1>2, <1>3, <1>4, <1>5, <1>6, <1>7, <1>8, <1>9

(* The end of a duel, and of a story.                                      *)
LEMMA EndTyped ==
  ASSUME Typed, NEW done \in SUBSET Tasks, NEW expired \in SUBSET Tasks, NEW fresh \in SUBSET Tasks,
         \/ EndStory \/ Ended \/ LoseDuel(expired) \/ QuitDuel(expired) \/ WinDuel(done, expired, fresh)
  PROVE  Typed'
<1> USE DEF Typed
<1>0. /\ Loaded.credits \in Nat /\ Loaded.collection \in Bag
      /\ Loaded.deck \in Bag /\ Loaded.tasks \in SUBSET Tasks
  BY LoadedTyped
<1>1. CASE Ended
  <2>1. DiskTyped' /\ SaveTyped'
    BY <1>1, NothingWritten DEF Ended, WriteNothing
  <2> QED BY <1>1, <2>1, QuietTyped DEF Ended
<1>2. CASE EndStory \/ LoseDuel(expired) \/ QuitDuel(expired) \/ WinDuel(done, expired, fresh)
  <2>1. Ending
    BY <1>2 DEF EndStory, LoseDuel, QuitDuel, WinDuel
  <2>2. own' \in Own
    <3>1. Reward * (1 + Cardinality(done)) \in Nat
      <4>1. Cardinality(done) \in Nat
        BY ProfileAssumption, FS_Subset, FS_CardinalityType
      <4>2. Reward \in Nat
        BY ProfileAssumption
      <4> QED BY <4>1, <4>2
    <3>2. Loaded.credits + Reward * (1 + Cardinality(done)) \in Nat
      BY <1>0, <3>1
    <3>3. CASE WinDuel(done, expired, fresh)
      BY <1>0, <3>2, <3>3 DEF WinDuel, Own
    <3>4. CASE EndStory \/ LoseDuel(expired) \/ QuitDuel(expired)
      <4>1. Loaded.tasks \ expired \in SUBSET Tasks
        BY <1>0
      <4>2. CASE EndStory
        BY <1>0, <4>2 DEF EndStory, Read, Own
      <4>3. CASE LoseDuel(expired) \/ QuitDuel(expired)
        <5>1. own' = [credits |-> Loaded.credits, collection |-> Loaded.collection,
                      tasks |-> Loaded.tasks \ expired]
          BY <4>3 DEF LoseDuel, QuitDuel
        <5> QED BY <1>0, <4>1, <5>1 DEF Own
      <4> QED BY <3>4, <4>2, <4>3
    <3> QED BY <1>2, <3>3, <3>4
  <2>3. PICK o \in Own : o = own'
    BY <2>2
  <2>4. disk' = disk /\ \E steps : Write(steps, Holds(o, Loaded.deck))
    BY <1>2, <2>3 DEF EndStory, LoseDuel, QuitDuel, WinDuel, Ending
  <2>5. DiskTyped' /\ SaveTyped'
    BY <1>0, <2>4, WriteTyped
  <2>6. OwnTyped'
    BY <2>2 DEF OwnTyped, Own
  <2>7. ListsTyped' /\ ScreenTyped'
    BY <2>1 DEF Ending, At, ListsTyped, ScreenTyped
  <2> QED BY <2>5, <2>6, <2>7
<1> QED
  BY <1>1, <1>2

(* Every action keeps the types.                                           *)
LEMMA TypedNext ==
  ASSUME Typed, Stage, [Next]_vars
  PROVE  Typed'
<1>1. CASE Step
  <2>1. DiskTyped'
    BY <1>1, DiskTypedStep DEF Typed
  <2> QED BY <1>1, <2>1 DEF Step, Typed, SaveTyped, OwnTyped, ListsTyped, ScreenTyped
<1>2. CASE Kill
  <2>1. DiskTyped' /\ SaveTyped'
    BY <1>2, NothingWritten DEF Kill, Typed
  <2> QED BY <1>2, <2>1, QuietTyped DEF Kill, Typed
<1>3. CASE MenuCloses
  <2>1. DiskTyped' /\ SaveTyped'
    BY <1>3, NothingWritten DEF MenuCloses, WriteNothing, Typed
  <2> QED BY <1>3, <2>1 DEF MenuCloses, Typed, OwnTyped, ListsTyped, ScreenTyped
<1>4. CASE UNCHANGED vars
  BY <1>4 DEF vars, Typed, DiskTyped, SaveTyped, OwnTyped, ListsTyped, ScreenTyped
<1>5. {} \in SUBSET Tasks
  OBVIOUS
<1> QED
  BY <1>1, <1>2, <1>3, <1>4, <1>5, ShopTyped, EditorTyped, EndTyped DEF Next

-----------------------------------------------------------------------------
(* What the player is shown, after every step.                             *)

(* What is loaded changes only with the files.                             *)
LEMMA LoadedKept ==
  ASSUME disk' = disk
  PROVE  Loaded' = Loaded
BY DEF Loaded, Part

(* A save leaves the screens alone.                                        *)
LEMMA BooksStep ==
  ASSUME IInv, Step
  PROVE  ShopBooks' /\ EditorBooks' /\ EveryCardShown' /\ SaleShown'
<1>1. /\ UNCHANGED <<screen, own, mine, deck, shown, touched, menu, save, again>> /\ todo # <<>>
  BY DEF Step
<1>2. todo' = <<>> => Loaded'.credits = save.last.credits /\ Loaded'.collection = save.last.collection
  BY <1>1, StageStep, SaveOver DEF IInv, Typed
<1>t. todo' = <<>> => Loaded'.tasks = save.last.tasks
  BY <1>1, StageStep, SaveOver DEF IInv, Typed
<1>3. ShopBooks'
  BY <1>1, <1>2, <1>t DEF IInv, ShopBooks
<1>4. EditorBooks'
  <2>1. SUFFICES ASSUME screen' \in {"welcome", "editor"}, ~again' PROVE EditorBooks'
    BY DEF EditorBooks
  <2>2. own.credits = save.last.credits /\ own.collection = save.last.collection
    BY <1>1, <2>1 DEF IInv, EditorBooks
  <2>3. CASE todo' = <<>>
    <3>1. Worth(own)' = Worth(Loaded)'
      BY <1>1, <1>2, <2>2, <2>3 DEF Worth
    <3> QED BY <2>3, <3>1 DEF EditorBooks
  <2>4. CASE todo' # <<>>
    BY <1>1, <2>2, <2>4 DEF EditorBooks
  <2> QED BY <2>3, <2>4
<1>5. EveryCardShown'
  BY <1>1 DEF IInv, EveryCardShown
<1>6. SaleShown'
  BY <1>1 DEF IInv, SaleShown, Displayed
<1> QED
  BY <1>3, <1>4, <1>5, <1>6

(* The shop.                                                               *)
LEMMA BooksShop ==
  ASSUME IInv, \/ EnterShop \/ Shuffle \/ AskBooster \/ PurchaseCard \/ OpenBoard \/ SaveShop
               \/ LeaveShop \/ \E c \in Cards : AskCard(c) \/ PurchaseBooster(c)
  PROVE  ShopBooks' /\ EditorBooks' /\ EveryCardShown' /\ SaleShown'
<1>1. screen' \notin {"welcome", "editor"}
  BY DEF EnterShop, Shuffle, AskBooster, PurchaseCard, OpenBoard, SaveShop, LeaveShop, AskCard, PurchaseBooster,
         At, Quiet
<1>2. EditorBooks' /\ EveryCardShown'
  BY <1>1 DEF EditorBooks, EveryCardShown
<1>3. CASE EnterShop
  <2>1. menu = NoMenu /\ menu' = menu
    BY <1>3 DEF EnterShop, At, IInv, Typed, ScreenTyped
  <2>2. ShopBooks'
    BY <1>3, LoadedKept DEF EnterShop, At, Read, WriteNothing, ShopBooks
  <2> QED BY <1>2, <2>1, <2>2 DEF SaleShown
<1>4. CASE Shuffle \/ AskBooster \/ OpenBoard \/ \E c \in Cards : AskCard(c)
  <2>1. UNCHANGED <<disk, screen, own, mine, touched, todo, save>>
    BY <1>4 DEF Shuffle, AskBooster, OpenBoard, AskCard, WriteNothing
  <2>2. ShopBooks'
    BY <2>1, LoadedKept DEF IInv, ShopBooks
  <2>3. menu' = NoMenu \/ menu'.kind # "sale"
    BY <1>4 DEF Shuffle, AskBooster, OpenBoard, AskCard
  <2> QED BY <1>2, <2>2, <2>3 DEF SaleShown
<1>5. CASE PurchaseCard
  <2>1. menu'.yes # 0
    <3>1. /\ menu \in [kind : {"card"}, card : Cards, yes : Nat]
          /\ menu' = [menu EXCEPT !.yes = @ + 1]
      BY <1>5 DEF PurchaseCard, Pressed, IInv, Typed, ScreenTyped, NoMenu
    <3> QED BY <3>1
  <2>2. touched'
    BY <1>5 DEF PurchaseCard
  <2>3. ShopBooks'
    <3>1. UNCHANGED <<disk, screen, todo, save>> /\ own'.tasks = own.tasks
      BY <1>5 DEF PurchaseCard, WriteNothing, IInv, Typed, OwnTyped
    <3> QED BY <2>2, <3>1, LoadedKept DEF IInv, ShopBooks
  <2> QED BY <1>2, <2>1, <2>3 DEF SaleShown
<1>6. ASSUME NEW c \in Cards, PurchaseBooster(c) PROVE ShopBooks' /\ SaleShown'
  <2>1. menu'.yes # 0
    <3>1. /\ menu \in [kind : {"booster"}, yes : Nat]
          /\ menu' = [menu EXCEPT !.yes = @ + 1]
      BY <1>6 DEF PurchaseBooster, Pressed, IInv, Typed, ScreenTyped, NoMenu
    <3> QED BY <3>1
  <2>2. /\ todo' # <<>> /\ save'.last = Holds(own', Loaded.deck) /\ own'.collection = mine'
    <3>1. /\ own' = [[own EXCEPT !.credits = @ - BoosterPrice] EXCEPT !.collection = mine']
          /\ todo' = SavePlayer(TRUE) /\ save'.last = Holds(own', Loaded.deck)
      BY <1>6 DEF PurchaseBooster, ShopSaves, Rebuilt, Write
    <3>2. own'.collection = mine'
      BY <3>1 DEF IInv, Typed, OwnTyped
    <3> QED BY <3>1, <3>2, Saves, Chain
  <2>3. ShopBooks'
    BY <2>2 DEF ShopBooks, Holds
  <2> QED BY <2>1, <2>3 DEF SaleShown
<1>7. CASE (SaveShop \/ LeaveShop) /\ touched
  <2>1. /\ own' = [own EXCEPT !.collection = mine] /\ mine' = mine
        /\ \/ todo' = SavePlayer(TRUE)
           \/ todo' = InPlace("tasks") \o SavePlayer(TRUE)
           \/ todo' = <<>> \o SavePlayer(TRUE)
        /\ save'.last = Holds(own', Loaded.deck)
        /\ UNCHANGED <<menu, shown, deck>>
    <3>1. CASE LeaveShop
      BY <1>7, <3>1 DEF LeaveShop, ShopSaves, Rebuilt, Write
    <3>2. CASE SaveShop
      BY <1>7, <3>2 DEF SaveShop, Rebuilt, Write
    <3> QED BY <1>7, <3>1, <3>2
  <2>2. own'.collection = mine'
    BY <2>1 DEF IInv, Typed, OwnTyped
  <2>3. todo' # <<>>
    BY <2>1, Saves, Chain
  <2>4. ShopBooks'
    BY <2>1, <2>2, <2>3 DEF ShopBooks, Holds
  <2>5. SaleShown'
    BY <2>1 DEF IInv, SaleShown, Displayed
  <2> QED BY <1>2, <2>4, <2>5
<1>8. CASE LeaveShop /\ ~touched
  BY <1>2, <1>8 DEF LeaveShop, Quiet, ShopBooks, SaleShown
<1>9. CASE SaveShop /\ ~touched
  <2>1. /\ screen = "shop" /\ todo = <<>> /\ own' = own /\ mine' = mine
        /\ todo' = InPlace("tasks") \o <<>>
        /\ save'.last = [Loaded EXCEPT !.tasks = own.tasks]
        /\ UNCHANGED <<menu, shown, deck>>
    BY <1>9 DEF SaveShop, At, Write
  <2>2. todo' # <<>>
    BY <2>1, Saves, Chain
  <2>3. /\ save'.last.credits = Loaded.credits /\ save'.last.collection = Loaded.collection
        /\ save'.last.tasks = own.tasks
    BY <2>1 DEF Loaded
  <2>4. ShopBooks'
    BY <1>9, <2>1, <2>2, <2>3 DEF IInv, ShopBooks
  <2>5. SaleShown'
    BY <2>1 DEF IInv, SaleShown, Displayed
  <2> QED BY <1>2, <2>4, <2>5
<1> QED
  BY <1>2, <1>3, <1>4, <1>5, <1>6, <1>7, <1>8, <1>9

(* The deck editor.                                                        *)
LEMMA BooksEditor ==
  ASSUME IInv, \/ EnterEditor \/ LoadDeck \/ SwitchDisplay \/ SaveDeck \/ LeaveEditor
               \/ \E c \in Cards : AddRemove(c) \/ AskSale(c) \/ Sell(c)
  PROVE  ShopBooks' /\ EditorBooks' /\ EveryCardShown' /\ SaleShown'
<1>1. screen' # "shop"
  BY DEF EnterEditor, LoadDeck, SwitchDisplay, Sell, SaveDeck, LeaveEditor, AddRemove, AskSale,
         At, Quiet
<1>2. ShopBooks'
  BY <1>1 DEF ShopBooks
<1>3. CASE EnterEditor
  <2>1. menu' = NoMenu /\ screen' = "welcome" /\ todo' = <<>>
    BY <1>3 DEF EnterEditor, At, WriteNothing, IInv, Typed, ScreenTyped
  <2>2. own'.credits = Loaded.credits /\ own'.collection = Loaded.collection /\ Loaded' = Loaded
    BY <1>3, LoadedKept DEF EnterEditor, Read
  <2>3. Worth(own)' = Worth(Loaded)'
    BY <2>2 DEF Worth
  <2> QED BY <1>2, <2>1, <2>3 DEF EditorBooks, EveryCardShown, SaleShown
<1>4. CASE LoadDeck
  <2>1. /\ menu' = NoMenu /\ todo' = <<>> /\ todo = <<>> /\ screen \in {"welcome", "editor"}
        /\ UNCHANGED <<disk, own, again>>
        /\ deck' = [c \in Cards |-> Min({Loaded.deck[c], own.collection[c]})]
        /\ mine' = Take(own.collection, deck')
    BY <1>4 DEF LoadDeck, WriteNothing
  <2>2. EditorBooks'
    BY <2>1, LoadedKept DEF IInv, EditorBooks
  <2>3. EveryCardShown'
    <3>1. own.collection \in [Cards -> Nat] /\ Loaded.deck \in [Cards -> Nat]
      BY LoadedTyped DEF IInv, Typed, OwnTyped, Bag
    <3>2. \A c \in Cards : deck'[c] \in Nat
      BY <2>1, <3>1, MinIs
    <3>3. \A c \in Cards : mine'[c] = own.collection[c] - deck'[c]
      BY <2>1 DEF Take
    <3>4. ASSUME NEW c \in Cards PROVE mine'[c] + deck'[c] = own'.collection[c]
      <4>1. /\ own'.collection[c] = own.collection[c] /\ own.collection[c] \in Nat
            /\ deck'[c] \in Nat /\ mine'[c] = own.collection[c] - deck'[c]
        BY <2>1, <3>1, <3>2, <3>3
      <4> QED BY <4>1
    <3> QED BY <3>4 DEF EveryCardShown
  <2> QED BY <1>2, <2>1, <2>2, <2>3 DEF SaleShown
<1>5. CASE SwitchDisplay
  <2>1. /\ menu' = NoMenu /\ UNCHANGED <<disk, screen, own, mine, deck, again, todo, save>>
    BY <1>5 DEF SwitchDisplay, WriteNothing
  <2> QED BY <1>2, <2>1, LoadedKept DEF IInv, EditorBooks, EveryCardShown, SaleShown
<1>6. ASSUME NEW c \in Cards, Sell(c)
      PROVE  EditorBooks' /\ EveryCardShown' /\ SaleShown'
  <2>1. /\ menu \in [kind : {"sale"}, card : Cards, yes : Nat]
        /\ menu' = [menu EXCEPT !.yes = @ + 1] /\ again' = (again \/ menu.yes > 0)
    <3>1. /\ menu.kind = "sale" /\ UNCHANGED screen
          /\ menu' = [menu EXCEPT !.yes = @ + 1] /\ again' = (again \/ menu.yes > 0)
      BY <1>6, Zenon DEF Sell, Pressed
    <3>2. menu \in [kind : {"sale"}, card : Cards, yes : Nat]
      BY <3>1 DEF IInv, Typed, ScreenTyped, NoMenu
    <3> QED BY <3>1, <3>2
  <2>2. SaleShown'
    <3>1. menu'.yes # 0
      BY <2>1
    <3> QED BY <3>1 DEF SaleShown
  <2>4. CASE again'
    BY <1>2, <2>2, <2>4 DEF EditorBooks, EveryCardShown
  <2>5. CASE ~again'
    <3>1. ~again /\ menu.yes = 0 /\ menu # NoMenu /\ menu.kind = "sale"
      <4>1. ~again /\ ~(menu.yes > 0)
        BY <2>1, <2>5, Zenon
      <4> QED BY <2>1, <4>1 DEF NoMenu
    <3>2. Displayed[c] > 0 /\ screen = "editor" /\ todo = <<>>
      BY <1>6 DEF Sell, At
    <3>0. c = menu.card
      BY <1>6, <3>1 DEF IInv, SaleShown, Sell
    <3>3. /\ own.collection \in [Cards -> Nat] /\ mine \in [Cards -> Nat] /\ deck \in [Cards -> Nat]
          /\ \A d \in Cards : mine[d] + deck[d] = own.collection[d]
      BY <3>1, <3>2 DEF IInv, Typed, OwnTyped, ListsTyped, Bag, EveryCardShown
    <3>4. own.collection[c] > 0
      BY <3>2, <3>3 DEF Displayed
    <3>5. /\ own' = [own EXCEPT !.credits = @ + Price[c], !.collection = Minus(@, c)]
          /\ UNCHANGED <<disk, todo, screen>>
      BY <1>6, <3>0 DEF Sell, WriteNothing
    <3>6. own'.credits = own.credits + Price[c] /\ own'.collection = Minus(own.collection, c)
      BY <3>5 DEF IInv, Typed, OwnTyped
    <3>7. EditorBooks'
      <4>1. own \in Own /\ own' \in Own
        BY <1>6, EditorTyped DEF IInv, Typed, OwnTyped, Own
      <4>2. PICK p \in Own : p = own'
        BY <4>1
      <4>3. Worth(p) = Worth(own)
        BY <3>4, <3>6, <4>1, <4>2, WorthLess DEF Own
      <4>4. Worth(own) = Worth(Loaded)
        BY <3>1, <3>2 DEF IInv, EditorBooks
      <4>5. Worth(own)' = Worth(Loaded)'
        BY <3>5, <4>2, <4>3, <4>4, LoadedKept DEF Worth
      <4> QED BY <3>2, <3>5, <4>5 DEF EditorBooks
    <3>8. EveryCardShown'
      <4>1. \A d \in Cards : own'.collection[d] = IF d = c THEN own.collection[d] - 1 ELSE own.collection[d]
        BY <3>3, <3>4, <3>6 DEF Minus
      <4>2. CASE shown = "deck"
        <5>1. deck' = Minus(deck, c) /\ mine' = mine /\ deck[c] > 0
          BY <1>6, <3>2, <4>2 DEF Sell, Displayed
        <5>2. \A d \in Cards : deck'[d] = IF d = c THEN deck[d] - 1 ELSE deck[d]
          BY <3>3, <5>1 DEF Minus
        <5>3. \A d \in Cards : mine'[d] + deck'[d] = own'.collection[d]
          BY <3>3, <4>1, <5>1, <5>2
        <5> QED BY <5>3 DEF EveryCardShown
      <4>3. CASE shown # "deck"
        <5>1. mine' = Minus(mine, c) /\ deck' = deck /\ mine[c] > 0
          BY <1>6, <3>2, <4>3 DEF Sell, Displayed
        <5>2. \A d \in Cards : mine'[d] = IF d = c THEN mine[d] - 1 ELSE mine[d]
          BY <3>3, <5>1 DEF Minus
        <5>3. \A d \in Cards : mine'[d] + deck'[d] = own'.collection[d]
          BY <3>3, <4>1, <5>1, <5>2
        <5> QED BY <5>3 DEF EveryCardShown
      <4> QED BY <4>2, <4>3
    <3> QED BY <1>2, <2>2, <3>7, <3>8
  <2> QED BY <2>4, <2>5
<1>7. CASE SaveDeck
  <2>1. /\ menu' = NoMenu /\ UNCHANGED <<disk, screen, own, mine, deck, again>>
        /\ todo' = ViaTmp("deck") \o SavePlayer(TRUE) /\ save'.last = Holds(own, deck)
    BY <1>7 DEF SaveDeck, Write
  <2>2. todo' # <<>>
    BY <2>1, Saves, Chain
  <2>3. EditorBooks'
    <3>1. save'.last.credits = own.credits /\ save'.last.collection = own.collection
      BY <2>1 DEF Holds
    <3>2. own'.credits = save'.last.credits /\ own'.collection = save'.last.collection
      BY <2>1, <3>1
    <3> QED BY <2>2, <3>2 DEF EditorBooks
  <2> QED BY <1>2, <2>1, <2>3 DEF IInv, EveryCardShown, SaleShown
<1>8. CASE LeaveEditor
  BY <1>2, <1>8 DEF LeaveEditor, Quiet, EditorBooks, EveryCardShown, SaleShown
<1>9. ASSUME NEW c \in Cards, AddRemove(c)
      PROVE  EditorBooks' /\ EveryCardShown' /\ SaleShown'
  <2>1. menu' = NoMenu /\ UNCHANGED <<disk, screen, own, again, todo, save>> /\ Displayed[c] > 0
    BY <1>9 DEF AddRemove, WriteNothing
  <2>2. EditorBooks'
    BY <2>1, LoadedKept DEF IInv, EditorBooks
  <2>3. mine \in [Cards -> Nat] /\ deck \in [Cards -> Nat]
    BY DEF IInv, Typed, ListsTyped, Bag
  <2>4. \A d \in Cards : mine'[d] + deck'[d] = mine[d] + deck[d]
    <3>1. CASE shown = "collection"
      <4>1. mine' = Minus(mine, c) /\ deck' = Plus(deck, c) /\ mine[c] > 0
        BY <1>9, <2>1, <3>1 DEF AddRemove, Displayed
      <4> QED BY <2>3, <4>1 DEF Minus, Plus
    <3>2. CASE shown = "deck"
      <4>1. mine' = Plus(mine, c) /\ deck' = Minus(deck, c) /\ deck[c] > 0
        BY <1>9, <2>1, <3>2 DEF AddRemove, Displayed
      <4> QED BY <2>3, <4>1 DEF Minus, Plus
    <3> QED BY <3>1, <3>2 DEF IInv, Typed, ListsTyped
  <2>5. EveryCardShown'
    BY <2>1, <2>4 DEF IInv, EveryCardShown
  <2> QED BY <2>1, <2>2, <2>5 DEF SaleShown
<1>10. ASSUME NEW c \in Cards, AskSale(c)
       PROVE  EditorBooks' /\ EveryCardShown' /\ SaleShown'
  <2>1. /\ UNCHANGED <<disk, screen, own, mine, deck, shown, again, todo, save>>
        /\ menu' = [kind |-> "sale", card |-> c, yes |-> 0] /\ Displayed[c] > 0
    BY <1>10 DEF AskSale, WriteNothing
  <2>2. SaleShown'
    BY <2>1 DEF SaleShown, Displayed
  <2> QED BY <2>1, <2>2, LoadedKept DEF IInv, EditorBooks, EveryCardShown
<1> QED
  BY <1>2, <1>3, <1>4, <1>5, <1>6, <1>7, <1>8, <1>9, <1>10

(* The main menu, and the end of a duel and of a story.                    *)
LEMMA BooksElsewhere ==
  ASSUME IInv, \/ Kill \/ MenuCloses \/ Ended \/ EndStory
               \/ \E expired \in SUBSET Tasks :
                    \/ LoseDuel(expired) \/ QuitDuel(expired)
                    \/ \E done, fresh \in SUBSET Tasks : WinDuel(done, expired, fresh)
  PROVE  ShopBooks' /\ EditorBooks' /\ EveryCardShown' /\ SaleShown'
<1>1. CASE Kill \/ Ended
  BY <1>1 DEF Kill, Ended, Quiet, ShopBooks, EditorBooks, EveryCardShown, SaleShown
<1>2. CASE Ending
  <2>1. screen' = "ending" /\ menu' = NoMenu
    BY <1>2 DEF Ending, At, IInv, Typed, ScreenTyped
  <2> QED BY <2>1 DEF ShopBooks, EditorBooks, EveryCardShown, SaleShown
<1>3. CASE MenuCloses
  <2>1. menu' = NoMenu /\ UNCHANGED <<disk, screen, own, mine, deck, touched, again, todo, save>>
    BY <1>3 DEF MenuCloses, WriteNothing
  <2> QED BY <2>1, LoadedKept DEF IInv, ShopBooks, EditorBooks, EveryCardShown, SaleShown
<1> QED
  BY <1>1, <1>2, <1>3 DEF EndStory, LoseDuel, QuitDuel, WinDuel

-----------------------------------------------------------------------------
(* The invariant.                                                          *)

(* It holds at the start.                                                  *)
LEMMA InitInvariant == Init => IInv
<1> SUFFICES ASSUME Init PROVE IInv
  OBVIOUS
<1>1. /\ None \in Bag /\ Default \in Nat /\ FirstDeck \in Bag
      /\ None \in [Cards -> Int]
  BY ProfileAssumption DEF None, Bag
<1>2. Start \in Data
  BY <1>1 DEF Start, Data
<1>3. disk = [f \in AllFiles |-> IF f = "collection" THEN Whole(Start) ELSE Absent]
  <2>1. Files \cup {Tmp(g) : g \in {"deck", "collection"}} = AllFiles
    BY DEF Tmp, AllFiles
  <2> QED BY <2>1 DEF Init
<1>4. DiskTyped
  BY <1>2, <1>3 DEF DiskTyped, FileState, Whole, Absent
<1>5. Typed
  <2>1. save = [last |-> Start, prev |-> Start, had |-> {"collection"}] /\ "collection" \in Files
    BY DEF Init, Files
  <2>2. SaveTyped
    BY <1>2, <2>1 DEF SaveTyped
  <2> QED BY <1>1, <1>4, <2>2 DEF Init, Typed, OwnTyped, ListsTyped, ScreenTyped
<1>6. Progress(Files, {})
  <2>1. /\ disk["collection"].state = "whole" /\ disk["collection"].data = Start
        /\ \A f \in Files \ {"collection"} : disk[f].state # "whole"
    BY <1>3 DEF AllFiles, Files, Whole, Absent
  <2>2. save.last = Start /\ save.prev = Start
    BY DEF Init
  <2>3. Done("collection")
    BY <2>1, <2>2 DEF Done, New, Part
  <2>4. ASSUME NEW f \in Files \ {"collection"} PROVE Done(f)
    <3>1. Loaded[f] = Blank[f]
      BY <2>1, LoadedFrom
    <3>2. Blank[f] = Start[f]
      BY DEF Files, Blank, Start
    <3> QED BY <2>2, <3>1, <3>2 DEF Done, Old, Same
  <2>5. \A f \in Files : f \in save.had => disk[f].state = "whole"
    BY <2>1 DEF Init
  <2>6. \A f \in Files : Done(f)
    BY <2>3, <2>4
  <2> QED BY <2>5, <2>6 DEF Progress
<1>7. Stage
  BY DEF Stage, Init
<1>8. KilledSafely
  BY <1>5, <1>6, <1>7, StageIsSafe DEF Typed
<1>9. ShopBooks /\ EditorBooks /\ EveryCardShown /\ SaleShown
  BY DEF Init, ShopBooks, EditorBooks, EveryCardShown, SaleShown
<1> QED
  BY <1>5, <1>7, <1>8, <1>9 DEF IInv

(* Every action keeps it.                                                  *)
LEMMA StepInvariant == IInv /\ [Next]_vars => IInv'
<1> SUFFICES ASSUME IInv, [Next]_vars PROVE IInv'
  OBVIOUS
<1>1. Typed'
  BY TypedNext DEF IInv
<1>2. Stage' /\ KilledSafely'
  BY <1>1, StageNext
<1>3. ShopBooks' /\ EditorBooks' /\ EveryCardShown' /\ SaleShown'
  <2>1. CASE UNCHANGED vars
    BY <2>1, LoadedKept DEF vars, IInv, ShopBooks, EditorBooks, EveryCardShown, SaleShown, Displayed
  <2>2. CASE Step
    BY <2>2, BooksStep
  <2>3. CASE \/ EnterShop \/ Shuffle \/ AskBooster \/ PurchaseCard \/ OpenBoard \/ SaveShop
             \/ LeaveShop \/ \E c \in Cards : AskCard(c) \/ PurchaseBooster(c)
    BY <2>3, BooksShop
  <2>4. CASE \/ EnterEditor \/ LoadDeck \/ SwitchDisplay \/ SaveDeck \/ LeaveEditor
             \/ \E c \in Cards : AddRemove(c) \/ AskSale(c) \/ Sell(c)
    BY <2>4, BooksEditor
  <2>5. CASE \/ Kill \/ MenuCloses \/ Ended \/ EndStory
             \/ \E expired \in SUBSET Tasks :
                  \/ LoseDuel(expired) \/ QuitDuel(expired)
                  \/ \E done, fresh \in SUBSET Tasks : WinDuel(done, expired, fresh)
    BY <2>5, BooksElsewhere
  <2> QED BY <2>1, <2>2, <2>3, <2>4, <2>5 DEF Next
<1> QED
  BY <1>1, <1>2, <1>3 DEF IInv

(* The files are always those of a save that is so far, and what the       *)
(* screens show always adds up with them.                                  *)
THEOREM Invariant == Spec => []IInv
<1>1. Init => IInv
  BY InitInvariant
<1>2. IInv /\ [Next]_vars => IInv'
  BY StepInvariant
<1> QED
  BY <1>1, <1>2, PTL DEF Spec

(* However often Yes is pressed while a menu is closing (purchaseCard(),   *)
(* purchaseBooster()), nobody owes credits, and the shop knows of every    *)
(* card it sold and has not saved.                                         *)
THEOREM ShopAlwaysKeepsBooks == Spec => []ShopKeepsBooks
<1>1. IInv => ShopKeepsBooks
  <2> SUFFICES ASSUME IInv PROVE ShopKeepsBooks
    OBVIOUS
  <2>1. Loaded.credits \in Nat
    BY LoadedTyped DEF IInv, Typed
  <2>2. NoDebt
    BY <2>1 DEF IInv, Typed, OwnTyped, NoDebt
  <2>3. TypeOK
    <3>1. \A f \in DOMAIN disk : disk[f].state \in {"absent", "empty", "whole"}
      BY DEF IInv, Typed, DiskTyped, FileState
    <3> QED BY <3>1 DEF IInv, Typed, OwnTyped, ListsTyped, ScreenTyped, TypeOK
  <2>4. TouchedIfUnsaved
    BY DEF IInv, ShopBooks, TouchedIfUnsaved, At
  <2> QED BY <2>2, <2>3, <2>4 DEF ShopKeepsBooks
<1> QED
  BY <1>1, Invariant, PTL

(* A program killed between any two steps of PlayerData::save(),           *)
(* MTGDeck::save() and, in the shop, the save of the task board before     *)
(* them, leaves the files of two saves that follow each other, their       *)
(* changes written in order, and costs the player at most one of the files *)
(* there were - the collection only between its removal and its renaming.  *)
THEOREM KilledAlwaysSafely == Spec => []KilledSafely
<1>1. IInv => KilledSafely
  BY DEF IInv
<1> QED
  BY <1>1, Invariant, PTL

(* As long as Yes is pressed once, every card of the collection is in the  *)
(* deck or among the others, and a sale changes cards into what they are   *)
(* worth, whichever list they were sold from.                              *)
THEOREM EditorAlwaysKeepsBooks == Spec => []EditorKeepsBooks
<1>1. IInv => EditorKeepsBooks
  <2> SUFFICES ASSUME IInv PROVE EditorKeepsBooks
    OBVIOUS
  <2>1. FairSale
    BY DEF IInv, EditorBooks, FairSale
  <2> QED BY <2>1 DEF IInv, EditorKeepsBooks
<1> QED
  BY <1>1, Invariant, PTL
=============================================================================
