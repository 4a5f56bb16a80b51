---------------------------- MODULE Zones_proofs ----------------------------
(***************************************************************************)
(* What is proved of zones and the objects in them, for any decks, tokens, *)
(* owners, abilities, starting zones and bounds: no card is lost or        *)
(* doubled, whatever an object was leads to what it is, tokens cease to    *)
(* exist, and the sweep of the cards in play never looks past them.        *)
(*                                                                         *)
(* All of it follows from what one call of putInZone() keeps (Sound), and  *)
(* from what the events that wait say of the objects they are about.       *)
(***************************************************************************)
EXTENDS Zones, Sums_proofs, SequenceTheorems, FiniteSetTheorems, WellFoundedInduction, TLAPS

-----------------------------------------------------------------------------
(* Numbers and sequences.                                                  *)

(* The least number of a set, and the greatest below a bound.              *)
LEMMA MinIsLeast ==
  ASSUME NEW S \in SUBSET Nat, S # {}
  PROVE  Min(S) \in S /\ \A y \in S : Min(S) <= y
<1>1. PICK n \in S : \A m \in S : ~ (<<m, n>> \in OpToRel(<, Nat))
  BY NatLessThanWellFounded, WFMin
<1>2. ASSUME NEW m \in S
      PROVE  n <= m
  <2>1. m < n => <<m, n>> \in OpToRel(<, Nat)
    BY DEF OpToRel
  <2>2. m \in Nat /\ n \in Nat /\ ~ (m < n)
    BY <1>1, <2>1
  <2> QED BY <2>2
<1> QED
  BY <1>1, <1>2 DEF Min

LEMMA MaxIsGreatest ==
  ASSUME NEW S \in SUBSET Nat, S # {}, NEW N \in Nat, \A y \in S : y <= N
  PROVE  Max(S) \in S /\ \A y \in S : Max(S) >= y
<1> DEFINE Down == {n \in Nat : N - n \in S}
<1>1. Down \in SUBSET Nat /\ Down # {}
  <2>1. PICK y \in S : TRUE
    OBVIOUS
  <2>2. N - y \in Nat /\ N - (N - y) = y
    BY <2>1
  <2> QED BY <2>1, <2>2
<1>2. PICK d \in Nat : d = Min(Down) /\ d \in Down /\ \A e \in Down : d <= e
  <2> HIDE DEF Down
  <2> QED BY <1>1, MinIsLeast
<1>3. \A y \in S : N - d >= y
  <2>1. TAKE y \in S
  <2>2. N - y \in Down
    OBVIOUS
  <2> QED BY <1>2, <2>2
<1>4. N - d \in S
  BY <1>2
<1> QED
  BY <1>3, <1>4 DEF Max

(* A sequence in which nothing is twice.                                   *)
NoTwice(s) == \A i, j \in 1..Len(s) : s[i] = s[j] => i = j

(* A function of the first n numbers is a sequence.                        *)
LEMMA Listed ==
  ASSUME NEW S, NEW n \in Nat, NEW s \in [1..n -> S]
  PROVE  s \in Seq(S) /\ Len(s) = n
OBVIOUS

(* What is left when one entry is taken out.                               *)
LEMMA TakenOut ==
  ASSUME NEW s \in Seq(Nat), NEW i \in 1..Len(s)
  PROVE  /\ RemoveAt(s, i) \in Seq(Nat) /\ Len(RemoveAt(s, i)) = Len(s) - 1
         /\ \A j \in 1..Len(s) - 1 : RemoveAt(s, i)[j] = IF j < i THEN s[j] ELSE s[j + 1]
<1> DEFINE l == SubSeq(s, 1, i - 1)
           r == SubSeq(s, i + 1, Len(s))
<1>0. Len(s) \in Nat /\ i \in Nat /\ 1 <= i /\ i <= Len(s)
  BY LenProperties
<1>1. /\ l \in Seq(Nat) /\ Len(l) = i - 1
      /\ \A j \in 1..i - 1 : l[j] = s[j]
  OBVIOUS
<1>2. /\ r \in Seq(Nat) /\ Len(r) = Len(s) - i
      /\ \A j \in 1..Len(s) - i : r[j] = s[j + i]
  OBVIOUS
<1>3. /\ l \o r \in Seq(Nat) /\ Len(l \o r) = Len(l) + Len(r)
      /\ \A j \in 1..Len(l) + Len(r) :
            (l \o r)[j] = IF j <= Len(l) THEN l[j] ELSE r[j - Len(l)]
  BY <1>1, <1>2, ConcatProperties
<1>4. RemoveAt(s, i) = l \o r
  BY DEF RemoveAt
<1> HIDE DEF l, r
<1>5. ASSUME NEW j \in 1..Len(s) - 1
      PROVE  (l \o r)[j] = IF j < i THEN s[j] ELSE s[j + 1]
  <2>1. CASE j < i
    <3>1. j \in 1..i - 1 /\ j <= Len(l) /\ j \in 1..Len(l) + Len(r)
      BY <1>0, <1>1, <1>2, <2>1, SMTT(60)
    <3> QED
      BY <1>1, <1>3, <2>1, <3>1
  <2>2. CASE j >= i
    <3>1. /\ j - (i - 1) \in 1..Len(s) - i /\ j - (i - 1) + i = j + 1
          /\ ~ (j <= Len(l)) /\ j \in 1..Len(l) + Len(r)
      BY <1>0, <1>1, <1>2, <2>2
    <3>2. (l \o r)[j] = r[j - (i - 1)]
      BY <1>1, <1>3, <3>1
    <3>3. r[j - (i - 1)] = s[j + 1]
      BY <1>2, <3>1
    <3> QED
      BY <1>0, <2>2, <3>2, <3>3
  <2> QED
    <3>1. j < i \/ j >= i
      BY <1>0
    <3> QED
      BY <2>1, <2>2, <3>1
<1>6. Len(l \o r) = Len(s) - 1
  BY <1>0, <1>1, <1>2, <1>3
<1> QED
  BY <1>3, <1>4, <1>5, <1>6

(* The first place of an element that is there.                            *)
LEMMA FirstPlace ==
  ASSUME NEW s \in Seq(Nat), NEW x, Contains(s, x)
  PROVE  \E i \in 1..Len(s) : s[i] = x /\ RemoveFirst(s, x) = RemoveAt(s, i)
<1> DEFINE I == {i \in 1..Len(s) : s[i] = x}
<1>1. I # {} /\ I \in SUBSET Nat
  BY DEF Contains
<1>2. Min(I) \in I
  <2> HIDE DEF I
  <2> QED BY <1>1, MinIsLeast
<1>3. RemoveFirst(s, x) = RemoveAt(s, Min(I))
  BY <1>1 DEF RemoveFirst, SelectInSeq
<1> QED
  BY <1>2, <1>3

(* What is left when an element that is there once is removed.             *)
LEMMA Removed ==
  ASSUME NEW s \in Seq(Nat), NoTwice(s), NEW x, Contains(s, x)
  PROVE  /\ RemoveFirst(s, x) \in Seq(Nat) /\ Len(RemoveFirst(s, x)) = Len(s) - 1
         /\ NoTwice(RemoveFirst(s, x))
         /\ \A y : Contains(RemoveFirst(s, x), y) <=> Contains(s, y) /\ y # x
<1>1. PICK i \in 1..Len(s) : s[i] = x /\ RemoveFirst(s, x) = RemoveAt(s, i)
  BY FirstPlace
<1>2. PICK r : r = RemoveFirst(s, x)
  OBVIOUS
<1>3. PICK n \in Nat : n = Len(s)
  BY LenProperties
<1>4. /\ r \in Seq(Nat) /\ Len(r) = n - 1 /\ i \in 1..n
      /\ \A j \in 1..n - 1 : r[j] = IF j < i THEN s[j] ELSE s[j + 1]
  BY <1>1, <1>2, <1>3, TakenOut
<1>5. \A j, k \in 1..n : s[j] = s[k] => j = k
  BY <1>3 DEF NoTwice
<1>6. \A j \in 1..n - 1 : \E a \in 1..n : r[j] = s[a] /\ a = (IF j < i THEN j ELSE j + 1) /\ a # i
  <2>1. TAKE j \in 1..n - 1
  <2>2. CASE j < i
    <3>1. j \in 1..n /\ j # i /\ r[j] = s[j]
      BY <1>4, <2>2
    <3> QED BY <2>2, <3>1
  <2>3. CASE ~ (j < i)
    <3>1. j + 1 \in 1..n /\ j + 1 # i /\ r[j] = s[j + 1]
      BY <1>4, <2>3
    <3> QED BY <2>3, <3>1
  <2> QED BY <2>2, <2>3
<1>7. ASSUME NEW j \in 1..n - 1, NEW k \in 1..n - 1, r[j] = r[k]
      PROVE  j = k
  <2>1. PICK a \in 1..n : r[j] = s[a] /\ a = (IF j < i THEN j ELSE j + 1) /\ a # i
    BY <1>6
  <2>2. PICK b \in 1..n : r[k] = s[b] /\ b = (IF k < i THEN k ELSE k + 1) /\ b # i
    BY <1>6
  <2>3. a = b
    BY <1>5, <1>7, <2>1, <2>2
  <2>4. i \in Nat
    BY <1>4
  <2> QED BY <2>1, <2>2, <2>3, <2>4
<1>8. NoTwice(r)
  BY <1>4, <1>7 DEF NoTwice
<1>9. ASSUME NEW y, Contains(r, y)
      PROVE  Contains(s, y) /\ y # x
  <2>1. PICK j \in 1..n - 1 : r[j] = y
    BY <1>4, <1>9 DEF Contains
  <2>2. PICK a \in 1..n : r[j] = s[a] /\ a # i
    BY <1>6
  <2>3. s[a] # s[i]
    BY <1>4, <1>5, <2>2
  <2> QED BY <1>1, <1>3, <2>1, <2>2, <2>3 DEF Contains
<1>10. ASSUME NEW y, Contains(s, y), y # x
       PROVE  Contains(r, y)
  <2>1. PICK j \in 1..n : s[j] = y
    BY <1>3, <1>10 DEF Contains
  <2>2. CASE j < i
    <3>1. i \in 1..n
      BY <1>4
    <3>2. j \in 1..n - 1
      BY <2>2, <3>1
    <3>3. r[j] = y
      BY <1>4, <2>1, <2>2, <3>2
    <3> QED BY <1>4, <3>2, <3>3 DEF Contains
  <2>3. CASE ~ (j < i)
    <3>1. j # i
      BY <1>1, <1>10, <2>1
    <3>2. j - 1 \in 1..n - 1 /\ ~ (j - 1 < i) /\ (j - 1) + 1 = j
      BY <1>4, <2>3, <3>1
    <3>3. r[j - 1] = y
      BY <1>4, <2>1, <3>2
    <3> QED BY <1>4, <3>2, <3>3 DEF Contains
  <2> QED BY <2>2, <2>3
<1> QED
  BY <1>2, <1>3, <1>4, <1>8, <1>9, <1>10

(* What there is when one more comes last.                                 *)
LEMMA Added ==
  ASSUME NEW s \in Seq(Nat), NEW x \in Nat
  PROVE  /\ Append(s, x) \in Seq(Nat) /\ Len(Append(s, x)) = Len(s) + 1
         /\ NoTwice(s) /\ ~ Contains(s, x) => NoTwice(Append(s, x))
         /\ \A y : Contains(Append(s, x), y) <=> Contains(s, y) \/ y = x
<1>1. PICK r : r = Append(s, x)
  OBVIOUS
<1>2. PICK n \in Nat : n = Len(s)
  BY LenProperties
<1>3. /\ r \in Seq(Nat) /\ Len(r) = n + 1 /\ r[n + 1] = x
      /\ \A j \in 1..n : r[j] = s[j]
  BY <1>1, <1>2, AppendProperties
<1>4. \A j \in 1..n + 1 : j \in 1..n \/ j = n + 1
  OBVIOUS
<1>5. ASSUME NoTwice(s), ~ Contains(s, x)
      PROVE  NoTwice(r)
  <2>1. \A j, k \in 1..n : s[j] = s[k] => j = k
    BY <1>2, <1>5 DEF NoTwice
  <2>2. \A j \in 1..n : s[j] # x
    BY <1>2, <1>5 DEF Contains
  <2>3. \A j, k \in 1..n + 1 : r[j] = r[k] => j = k
    BY <1>3, <1>4, <2>1, <2>2
  <2> QED BY <1>3, <2>3 DEF NoTwice
<1>6. ASSUME NEW y, Contains(r, y)
      PROVE  Contains(s, y) \/ y = x
  <2>1. PICK j \in 1..n + 1 : r[j] = y
    BY <1>3, <1>6 DEF Contains
  <2> QED BY <1>2, <1>3, <1>4, <2>1 DEF Contains
<1>7. ASSUME NEW y, Contains(s, y) \/ y = x
      PROVE  Contains(r, y)
  <2>1. CASE Contains(s, y)
    <3>1. PICK j \in 1..n : s[j] = y
      BY <1>2, <2>1 DEF Contains
    <3>2. j \in 1..n + 1 /\ r[j] = y
      BY <1>3, <3>1
    <3> QED BY <1>3, <3>2 DEF Contains
  <2>2. CASE y = x
    <3>1. n + 1 \in 1..n + 1
      OBVIOUS
    <3> QED BY <1>3, <2>2, <3>1 DEF Contains
  <2> QED BY <1>7, <2>1, <2>2
<1> QED
  BY <1>1, <1>2, <1>3, <1>5, <1>6, <1>7

(* What comes last and is removed again leaves things as they were.        *)
LEMMA ComesAndGoes ==
  ASSUME NEW s \in Seq(Nat), NEW x \in Nat, ~ Contains(s, x)
  PROVE  RemoveFirst(Append(s, x), x) = s
<1>1. PICK r : r = Append(s, x)
  OBVIOUS
<1>2. /\ r \in Seq(Nat) /\ Len(r) = Len(s) + 1 /\ r[Len(s) + 1] = x
      /\ \A j \in 1..Len(s) : r[j] = s[j]
  BY <1>1, AppendProperties
<1>3. Len(s) \in Nat
  BY LenProperties
<1>4. Contains(r, x)
  BY <1>2, <1>3 DEF Contains
<1>5. PICK i \in 1..Len(r) : r[i] = x /\ RemoveFirst(r, x) = RemoveAt(r, i)
  BY <1>2, <1>4, FirstPlace
<1>6. i = Len(s) + 1
  <2>1. PICK n \in Nat : n = Len(s)
    BY <1>3
  <2>2. i \in 1..n + 1 /\ (i \in 1..n => s[i] = x)
    BY <1>2, <1>5, <2>1
  <2>3. i \notin 1..n
    BY <2>1, <2>2 DEF Contains
  <2> QED BY <2>1, <2>2, <2>3
<1>7. PICK t : t = RemoveAt(r, i)
  OBVIOUS
<1>8. /\ t \in Seq(Nat) /\ Len(t) = Len(s)
      /\ \A j \in 1..Len(s) : t[j] = s[j]
  <2>1. /\ t \in Seq(Nat) /\ Len(t) = Len(r) - 1
        /\ \A j \in 1..Len(r) - 1 : t[j] = IF j < i THEN r[j] ELSE r[j + 1]
    BY <1>2, <1>7, TakenOut
  <2> QED BY <1>2, <1>3, <1>6, <2>1
<1>9. t = s
  BY <1>8, SeqEqual
<1> QED
  BY <1>1, <1>5, <1>7, <1>9

-----------------------------------------------------------------------------
(* The world.                                                              *)

AnyCard == Cards \cup Tokens
Place   == Zone \cup {None}
Thing   == [card : AnyCard, token : BOOLEAN, previous : Nat, next : Nat, zone : Place,
            previousZone : Place, live : BOOLEAN, minus : BOOLEAN, unearthed : BOOLEAN,
            target : Nat, dying : BOOLEAN]
News    == [card : Nat, from : Place, to : Zone]
World   == [objs : Seq(Thing), zones : [Zone -> Seq(Nat)], onTop : [Player -> Seq(Nat)],
            lastDrawn : [Player -> Nat], queue : Seq(News)]

Current(u, x) == Obj(u, x).live /\ Obj(u, x).next = 0
Lies(u, x, z) == Contains(u.zones[z], x)

(* What lies in a zone is a card as it is now, once, and knows where it    *)
(* is; and whatever is now lies somewhere.                                 *)
Placed(u) ==
  \A z \in Zone : \A x : Lies(u, x, z) => x \in Objects(u) /\ Current(u, x) /\ Obj(u, x).zone = z
Once(u)   == \A z \in Zone : NoTwice(u.zones[z])
Found(u)  ==
  \A x \in Objects(u) : Current(u, x) => Obj(u, x).zone \in Zone /\ Lies(u, x, Obj(u, x).zone)

(* Next and previous are each other's inverse among what is not deleted,   *)
(* and what comes later is made later.                                     *)
LinkedOn(u) ==
  \A x \in Objects(u) : Obj(u, x).live /\ Obj(u, x).next # 0 =>
    /\ Obj(u, x).next \in Objects(u) /\ Obj(u, Obj(u, x).next).live
    /\ Obj(u, Obj(u, x).next).previous = x /\ Obj(u, Obj(u, x).next).card = Obj(u, x).card
LinkedBack(u) ==
  \A x \in Objects(u) : Obj(u, x).live /\ Obj(u, x).previous # 0 =>
    /\ Obj(u, x).previous \in Objects(u) /\ Obj(u, Obj(u, x).previous).live
    /\ Obj(u, Obj(u, x).previous).next = x
InOrder(u) == \A x \in Objects(u) : Obj(u, x).previous < x /\ Obj(u, x).next <= Len(u.objs)

(* Each card of a deck is one thing.                                       *)
Is1(u, c, x) ==
  /\ Obj(u, x).card = c /\ Current(u, x)
  /\ \A y \in Objects(u) : Obj(u, y).card = c /\ Current(u, y) => y = x
Held(u) == \A c \in Cards : \E x \in Objects(u) : Is1(u, c, x)

(* Where what is in temp came from, and what is in the garbage.            *)
FromElsewhere(u) ==
  \A x \in Objects(u) : Obj(u, x).zone[1] = "temp" =>
    /\ Obj(u, x).previousZone[1] # "temp"
    /\ Obj(u, x).previousZone = None => Obj(u, x).card \in Tokens
TokensOnly(u) ==
  \A x \in Objects(u) : /\ Obj(u, x).zone[1] = "garbage" => Obj(u, x).token
                        /\ Obj(u, x).token => Obj(u, x).card \in Tokens

(* What an event says is still true enough.                                *)
Honest(u, e) ==
  /\ e.card \in Objects(u) /\ Obj(u, e.card).live /\ Obj(u, e.card).zone[1] # "temp"
  /\ e.from[1] # "temp" /\ e.to[1] # "temp"
  /\ e.from = None => Obj(u, e.card).card \in Tokens
  /\ Obj(u, e.card).zone[1] = "inPlay" => e.to[1] = "inPlay"
Told(u) == \A i \in 1..Len(u.queue) : Honest(u, u.queue[i])

Sound(u) ==
  /\ u \in World /\ Placed(u) /\ Once(u) /\ Found(u) /\ LinkedOn(u) /\ LinkedBack(u) /\ InOrder(u)
  /\ Held(u) /\ FromElsewhere(u) /\ TokensOnly(u) /\ Told(u)

(* Of a token that left play, an event after the k-th tells.               *)
Goner(z) == z[1] \notin {"inPlay", "garbage", "temp"}
Departed(u, x) == Current(u, x) /\ Obj(u, x).card \in Tokens /\ Goner(Obj(u, x).zone)
TokensTold(u, k) ==
  \A x \in Objects(u) : Departed(u, x) =>
    \E i \in 1..Len(u.queue) : i > k /\ u.queue[i].card = x /\ Goner(u.queue[i].to)
Flagged(u, T) == \A x \in Objects(u) : Current(u, x) /\ Obj(u, x).card \in Tokens \ T => Obj(u, x).token

(* What waits in temp is what goes on top of a library, and no token.      *)
Waits(u)        == \A p \in Player : u.zones[Z("temp", p)] = u.onTop[p]
NoTokenWaits(u) ==
  \A p \in Player : \A i \in 1..Len(u.onTop[p]) :
    u.onTop[p][i] \in Objects(u) /\ Obj(u, u.onTop[p][i]).card \in Cards

(* Zones have a name and a player.                                         *)
LEMMA ZoneFacts ==
  /\ \A n \in Names, p \in Player : Z(n, p) \in Zone /\ Z(n, p)[1] = n /\ Z(n, p)[2] = p
  /\ \A z \in Zone : z[1] \in Names /\ z[2] \in Player /\ z = Z(z[1], z[2]) /\ z # None
  /\ None[1] = "none" /\ None[2] \in Player /\ None \notin Zone /\ Zone \subseteq Place /\ None \in Place
  /\ "none" \notin Names
  /\ {"library", "hand", "stack", "inPlay", "graveyard", "exile", "temp", "garbage"} \subseteq Names
<1>1. "none" \notin Names
  BY DEF Names
<1> QED
  BY <1>1 DEF Zone, Z, None, Place, Names, Player

(* The fields of a world.                                                  *)
LEMMA Fields ==
  ASSUME NEW u \in World
  PROVE  /\ u.objs \in Seq(Thing) /\ u.zones \in [Zone -> Seq(Nat)] /\ u.onTop \in [Player -> Seq(Nat)]
         /\ u.lastDrawn \in [Player -> Nat] /\ u.queue \in Seq(News)
         /\ Len(u.objs) \in Nat
         /\ \A x \in Objects(u) : Obj(u, x) \in Thing
<1>1. u.objs \in Seq(Thing) /\ u.zones \in [Zone -> Seq(Nat)] /\ u.onTop \in [Player -> Seq(Nat)]
      /\ u.lastDrawn \in [Player -> Nat] /\ u.queue \in Seq(News)
  BY DEF World
<1>2. Len(u.objs) \in Nat /\ \A x \in 1..Len(u.objs) : u.objs[x] \in Thing
  BY <1>1, LenProperties, ElementOfSeq
<1> QED
  BY <1>1, <1>2 DEF Objects, Obj

(* A thing made anew.                                                      *)
LEMMA NewThing ==
  ASSUME NEW c \in AnyCard, NEW t \in BOOLEAN
  PROVE  /\ NewObject(c, t) \in Thing
         /\ NewObject(c, t).card = c /\ NewObject(c, t).token = t /\ NewObject(c, t).live = TRUE
         /\ NewObject(c, t).next = 0 /\ NewObject(c, t).previous = 0 /\ NewObject(c, t).zone = None
         /\ NewObject(c, t).previousZone = None
BY ZoneFacts DEF NewObject, Thing

(* A thing put into a place.                                               *)
Put1(s, o, k) == [s EXCEPT ![o] = k]

LEMMA Marked ==
  ASSUME NEW s \in Seq(Thing), NEW o \in 1..Len(s), NEW k \in Thing
  PROVE  /\ Put1(s, o, k) \in Seq(Thing)
         /\ Len(Put1(s, o, k)) = Len(s)
         /\ \A x \in 1..Len(s) : Put1(s, o, k)[x] = IF x = o THEN k ELSE s[x]
BY ExceptSeq, LenProperties DEF Put1

(* The objects, and one more.                                              *)
LEMMA OneMore ==
  ASSUME NEW s \in Seq(Thing), NEW k \in Thing
  PROVE  /\ Append(s, k) \in Seq(Thing)
         /\ Len(Append(s, k)) = Len(s) + 1
         /\ Append(s, k)[Len(s) + 1] = k
         /\ \A x \in 1..Len(s) : Append(s, k)[x] = s[x]
BY AppendProperties

-----------------------------------------------------------------------------
(* What the steps of putInZone() do, field by field.                       *)

(* A thing with other fields: in another place, left, kept, deleted, with  *)
(* another before or after it, copied; and zones with less or more there.  *)
Zoned(k, z)    == [k EXCEPT !.zone = z]
LeftBy(k, n)   == [k EXCEPT !.zone = None, !.next = n]
Kept(k, z)     == [k EXCEPT !.zone = None, !.previousZone = z]
Deleted(k)     == [k EXCEPT !.previous = 0, !.next = 0, !.live = FALSE]
Back(k, n)     == [k EXCEPT !.previous = n]
On(k, n)       == [k EXCEPT !.next = n]
Copy(k, o, z)  == [NewObject(k.card, k.token) EXCEPT !.previous = o, !.previousZone = z]
Less(zs, z, o) == [zs EXCEPT ![z] = RemoveFirst(zs[z], o)]
More(zs, z, o) == [zs EXCEPT ![z] = Append(zs[z], o)]

SameCard(k, g) == g.card = k.card /\ g.token = k.token /\ g.unearthed = k.unearthed

LEMMA ThingsEdited ==
  ASSUME NEW k \in Thing
  PROVE  /\ \A z \in Place :
              /\ Zoned(k, z) \in Thing /\ SameCard(k, Zoned(k, z)) /\ Zoned(k, z).zone = z
              /\ Zoned(k, z).previous = k.previous /\ Zoned(k, z).next = k.next
              /\ Zoned(k, z).live = k.live /\ Zoned(k, z).previousZone = k.previousZone
         /\ \A n \in Nat :
              /\ LeftBy(k, n) \in Thing /\ SameCard(k, LeftBy(k, n)) /\ LeftBy(k, n).zone = None
              /\ LeftBy(k, n).previous = k.previous /\ LeftBy(k, n).next = n
              /\ LeftBy(k, n).live = k.live /\ LeftBy(k, n).previousZone = k.previousZone
         /\ \A z \in Place :
              /\ Kept(k, z) \in Thing /\ SameCard(k, Kept(k, z)) /\ Kept(k, z).zone = None
              /\ Kept(k, z).previous = k.previous /\ Kept(k, z).next = k.next
              /\ Kept(k, z).live = k.live /\ Kept(k, z).previousZone = z
BY ZoneFacts DEF Thing, Zoned, LeftBy, Kept, SameCard

LEMMA LinksEdited ==
  ASSUME NEW k \in Thing
  PROVE  /\ /\ Deleted(k) \in Thing /\ SameCard(k, Deleted(k)) /\ Deleted(k).zone = k.zone
            /\ Deleted(k).previous = 0 /\ Deleted(k).next = 0
            /\ ~ Deleted(k).live /\ Deleted(k).previousZone = k.previousZone
         /\ \A n \in Nat :
              /\ Back(k, n) \in Thing /\ SameCard(k, Back(k, n)) /\ Back(k, n).zone = k.zone
              /\ Back(k, n).previous = n /\ Back(k, n).next = k.next
              /\ Back(k, n).live = k.live /\ Back(k, n).previousZone = k.previousZone
         /\ \A n \in Nat :
              /\ On(k, n) \in Thing /\ SameCard(k, On(k, n)) /\ On(k, n).zone = k.zone
              /\ On(k, n).previous = k.previous /\ On(k, n).next = n
              /\ On(k, n).live = k.live /\ On(k, n).previousZone = k.previousZone
BY ZoneFacts DEF Thing, Deleted, Back, On, SameCard

LEMMA CopyEdited ==
  ASSUME NEW k \in Thing, NEW o \in Nat, NEW z \in Place
  PROVE  /\ Copy(k, o, z) \in Thing /\ Copy(k, o, z).card = k.card /\ Copy(k, o, z).token = k.token
         /\ Copy(k, o, z).zone = None /\ Copy(k, o, z).previous = o /\ Copy(k, o, z).next = 0
         /\ Copy(k, o, z).live /\ Copy(k, o, z).previousZone = z
<1>1. PICK m \in Thing : m = NewObject(k.card, k.token)
  BY NewThing DEF Thing
<1>2. m.card = k.card /\ m.token = k.token /\ m.live = TRUE /\ m.next = 0 /\ m.zone = None
  BY <1>1 DEF NewObject
<1>3. Copy(k, o, z) = [m EXCEPT !.previous = o, !.previousZone = z]
  BY <1>1 DEF Copy
<1> QED
  BY <1>2, <1>3 DEF Thing

(* A world with other objects and zones.                                   *)
Other(u, s, zs) == [u EXCEPT !.objs = s, !.zones = zs]

LEMMA OtherFacts ==
  ASSUME NEW u \in World, NEW s \in Seq(Thing), NEW zs \in [Zone -> Seq(Nat)]
  PROVE  /\ Other(u, s, zs) \in World /\ Other(u, s, zs).objs = s /\ Other(u, s, zs).zones = zs
         /\ Other(u, s, zs).onTop = u.onTop /\ Other(u, s, zs).lastDrawn = u.lastDrawn
         /\ Other(u, s, zs).queue = u.queue
BY DEF World, Other

(* The card is the last one of the zone.                                   *)
LEMMA AddFacts ==
  ASSUME NEW u \in World, NEW o \in Objects(u), NEW z \in Zone
  PROVE  /\ AddCard(u, o, z) \in World
         /\ AddCard(u, o, z).objs = Put1(u.objs, o, Zoned(Obj(u, o), z))
         /\ AddCard(u, o, z).zones = More(u.zones, z, o)
         /\ AddCard(u, o, z).onTop = u.onTop /\ AddCard(u, o, z).lastDrawn = u.lastDrawn
         /\ AddCard(u, o, z).queue = u.queue
<1>1. PICK s : s = Put1(u.objs, o, Zoned(Obj(u, o), z))
  OBVIOUS
<1>2. PICK zs : zs = More(u.zones, z, o)
  OBVIOUS
<1>3. o \in Nat /\ o \in 1..Len(u.objs)
  BY Fields DEF Objects
<1>4. Zoned(Obj(u, o), z) \in Thing
  BY Fields, ZoneFacts, ThingsEdited
<1>5. s \in Seq(Thing)
  BY <1>1, <1>3, <1>4, Fields, Marked
<1>6. zs \in [Zone -> Seq(Nat)]
  <2>1. Append(u.zones[z], o) \in Seq(Nat)
    BY <1>3, Fields, Added
  <2> QED BY <1>2, <2>1, Fields DEF More
<1>7. AddCard(u, o, z) = Other(u, s, zs)
  BY <1>1, <1>2 DEF AddCard, World, Obj, Other, Put1, More, Zoned
<1> QED
  BY <1>1, <1>2, <1>5, <1>6, <1>7, OtherFacts

(* A zone without one of its cards.                                        *)
LEMMA ZonesWithout ==
  ASSUME NEW u \in World, Once(u), NEW z \in Zone, NEW o, Lies(u, o, z)
  PROVE  Less(u.zones, z, o) \in [Zone -> Seq(Nat)]
<1>1. RemoveFirst(u.zones[z], o) \in Seq(Nat)
  BY Fields, Removed DEF Once, Lies
<1> QED
  BY <1>1, Fields DEF Less

Copied(u, o, z) == RemoveCard(u, o, z, TRUE)
Moved(u, o, z)  == RemoveCard(u, o, z, FALSE)

(* The object that is left knows the next, which knows it and its zone.    *)
LEMMA CopyFacts ==
  ASSUME NEW u \in World, Once(u), NEW o \in Objects(u), NEW z \in Zone, Lies(u, o, z)
  PROVE  /\ Copied(u, o, z).copy = Len(u.objs) + 1
         /\ Copied(u, o, z).u \in World
         /\ Copied(u, o, z).u.objs =
              Append(Put1(u.objs, o, LeftBy(Obj(u, o), Len(u.objs) + 1)), Copy(Obj(u, o), o, z))
         /\ Copied(u, o, z).u.zones = Less(u.zones, z, o)
         /\ Copied(u, o, z).u.onTop = u.onTop
         /\ Copied(u, o, z).u.lastDrawn = u.lastDrawn
         /\ Copied(u, o, z).u.queue = u.queue
<1>1. PICK n \in Nat : n = Len(u.objs) + 1
  BY Fields
<1>2. PICK k : k = Copy(Obj(u, o), o, z)
  OBVIOUS
<1>3. PICK g : g = LeftBy(Obj(u, o), n)
  OBVIOUS
<1>4. o \in Nat /\ o \in 1..Len(u.objs) /\ Obj(u, o) \in Thing
  BY Fields DEF Objects
<1>5. k \in Thing /\ g \in Thing
  BY <1>1, <1>2, <1>3, <1>4, ZoneFacts, CopyEdited, ThingsEdited
<1>7. PICK zs : zs = Less(u.zones, z, o)
  OBVIOUS
<1>8. zs \in [Zone -> Seq(Nat)]
  BY <1>7, ZonesWithout
<1>9. PICK s : s = Append(Put1(u.objs, o, g), k)
  OBVIOUS
<1>10. s \in Seq(Thing)
  BY <1>4, <1>5, <1>9, Fields, Marked, OneMore
<1>11. Copied(u, o, z) = [u |-> Other(u, s, zs), copy |-> n]
  <2>1. PICK a : a = [u EXCEPT !.zones[z] = RemoveFirst(@, o), !.objs[o].zone = None]
    OBVIOUS
  <2>2. Copied(u, o, z)
          = [u |-> [a EXCEPT !.objs = Append([@ EXCEPT ![o].next = n], k)], copy |-> n]
    BY <1>1, <1>2, <2>1 DEF Copied, RemoveCard, Copy, Obj
  <2>3. PICK t : t = [u.objs EXCEPT ![o] = [u.objs[o] EXCEPT !.zone = None]]
    OBVIOUS
  <2>4. a = [u EXCEPT !.objs = t, !.zones = zs]
    BY <1>7, <2>1, <2>3 DEF World, Less
  <2>5. a.objs = t
    BY <2>4 DEF World
  <2>6. [t EXCEPT ![o].next = n] = Put1(u.objs, o, g)
    <3>1. u.objs \in Seq(Thing) /\ o \in DOMAIN u.objs
      BY <1>4, Fields, LenProperties
    <3>2. Obj(u, o) = u.objs[o]
      BY DEF Obj
    <3> QED BY <1>3, <1>4, <2>3, <3>1, <3>2 DEF Thing, LeftBy, Put1
  <2>7. [a EXCEPT !.objs = Append([@ EXCEPT ![o].next = n], k)] = [a EXCEPT !.objs = s]
    BY <1>9, <2>5, <2>6
  <2>8. [a EXCEPT !.objs = s] = Other(u, s, zs)
    BY <2>4 DEF World, Other
  <2> QED BY <2>2, <2>7, <2>8
<1>12. PICK v : v = Other(u, s, zs)
  OBVIOUS
<1>13. Copied(u, o, z).u = v /\ Copied(u, o, z).copy = n
  <2>1. Copied(u, o, z) = [u |-> v, copy |-> n]
    BY <1>11, <1>12
  <2>2. [u |-> v, copy |-> n].u = v /\ [u |-> v, copy |-> n].copy = n
    OBVIOUS
  <2> QED BY <2>1, <2>2
<1>14. v \in World /\ v.objs = s /\ v.zones = zs /\ v.onTop = u.onTop
       /\ v.lastDrawn = u.lastDrawn /\ v.queue = u.queue
  BY <1>8, <1>10, <1>12, OtherFacts
<1> QED
  BY <1>1, <1>2, <1>3, <1>7, <1>9, <1>13, <1>14

(* The object that stays keeps its zone in mind.                           *)
LEMMA StayFacts ==
  ASSUME NEW u \in World, Once(u), NEW o \in Objects(u), NEW z \in Zone, Lies(u, o, z)
  PROVE  /\ Moved(u, o, z).copy = o
         /\ Moved(u, o, z).u \in World
         /\ Moved(u, o, z).u.objs = Put1(u.objs, o, Kept(Obj(u, o), z))
         /\ Moved(u, o, z).u.zones = Less(u.zones, z, o)
         /\ Moved(u, o, z).u.onTop = u.onTop
         /\ Moved(u, o, z).u.lastDrawn = u.lastDrawn
         /\ Moved(u, o, z).u.queue = u.queue
<1>3. PICK g : g = Kept(Obj(u, o), z)
  OBVIOUS
<1>4. o \in Nat /\ o \in 1..Len(u.objs) /\ Obj(u, o) \in Thing
  BY Fields DEF Objects
<1>5. g \in Thing
  BY <1>3, <1>4, ZoneFacts, ThingsEdited
<1>7. PICK zs : zs = Less(u.zones, z, o)
  OBVIOUS
<1>8. zs \in [Zone -> Seq(Nat)]
  BY <1>7, ZonesWithout
<1>9. PICK s : s = Put1(u.objs, o, g)
  OBVIOUS
<1>10. s \in Seq(Thing)
  BY <1>4, <1>5, <1>9, Fields, Marked
<1>11. Moved(u, o, z) = [u |-> Other(u, s, zs), copy |-> o]
  <2>1. PICK a : a = [u EXCEPT !.zones[z] = RemoveFirst(@, o), !.objs[o].zone = None]
    OBVIOUS
  <2>2. Moved(u, o, z) = [u |-> [a EXCEPT !.objs[o].previousZone = z], copy |-> o]
    BY <2>1 DEF Moved, RemoveCard
  <2>3. PICK t : t = [u.objs EXCEPT ![o] = [u.objs[o] EXCEPT !.zone = None]]
    OBVIOUS
  <2>4. a = [u EXCEPT !.objs = t, !.zones = zs]
    BY <1>7, <2>1, <2>3 DEF World, Less
  <2>5. a.objs = t
    BY <2>4 DEF World
  <2>6. [t EXCEPT ![o].previousZone = z] = s
    <3>1. u.objs \in Seq(Thing) /\ o \in DOMAIN u.objs
      BY <1>4, Fields, LenProperties
    <3>2. Obj(u, o) = u.objs[o]
      BY DEF Obj
    <3> QED BY <1>3, <1>4, <1>9, <2>3, <3>1, <3>2 DEF Thing, Kept, Put1
  <2>7. [a EXCEPT !.objs[o].previousZone = z] = [a EXCEPT !.objs = s]
    BY <2>5, <2>6
  <2>8. [a EXCEPT !.objs = s] = Other(u, s, zs)
    BY <2>4 DEF World, Other
  <2> QED BY <2>2, <2>7, <2>8
<1>12. PICK v : v = Other(u, s, zs)
  OBVIOUS
<1>13. Moved(u, o, z).u = v /\ Moved(u, o, z).copy = o
  <2>1. Moved(u, o, z) = [u |-> v, copy |-> o]
    BY <1>11, <1>12
  <2>2. [u |-> v, copy |-> o].u = v /\ [u |-> v, copy |-> o].copy = o
    OBVIOUS
  <2> QED BY <2>1, <2>2
<1>14. v \in World /\ v.objs = s /\ v.zones = zs /\ v.onTop = u.onTop
       /\ v.lastDrawn = u.lastDrawn /\ v.queue = u.queue
  BY <1>8, <1>10, <1>12, OtherFacts
<1> QED
  BY <1>3, <1>7, <1>9, <1>13, <1>14
-----------------------------------------------------------------------------
(* What one call of putInZone() comes to.                                  *)

Made(u) == Len(u.objs) + 1

(* The zones when o leaves z and n comes into to.                          *)
Rezoned(u, v, o, z, n, to) ==
  v.zones = More(Less(u.zones, z, o), to, n)

LEMMA ZoneMoves ==
  ASSUME NEW u \in World, NEW v, Once(u), Placed(u), NEW z \in Zone, NEW to \in Zone, NEW o, Lies(u, o, z),
         NEW n \in Nat, n \in Objects(u) => n = o, Rezoned(u, v, o, z, n, to)
  PROVE  /\ v.zones \in [Zone -> Seq(Nat)]
         /\ \A y \in Zone : \A x : Lies(v, x, y) <=> \/ Lies(u, x, y) /\ ~ (x = o /\ y = z)
                                                     \/ x = n /\ y = to
         /\ Once(v)
         /\ \A y \in Zone : y # z /\ y # to => v.zones[y] = u.zones[y]
         /\ \A y \in Zone : Len(v.zones[y]) >= IF y = z THEN Len(u.zones[y]) - 1 ELSE Len(u.zones[y])
         /\ z # to => /\ v.zones[z] = RemoveFirst(u.zones[z], o)
                      /\ v.zones[to] = Append(u.zones[to], n)
<1>1. PICK r : r = RemoveFirst(u.zones[z], o)
  OBVIOUS
<1>2. PICK m : m = [u.zones EXCEPT ![z] = r]
  OBVIOUS
<1>3. u.zones \in [Zone -> Seq(Nat)] /\ \A y \in Zone : Len(u.zones[y]) \in Nat /\ NoTwice(u.zones[y])
  BY Fields, LenProperties DEF Once
<1>4. /\ r \in Seq(Nat) /\ Len(r) = Len(u.zones[z]) - 1 /\ NoTwice(r)
      /\ \A x : Contains(r, x) <=> Contains(u.zones[z], x) /\ x # o
  BY <1>1, <1>3, Removed DEF Lies
<1>5. /\ m \in [Zone -> Seq(Nat)] /\ \A y \in Zone : NoTwice(m[y]) /\ (y # z => m[y] = u.zones[y])
      /\ m[z] = r
  BY <1>2, <1>3, <1>4
<1>6. \A y \in Zone : \A x : Contains(m[y], x) <=> Lies(u, x, y) /\ ~ (x = o /\ y = z)
  <2>1. TAKE y \in Zone
  <2>2. CASE y = z
    BY <1>4, <1>5, <2>2 DEF Lies
  <2>3. CASE y # z
    BY <1>5, <2>3 DEF Lies
  <2> QED BY <2>2, <2>3
<1>7. PICK a : a = Append(m[to], n)
  OBVIOUS
<1>8. ~ Contains(m[to], n)
  <2>1. SUFFICES ASSUME Contains(m[to], n) PROVE FALSE
    OBVIOUS
  <2>2. Lies(u, n, to) /\ ~ (n = o /\ to = z)
    BY <1>6, <2>1
  <2>3. n \in Objects(u) /\ Obj(u, n).zone = to
    BY <2>2 DEF Placed
  <2>4. n = o /\ Obj(u, o).zone = z
    BY <2>3 DEF Placed
  <2> QED BY <2>2, <2>3, <2>4
<1>9. /\ a \in Seq(Nat) /\ Len(a) = Len(m[to]) + 1 /\ NoTwice(a)
      /\ \A x : Contains(a, x) <=> Contains(m[to], x) \/ x = n
  <2>1. PICK t \in Seq(Nat) : t = m[to]
    BY <1>5
  <2> QED BY <1>5, <1>7, <1>8, <2>1, Added
<1>10. v.zones = [m EXCEPT ![to] = a]
  BY <1>1, <1>2, <1>7 DEF Rezoned, More, Less
<1>11. /\ v.zones \in [Zone -> Seq(Nat)] /\ v.zones[to] = a
       /\ \A y \in Zone : y # to => v.zones[y] = m[y]
  BY <1>5, <1>9, <1>10
<1>12. \A y \in Zone : NoTwice(v.zones[y])
  <2>1. TAKE y \in Zone
  <2> QED BY <1>5, <1>9, <1>11
<1>13. ASSUME NEW y \in Zone, NEW x
       PROVE  Lies(v, x, y) <=> \/ Lies(u, x, y) /\ ~ (x = o /\ y = z)
                                \/ x = n /\ y = to
  <2>1. CASE y = to
    BY <1>6, <1>9, <1>11, <2>1 DEF Lies
  <2>2. CASE y # to
    BY <1>6, <1>11, <2>2 DEF Lies
  <2> QED BY <2>1, <2>2
<1>14. \A y \in Zone : y # z /\ y # to => v.zones[y] = u.zones[y]
  BY <1>5, <1>11
<1>15. ASSUME NEW y \in Zone
       PROVE  Len(v.zones[y]) >= IF y = z THEN Len(u.zones[y]) - 1 ELSE Len(u.zones[y])
  <2>1. PICK k \in Nat : k = Len(u.zones[y])
    BY <1>3
  <2>2. Len(m[y]) = IF y = z THEN k - 1 ELSE k
    BY <1>4, <1>5, <2>1
  <2>3. Len(v.zones[y]) = IF y = to THEN Len(m[y]) + 1 ELSE Len(m[y])
    BY <1>9, <1>11
  <2> QED BY <2>1, <2>2, <2>3
<1>16. z # to => v.zones[z] = RemoveFirst(u.zones[z], o) /\ v.zones[to] = Append(u.zones[to], n)
  BY <1>1, <1>5, <1>7, <1>11
<1> QED
  BY <1>11, <1>12, <1>13, <1>14, <1>15, <1>16 DEF Once

(* The card is one more object, and the object it was is in no zone.       *)
Renewed(u, v, o, z, to) ==
  /\ v \in World /\ Len(v.objs) = Made(u) /\ Rezoned(u, v, o, z, Made(u), to)
  /\ Obj(v, Made(u)).card = Obj(u, o).card /\ Obj(v, Made(u)).token = Obj(u, o).token
  /\ Current(v, Made(u)) /\ Obj(v, Made(u)).zone = to /\ Obj(v, Made(u)).previousZone = z
  /\ \A x \in Objects(u) : /\ Obj(v, x).card = Obj(u, x).card /\ Obj(v, x).token = Obj(u, x).token
                           /\ Obj(v, x).previousZone = Obj(u, x).previousZone
                           /\ Obj(v, x).unearthed = Obj(u, x).unearthed
                           /\ Obj(v, x).zone = IF x = o THEN None ELSE Obj(u, x).zone

(* It is the next of the object it was.                                    *)
Follows(u, v, o) ==
  /\ Obj(v, Made(u)).previous = o
  /\ \A x \in Objects(u) : /\ Obj(v, x).previous = Obj(u, x).previous /\ Obj(v, x).live = Obj(u, x).live
                           /\ Obj(v, x).next = IF x = o THEN Made(u) ELSE Obj(u, x).next

(* It is the next of the object before that, which is deleted.             *)
Skips(u, v, o) ==
  /\ Obj(v, Made(u)).previous = Obj(u, o).previous
  /\ Obj(v, o).previous = 0 /\ Obj(v, o).next = 0 /\ ~ Obj(v, o).live
  /\ \A x \in Objects(u) : x # o =>
       /\ Obj(v, x).previous = Obj(u, x).previous /\ Obj(v, x).live = Obj(u, x).live
       /\ Obj(v, x).next = IF x = Obj(u, o).previous THEN Made(u) ELSE Obj(u, x).next

(* It stays the object it is.                                              *)
Stays(u, v, o, z, to) ==
  /\ v \in World /\ Len(v.objs) = Len(u.objs) /\ Rezoned(u, v, o, z, o, to)
  /\ \A x \in Objects(u) :
       /\ Obj(v, x).card = Obj(u, x).card /\ Obj(v, x).token = Obj(u, x).token
       /\ Obj(v, x).previous = Obj(u, x).previous /\ Obj(v, x).next = Obj(u, x).next
       /\ Obj(v, x).live = Obj(u, x).live /\ Obj(v, x).unearthed = Obj(u, x).unearthed
       /\ Obj(v, x).zone = IF x = o THEN to ELSE Obj(u, x).zone
       /\ x # o => Obj(v, x).previousZone = Obj(u, x).previousZone

(* An event is sent.                                                       *)
Says(u, v, x, from, to) == v.queue = Append(u.queue, [card |-> x, from |-> from, to |-> to])

(* A card in a zone is an object.                                          *)
LEMMA LyingThings ==
  ASSUME NEW u \in World, Placed(u), NEW z \in Zone, NEW o, Lies(u, o, z)
  PROVE  /\ o \in Objects(u) /\ o \in Nat /\ o # 0 /\ Current(u, o) /\ Obj(u, o).zone = z
         /\ Obj(u, o) \in Thing /\ Made(u) \in Nat /\ Made(u) # o /\ Made(u) # 0 /\ Made(u) \notin Objects(u)
<1>1. o \in Objects(u) /\ Current(u, o) /\ Obj(u, o).zone = z
  BY DEF Placed
<1>2. Len(u.objs) \in Nat /\ Obj(u, o) \in Thing
  BY <1>1, Fields
<1> QED
  BY <1>1, <1>2 DEF Objects, Made

(* A copy, put into a zone.                                                *)
CopyTo(u, o, z, to) == AddCard(Copied(u, o, z).u, Copied(u, o, z).copy, to)

LEMMA CopyPut ==
  ASSUME NEW u \in World, Once(u), Placed(u), NEW z \in Zone, NEW to \in Zone, NEW o, Lies(u, o, z)
  PROVE  /\ Copied(u, o, z).copy = Made(u)
         /\ Renewed(u, CopyTo(u, o, z, to), o, z, to) /\ Follows(u, CopyTo(u, o, z, to), o)
         /\ CopyTo(u, o, z, to).onTop = u.onTop /\ CopyTo(u, o, z, to).queue = u.queue
         /\ CopyTo(u, o, z, to).lastDrawn = u.lastDrawn
<1>1. /\ o \in Objects(u) /\ o \in Nat /\ o # 0 /\ Current(u, o) /\ Obj(u, o).zone = z
      /\ Obj(u, o) \in Thing /\ Made(u) \in Nat /\ Made(u) # o /\ Made(u) \notin Objects(u)
  BY LyingThings
<1>0. /\ z \in Place /\ to \in Place /\ u.objs \in Seq(Thing) /\ o \in 1..Len(u.objs)
      /\ Objects(u) = 1..Len(u.objs)
  BY <1>1, ZoneFacts, Fields DEF Objects
<1>2. PICK n \in Nat : n = Made(u) /\ n = Len(u.objs) + 1
  BY <1>1 DEF Made
<1>3. PICK k, g : k = Copy(Obj(u, o), o, z) /\ g = LeftBy(Obj(u, o), n)
  OBVIOUS
<1>4. /\ k \in Thing /\ k.card = Obj(u, o).card /\ k.token = Obj(u, o).token
      /\ k.live /\ k.next = 0 /\ k.previousZone = z /\ k.previous = o
  <2>1. PICK c \in Thing : c = Obj(u, o)
    BY <1>1
  <2>2. /\ Copy(c, o, z) \in Thing /\ Copy(c, o, z).card = c.card /\ Copy(c, o, z).token = c.token
        /\ Copy(c, o, z).zone = None /\ Copy(c, o, z).previous = o /\ Copy(c, o, z).next = 0
        /\ Copy(c, o, z).live /\ Copy(c, o, z).previousZone = z
    <3>1. o \in Nat /\ z \in Place
      BY <1>0, <1>1
    <3> QED BY <3>1, CopyEdited
  <2> QED BY <1>3, <2>1, <2>2
<1>5. /\ g \in Thing /\ g.card = Obj(u, o).card /\ g.token = Obj(u, o).token /\ g.live = Obj(u, o).live
      /\ g.next = n /\ g.zone = None /\ g.previousZone = Obj(u, o).previousZone
      /\ g.previous = Obj(u, o).previous /\ g.unearthed = Obj(u, o).unearthed
  BY <1>1, <1>3, ThingsEdited, ZenonT(60) DEF SameCard
<1>6. PICK a : a = Copied(u, o, z).u
  OBVIOUS
<1>7. /\ a \in World /\ a.objs = Append(Put1(u.objs, o, g), k)
      /\ a.zones = Less(u.zones, z, o) /\ a.onTop = u.onTop /\ a.lastDrawn = u.lastDrawn
      /\ a.queue = u.queue /\ Copied(u, o, z).copy = n
  <2>1. /\ Copied(u, o, z).copy = Len(u.objs) + 1
        /\ Copied(u, o, z).u \in World
        /\ Copied(u, o, z).u.objs =
              Append(Put1(u.objs, o, LeftBy(Obj(u, o), Len(u.objs) + 1)), Copy(Obj(u, o), o, z))
        /\ Copied(u, o, z).u.zones = Less(u.zones, z, o)
        /\ Copied(u, o, z).u.onTop = u.onTop
        /\ Copied(u, o, z).u.lastDrawn = u.lastDrawn
        /\ Copied(u, o, z).u.queue = u.queue
    BY <1>1, CopyFacts
  <2> QED BY <1>2, <1>3, <1>6, <2>1
<1>8. PICK s : s = Put1(u.objs, o, g)
  OBVIOUS
<1>9. /\ s \in Seq(Thing) /\ Len(s) = Len(u.objs)
      /\ \A x \in Objects(u) : s[x] = IF x = o THEN g ELSE u.objs[x]
  <2>1. PICK c \in Seq(Thing), d \in Thing : c = u.objs /\ d = g
    BY <1>0, <1>5
  <2>2. o \in 1..Len(c)
    BY <1>0, <2>1
  <2>3. /\ Put1(c, o, d) \in Seq(Thing) /\ Len(Put1(c, o, d)) = Len(c)
        /\ \A x \in 1..Len(c) : Put1(c, o, d)[x] = IF x = o THEN d ELSE c[x]
    BY <2>2, Marked, SMTT(20), ZenonT(60)
  <2> QED BY <1>0, <1>8, <2>1, <2>3
<1>10. /\ Len(a.objs) = n /\ Obj(a, n) = k /\ n \in Objects(a)
       /\ \A x \in Objects(u) : Obj(a, x) = IF x = o THEN g ELSE Obj(u, x)
  <2>1. a.objs = Append(s, k)
    BY <1>7, <1>8
  <2>2. Len(a.objs) = Len(s) + 1 /\ a.objs[Len(s) + 1] = k /\ \A x \in 1..Len(s) : a.objs[x] = s[x]
    BY <1>4, <1>9, <2>1, OneMore
  <2>3. Len(u.objs) \in Nat
    BY Fields
  <2>4. Len(s) = Len(u.objs) /\ n = Len(u.objs) + 1 /\ n \in 1..n
    BY <1>2, <1>9, <2>3
  <2>5. Len(a.objs) = n /\ Obj(a, n) = k /\ n \in Objects(a)
    BY <2>2, <2>4 DEF Objects, Obj
  <2>6. \A x \in Objects(u) : x \in 1..Len(s) /\ a.objs[x] = s[x]
    BY <2>2, <2>4 DEF Objects
  <2> QED BY <1>9, <2>5, <2>6 DEF Obj
<1>11. PICK v : v = CopyTo(u, o, z, to)
  OBVIOUS
<1>12. PICK h : h = Zoned(k, to)
  OBVIOUS
<1>13. /\ h \in Thing /\ h.card = Obj(u, o).card /\ h.token = Obj(u, o).token /\ h.live
       /\ h.next = 0 /\ h.zone = to /\ h.previousZone = z /\ h.previous = o
  <2>1. k \in Thing /\ to \in Place
    BY <1>0, <1>4
  <2>2. /\ Zoned(k, to) \in Thing /\ SameCard(k, Zoned(k, to)) /\ Zoned(k, to).zone = to
        /\ Zoned(k, to).previous = k.previous /\ Zoned(k, to).next = k.next
        /\ Zoned(k, to).live = k.live /\ Zoned(k, to).previousZone = k.previousZone
    BY <2>1, ThingsEdited
  <2> QED BY <1>4, <1>12, <2>2 DEF SameCard
<1>14. /\ v \in World /\ v.objs = Put1(a.objs, n, h) /\ v.zones = More(a.zones, to, n)
       /\ v.onTop = a.onTop /\ v.lastDrawn = a.lastDrawn /\ v.queue = a.queue
  <2>1. v = AddCard(a, n, to)
    BY <1>6, <1>7, <1>11 DEF CopyTo
  <2> QED BY <1>7, <1>10, <1>12, <2>1, AddFacts
<1>15. /\ Len(v.objs) = n /\ Obj(v, n) = h
       /\ \A x \in Objects(u) : Obj(v, x) = IF x = o THEN g ELSE Obj(u, x)
  <2>1. a.objs \in Seq(Thing) /\ n \in 1..Len(a.objs)
    BY <1>7, <1>10, Fields DEF Objects
  <2>2. /\ Len(v.objs) = Len(a.objs)
        /\ \A x \in 1..Len(a.objs) : v.objs[x] = IF x = n THEN h ELSE a.objs[x]
    <3>1. /\ Len(Put1(a.objs, n, h)) = Len(a.objs)
          /\ \A x \in 1..Len(a.objs) : Put1(a.objs, n, h)[x] = IF x = n THEN h ELSE a.objs[x]
      <4>1. PICK c \in Seq(Thing) : c = a.objs
        BY <2>1
      <4>2. h \in Thing /\ n \in 1..Len(c)
        BY <1>13, <2>1, <4>1
      <4>3. /\ Len(Put1(c, n, h)) = Len(c)
            /\ \A x \in 1..Len(c) : Put1(c, n, h)[x] = IF x = n THEN h ELSE c[x]
        BY <4>2, Marked, SMTT(20), ZenonT(60)
      <4> QED BY <4>1, <4>3
    <3> QED BY <1>14, <3>1
  <2>3. \A x \in Objects(u) : x \in 1..Len(a.objs) /\ x # n
    BY <1>2, <1>10, Fields DEF Objects
  <2> QED BY <1>10, <2>1, <2>2, <2>3 DEF Obj
<1>16. Rezoned(u, v, o, z, n, to)
  BY <1>7, <1>14 DEF Rezoned
<1>17. Renewed(u, v, o, z, to)
  BY <1>2, <1>5, <1>13, <1>14, <1>15, <1>16 DEF Renewed, Current
<1>18. Follows(u, v, o)
  BY <1>2, <1>5, <1>13, <1>15 DEF Follows
<1> QED
  BY <1>2, <1>7, <1>11, <1>14, <1>17, <1>18

(* The object itself, put into another zone.                               *)
StayIn(u, o, z, to) == AddCard(Moved(u, o, z).u, Moved(u, o, z).copy, to)

LEMMA StayPut ==
  ASSUME NEW u \in World, Once(u), Placed(u), NEW z \in Zone, NEW to \in Zone, NEW o, Lies(u, o, z)
  PROVE  /\ Moved(u, o, z).copy = o
         /\ Stays(u, StayIn(u, o, z, to), o, z, to)
         /\ StayIn(u, o, z, to).onTop = u.onTop /\ StayIn(u, o, z, to).queue = u.queue
         /\ StayIn(u, o, z, to).lastDrawn = u.lastDrawn
<1>1. /\ o \in Objects(u) /\ o \in Nat /\ o # 0 /\ Current(u, o) /\ Obj(u, o).zone = z
      /\ Obj(u, o) \in Thing
  BY LyingThings
<1>0. /\ z \in Place /\ to \in Place /\ u.objs \in Seq(Thing) /\ o \in 1..Len(u.objs)
      /\ Objects(u) = 1..Len(u.objs)
  BY <1>1, ZoneFacts, Fields DEF Objects
<1>2. PICK g : g = Kept(Obj(u, o), z)
  OBVIOUS
<1>3. g \in Thing /\ SameCard(Obj(u, o), g) /\ g.previous = Obj(u, o).previous
      /\ g.next = Obj(u, o).next /\ g.live = Obj(u, o).live
  BY <1>0, <1>1, <1>2, ThingsEdited
<1>4. PICK a : a = Moved(u, o, z).u
  OBVIOUS
<1>5. /\ a \in World /\ a.objs = Put1(u.objs, o, g)
      /\ a.zones = Less(u.zones, z, o) /\ a.onTop = u.onTop /\ a.lastDrawn = u.lastDrawn
      /\ a.queue = u.queue /\ Moved(u, o, z).copy = o
  <2>1. /\ Moved(u, o, z).copy = o
        /\ Moved(u, o, z).u \in World
        /\ Moved(u, o, z).u.objs = Put1(u.objs, o, Kept(Obj(u, o), z))
        /\ Moved(u, o, z).u.zones = Less(u.zones, z, o)
        /\ Moved(u, o, z).u.onTop = u.onTop
        /\ Moved(u, o, z).u.lastDrawn = u.lastDrawn
        /\ Moved(u, o, z).u.queue = u.queue
    BY <1>1, StayFacts
  <2> QED BY <1>2, <1>4, <2>1
<1>6. /\ a.objs \in Seq(Thing) /\ Len(a.objs) = Len(u.objs) /\ o \in Objects(a) /\ Obj(a, o) = g
      /\ \A x \in Objects(u) : Obj(a, x) = IF x = o THEN g ELSE Obj(u, x)
  <2>1. PICK c \in Seq(Thing), d \in Thing : c = u.objs /\ d = g
    BY <1>0, <1>3
  <2>2. o \in 1..Len(c)
    BY <1>0, <2>1
  <2>3. /\ Put1(c, o, d) \in Seq(Thing) /\ Len(Put1(c, o, d)) = Len(c)
        /\ \A x \in 1..Len(c) : Put1(c, o, d)[x] = IF x = o THEN d ELSE c[x]
    BY <2>2, Marked, SMTT(20), ZenonT(60)
  <2> QED BY <1>0, <1>5, <2>1, <2>3 DEF Objects, Obj
<1>7. PICK v : v = StayIn(u, o, z, to)
  OBVIOUS
<1>8. PICK h : h = Zoned(g, to)
  OBVIOUS
<1>9. /\ h \in Thing /\ h.card = Obj(u, o).card /\ h.token = Obj(u, o).token /\ h.live = Obj(u, o).live
      /\ h.next = Obj(u, o).next /\ h.zone = to /\ h.unearthed = Obj(u, o).unearthed
      /\ h.previous = Obj(u, o).previous
  BY <1>0, <1>3, <1>8, ThingsEdited DEF SameCard
<1>10. /\ v \in World /\ v.objs = Put1(a.objs, o, h) /\ v.zones = More(a.zones, to, o)
       /\ v.onTop = a.onTop /\ v.lastDrawn = a.lastDrawn /\ v.queue = a.queue
  <2>1. v = AddCard(a, o, to)
    BY <1>4, <1>5, <1>7 DEF StayIn
  <2> QED BY <1>5, <1>6, <1>8, <2>1, AddFacts
<1>11. /\ Len(v.objs) = Len(u.objs)
       /\ \A x \in Objects(u) : Obj(v, x) = IF x = o THEN h ELSE Obj(u, x)
  <2>1. o \in 1..Len(a.objs)
    BY <1>0, <1>6
  <2>2. /\ Len(Put1(a.objs, o, h)) = Len(a.objs)
        /\ \A x \in 1..Len(a.objs) : Put1(a.objs, o, h)[x] = IF x = o THEN h ELSE a.objs[x]
    BY <1>6, <1>9, <2>1, Marked, ZenonT(60)
  <2> QED BY <1>0, <1>6, <1>10, <2>2 DEF Obj
<1>12. Rezoned(u, v, o, z, o, to)
  BY <1>5, <1>10 DEF Rezoned
<1>13. Stays(u, v, o, z, to)
  BY <1>9, <1>10, <1>11, <1>12 DEF Stays
<1> QED
  BY <1>5, <1>7, <1>10, <1>13

(* A copy that comes from temp is linked to the object before that.        *)
LEMMA PassPut ==
  ASSUME NEW u \in World, Once(u), Placed(u), InOrder(u), LinkedBack(u),
         NEW z \in Zone, NEW to \in Zone, NEW o, Lies(u, o, z),
         NEW v, Renewed(u, v, o, z, to), Follows(u, v, o)
  PROVE  /\ Renewed(u, PassThrough(v, Made(u)).u, o, z, to) /\ Skips(u, PassThrough(v, Made(u)).u, o)
         /\ PassThrough(v, Made(u)).u.onTop = v.onTop /\ PassThrough(v, Made(u)).u.queue = v.queue
         /\ PassThrough(v, Made(u)).u.lastDrawn = v.lastDrawn
         /\ PassThrough(v, Made(u)).from = Obj(u, o).previousZone
<1>1. /\ o \in Objects(u) /\ o \in Nat /\ o # 0 /\ Current(u, o) /\ Obj(u, o).zone = z
      /\ Obj(u, o) \in Thing /\ Made(u) \in Nat /\ Made(u) # o /\ Made(u) \notin Objects(u)
  BY LyingThings
<1>2. PICK n \in Nat : n = Made(u) /\ n # o /\ n \notin Objects(u) /\ n # 0
  BY <1>1, Fields DEF Made
<1>3. PICK b \in Nat : b = Obj(u, o).previous
  BY <1>1 DEF Thing
<1>4. b # n /\ b # o /\ (b # 0 => b \in Objects(u))
  <2>1. b # 0 => b \in Objects(u)
    BY <1>1, <1>3 DEF LinkedBack, Current
  <2>2. b < o
    BY <1>1, <1>3 DEF InOrder
  <2>3. b # n
    BY <1>2, <2>1
  <2> QED BY <1>1, <2>1, <2>2, <2>3
<1>5. /\ v \in World /\ v.objs \in Seq(Thing) /\ v.zones \in [Zone -> Seq(Nat)]
      /\ Len(v.objs) = n /\ n \in 1..n /\ o \in 1..n /\ (b # 0 => b \in 1..n)
      /\ \A x \in Objects(u) : x \in 1..n
      /\ Obj(v, n) \in Thing /\ Obj(v, o) \in Thing /\ (b # 0 => Obj(v, b) \in Thing)
  <2>1. v \in World /\ Len(v.objs) = n
    BY <1>2 DEF Renewed
  <2>2. Objects(u) = 1..Len(u.objs) /\ Len(u.objs) \in Nat /\ n = Len(u.objs) + 1 /\ Objects(v) = 1..n
    BY <1>2, <2>1, Fields DEF Made, Objects
  <2>3. n \in 1..n /\ \A x \in Objects(u) : x \in 1..n
    BY <2>2
  <2>4. v.objs \in Seq(Thing) /\ v.zones \in [Zone -> Seq(Nat)] /\ \A x \in 1..n : Obj(v, x) \in Thing
    BY <2>1, <2>2, Fields
  <2> QED BY <1>1, <1>4, <2>1, <2>3, <2>4
<1>6. Obj(v, n).previous = o /\ Obj(v, o).previous = b /\ Obj(v, o).previousZone = Obj(u, o).previousZone
  BY <1>1, <1>2, <1>3 DEF Renewed, Follows
<1>7. PICK nn, oo : nn \in Thing /\ oo \in Thing /\ nn = Back(Obj(v, n), b) /\ oo = Deleted(Obj(v, o))
  BY <1>5, LinksEdited
<1>8. PICK bb : bb = On(Obj(v, b), n)
  OBVIOUS
<1>9. b # 0 => bb \in Thing
  BY <1>2, <1>5, <1>8, LinksEdited
<1>10. PICK s1 : s1 = Put1(v.objs, n, nn)
  OBVIOUS
<1>11. PICK s2 : s2 = Put1(s1, o, oo)
  OBVIOUS
<1>12. PICK s3 : s3 = IF b = 0 THEN s2 ELSE Put1(s2, b, bb)
  OBVIOUS
<1>13. /\ s1 \in Seq(Thing) /\ Len(s1) = n
       /\ \A x \in 1..n : s1[x] = IF x = n THEN nn ELSE Obj(v, x)
  <2>0. nn \in Thing
    BY <1>7
  <2>1. PICK c \in Seq(Thing) : c = v.objs /\ Len(c) = n /\ n \in 1..Len(c)
    BY <1>5
  <2>2. /\ Put1(c, n, nn) \in Seq(Thing) /\ Len(Put1(c, n, nn)) = Len(c)
        /\ \A x \in 1..Len(c) : Put1(c, n, nn)[x] = IF x = n THEN nn ELSE c[x]
    <3>1. n \in 1..Len(c)
      BY <2>1
    <3> QED BY <2>0, <3>1, Marked, SMTT(20), ZenonT(60)
  <2> QED BY <1>10, <2>1, <2>2 DEF Obj
<1>14. /\ s2 \in Seq(Thing) /\ Len(s2) = n
       /\ \A x \in 1..n : s2[x] = IF x = o THEN oo ELSE s1[x]
  <2>1. o \in 1..Len(s1) /\ s1 \in Seq(Thing) /\ oo \in Thing
    BY <1>5, <1>7, <1>13
  <2>2. /\ Put1(s1, o, oo) \in Seq(Thing) /\ Len(Put1(s1, o, oo)) = Len(s1)
        /\ \A x \in 1..Len(s1) : Put1(s1, o, oo)[x] = IF x = o THEN oo ELSE s1[x]
    BY <2>1, Marked
  <2> QED BY <1>11, <1>13, <2>2
<1>15. /\ s3 \in Seq(Thing) /\ Len(s3) = n
       /\ \A x \in 1..n : s3[x] = IF b # 0 /\ x = b THEN bb ELSE s2[x]
  <2>1. CASE b = 0
    BY <1>12, <1>14, <2>1
  <2>2. CASE b # 0
    <3>1. b \in 1..Len(s2) /\ bb \in Thing
      BY <1>5, <1>9, <1>14, <2>2
    <3>2. /\ Put1(s2, b, bb) \in Seq(Thing) /\ Len(Put1(s2, b, bb)) = Len(s2)
          /\ \A x \in 1..Len(s2) : Put1(s2, b, bb)[x] = IF x = b THEN bb ELSE s2[x]
      BY <1>14, <3>1, Marked
    <3> QED BY <1>12, <1>14, <2>2, <3>2
  <2> QED BY <2>1, <2>2
<1>16. PICK p : p = PassThrough(v, n)
  OBVIOUS
<1>17. p = [u |-> Other(v, s3, v.zones), from |-> Obj(u, o).previousZone]
  <2>1. PICK cut : cut = [v.objs EXCEPT ![n].previous = b,
                                 ![o] = [@ EXCEPT !.previous = 0, !.next = 0, !.live = FALSE]]
    OBVIOUS
  <2>2. p = [u |-> [v EXCEPT !.objs = IF b = 0 THEN cut ELSE [cut EXCEPT ![b].next = n]],
             from |-> Obj(v, o).previousZone]
    BY <1>6, <1>16, <2>1 DEF PassThrough
  <2>3. cut = s2
    <3>1. n \in DOMAIN v.objs /\ o \in DOMAIN v.objs /\ v.objs \in Seq(Thing)
      BY <1>5, LenProperties
    <3>2. v.objs[n] = Obj(v, n) /\ v.objs[o] = Obj(v, o)
      BY DEF Obj
    <3>3. s1 = [v.objs EXCEPT ![n].previous = b]
      BY <1>7, <1>10, <3>1, <3>2 DEF Put1, Back
    <3>4. s1[o] = v.objs[o] /\ o \in DOMAIN s1
      BY <1>2, <1>10, <3>1 DEF Put1
    <3>5. s2 = [s1 EXCEPT ![o] = [@ EXCEPT !.previous = 0, !.next = 0, !.live = FALSE]]
      BY <1>7, <1>11, <3>2, <3>4 DEF Put1, Deleted
    <3> QED BY <2>1, <3>3, <3>5
  <2>4. b # 0 => [cut EXCEPT ![b].next = n] = Put1(s2, b, bb)
    <3>1. SUFFICES ASSUME b # 0 PROVE [s2 EXCEPT ![b].next = n] = Put1(s2, b, bb)
      BY <2>3
    <3>2. b \in DOMAIN s2 /\ s2[b] = Obj(v, b)
      BY <1>4, <1>5, <1>13, <1>14, <3>1, LenProperties
    <3> QED BY <1>8, <3>2 DEF Put1, On
  <2>5. (IF b = 0 THEN cut ELSE [cut EXCEPT ![b].next = n]) = s3
    BY <1>12, <2>3, <2>4
  <2>6. [v EXCEPT !.objs = s3] = Other(v, s3, v.zones)
    BY <1>5 DEF World, Other
  <2> QED BY <1>6, <2>2, <2>5, <2>6
<1>18. PICK y : y = Other(v, s3, v.zones)
  OBVIOUS
<1>19. p.u = y /\ p.from = Obj(u, o).previousZone
  <2>1. PICK f : f = Obj(u, o).previousZone
    OBVIOUS
  <2>2. p = [u |-> y, from |-> f]
    BY <1>17, <1>18, <2>1
  <2>3. [u |-> y, from |-> f].u = y /\ [u |-> y, from |-> f].from = f
    OBVIOUS
  <2> QED BY <2>1, <2>2, <2>3
<1>20. y \in World /\ y.objs = s3 /\ y.zones = v.zones /\ y.onTop = v.onTop
       /\ y.lastDrawn = v.lastDrawn /\ y.queue = v.queue
  BY <1>5, <1>15, <1>18, OtherFacts
<1>21. /\ Obj(y, n) = nn /\ Obj(y, o) = oo /\ (b # 0 => Obj(y, b) = bb)
       /\ \A x \in Objects(u) : x # o /\ x # b => Obj(y, x) = Obj(v, x)
  BY <1>2, <1>4, <1>5, <1>13, <1>14, <1>15, <1>20 DEF Obj
<1>22. /\ SameCard(Obj(v, n), nn) /\ nn.zone = Obj(v, n).zone /\ nn.previous = b
       /\ nn.next = Obj(v, n).next /\ nn.live = Obj(v, n).live
       /\ nn.previousZone = Obj(v, n).previousZone
  <2>1. PICK k \in Thing : k = Obj(v, n)
    BY <1>5
  <2>2. /\ SameCard(k, Back(k, b)) /\ Back(k, b).zone = k.zone /\ Back(k, b).previous = b
        /\ Back(k, b).next = k.next /\ Back(k, b).live = k.live /\ Back(k, b).previousZone = k.previousZone
    BY LinksEdited
  <2> QED BY <1>7, <2>1, <2>2
<1>23. /\ SameCard(Obj(v, o), oo) /\ oo.zone = Obj(v, o).zone /\ oo.previous = 0
       /\ oo.next = 0 /\ ~ oo.live /\ oo.previousZone = Obj(v, o).previousZone
  BY <1>5, <1>7, LinksEdited
<1>24. b # 0 => /\ SameCard(Obj(v, b), bb) /\ bb.zone = Obj(v, b).zone /\ bb.previous = Obj(v, b).previous
                /\ bb.next = n /\ bb.live = Obj(v, b).live /\ bb.previousZone = Obj(v, b).previousZone
  <2>1. SUFFICES ASSUME b # 0
                 PROVE  /\ SameCard(Obj(v, b), bb) /\ bb.zone = Obj(v, b).zone
                        /\ bb.previous = Obj(v, b).previous
                        /\ bb.next = n /\ bb.live = Obj(v, b).live
                        /\ bb.previousZone = Obj(v, b).previousZone
    OBVIOUS
  <2>2. PICK k \in Thing : k = Obj(v, b)
    BY <1>5, <2>1
  <2>3. /\ SameCard(k, On(k, n)) /\ On(k, n).zone = k.zone /\ On(k, n).previous = k.previous
        /\ On(k, n).next = n /\ On(k, n).live = k.live /\ On(k, n).previousZone = k.previousZone
    BY LinksEdited
  <2> QED BY <1>8, <2>2, <2>3
<1>25. \A x \in Objects(u) : x # 0 /\ /\ SameCard(Obj(v, x), Obj(y, x)) /\ Obj(y, x).zone = Obj(v, x).zone
                             /\ Obj(y, x).previousZone = Obj(v, x).previousZone
  <2>1. TAKE x \in Objects(u)
  <2>2. x # 0
    BY DEF Objects
  <2> QED BY <1>21, <1>23, <1>24, <2>2 DEF SameCard
<1>26. Renewed(u, y, o, z, to)
  <2>1. y \in World /\ Len(y.objs) = n /\ Rezoned(u, y, o, z, n, to)
    BY <1>2, <1>15, <1>20 DEF Renewed, Rezoned
  <2>2. /\ Obj(y, n).card = Obj(u, o).card /\ Obj(y, n).token = Obj(u, o).token
        /\ Current(y, n) /\ Obj(y, n).zone = to /\ Obj(y, n).previousZone = z
    BY <1>2, <1>21, <1>22 DEF Renewed, SameCard, Current
  <2>3. \A x \in Objects(u) : /\ Obj(y, x).card = Obj(u, x).card /\ Obj(y, x).token = Obj(u, x).token
                              /\ Obj(y, x).previousZone = Obj(u, x).previousZone
                              /\ Obj(y, x).unearthed = Obj(u, x).unearthed
                              /\ Obj(y, x).zone = IF x = o THEN None ELSE Obj(u, x).zone
    BY <1>25 DEF Renewed, SameCard
  <2> QED BY <1>2, <2>1, <2>2, <2>3 DEF Renewed
<1>27. Skips(u, y, o)
  <2>1. Obj(y, n).previous = b /\ Obj(y, o).previous = 0 /\ Obj(y, o).next = 0 /\ ~ Obj(y, o).live
    BY <1>21, <1>22, <1>23
  <2>2. ASSUME NEW x \in Objects(u), x # o
        PROVE  /\ Obj(y, x).previous = Obj(u, x).previous /\ Obj(y, x).live = Obj(u, x).live
               /\ Obj(y, x).next = IF x = b THEN n ELSE Obj(u, x).next
    <3>1. /\ Obj(v, x).previous = Obj(u, x).previous /\ Obj(v, x).live = Obj(u, x).live
          /\ Obj(v, x).next = Obj(u, x).next
      BY <2>2 DEF Follows
    <3>2. x = b => b # 0
      BY <1>25
    <3> QED BY <1>21, <1>24, <2>2, <3>1, <3>2
  <2> QED BY <1>2, <1>3, <2>1, <2>2 DEF Skips
<1> QED
  BY <1>2, <1>16, <1>19, <1>20, <1>26, <1>27

(* An event, and a card on top: nothing else changes.                      *)
LEMMA SendFacts ==
  ASSUME NEW v \in World, NEW n \in Nat, NEW from \in Place, NEW to \in Zone
  PROVE  /\ Send(v, n, from, to) \in World /\ Send(v, n, from, to).objs = v.objs
         /\ Send(v, n, from, to).zones = v.zones /\ Send(v, n, from, to).onTop = v.onTop
         /\ Send(v, n, from, to).lastDrawn = v.lastDrawn /\ Says(v, Send(v, n, from, to), n, from, to)
<1>1. [card |-> n, from |-> from, to |-> to] \in News
  BY DEF News
<1>2. PICK e \in News : e = [card |-> n, from |-> from, to |-> to]
  BY <1>1
<1>3. Append(v.queue, e) \in Seq(News)
  BY Fields, AppendProperties
<1>4. PICK q \in Seq(News) : q = Append(v.queue, e)
  BY <1>3
<1>5. Send(v, n, from, to) = [v EXCEPT !.queue = q]
  BY <1>2, <1>4 DEF Send, World
<1>6. /\ [v EXCEPT !.queue = q] \in World /\ [v EXCEPT !.queue = q].objs = v.objs
      /\ [v EXCEPT !.queue = q].zones = v.zones /\ [v EXCEPT !.queue = q].onTop = v.onTop
      /\ [v EXCEPT !.queue = q].lastDrawn = v.lastDrawn /\ [v EXCEPT !.queue = q].queue = q
  BY DEF World
<1> QED
  BY <1>2, <1>4, <1>5, <1>6 DEF Says

OnTop(v, p, n) == [v EXCEPT !.onTop[p] = Append(@, n)]
More1(ts, p, n) == [ts EXCEPT ![p] = Append(@, n)]

LEMMA OnTopFacts ==
  ASSUME NEW v \in World, NEW n \in Nat, NEW p \in Player
  PROVE  /\ OnTop(v, p, n) \in World /\ OnTop(v, p, n).objs = v.objs
         /\ OnTop(v, p, n).zones = v.zones /\ OnTop(v, p, n).onTop = More1(v.onTop, p, n)
         /\ OnTop(v, p, n).lastDrawn = v.lastDrawn /\ OnTop(v, p, n).queue = v.queue
<1>1. Append(v.onTop[p], n) \in Seq(Nat)
  BY Fields, Added
<1>2. PICK t \in [Player -> Seq(Nat)] : t = More1(v.onTop, p, n)
  BY <1>1, Fields DEF More1
<1>3. OnTop(v, p, n) = [v EXCEPT !.onTop = t]
  BY <1>2 DEF OnTop, More1, World
<1>4. /\ [v EXCEPT !.onTop = t] \in World /\ [v EXCEPT !.onTop = t].objs = v.objs
      /\ [v EXCEPT !.onTop = t].zones = v.zones /\ [v EXCEPT !.onTop = t].onTop = t
      /\ [v EXCEPT !.onTop = t].lastDrawn = v.lastDrawn /\ [v EXCEPT !.onTop = t].queue = v.queue
  BY DEF World
<1> QED
  BY <1>2, <1>3, <1>4

LEMMA SameThings ==
  ASSUME NEW u, NEW v, NEW y \in World, y.objs = v.objs, y.zones = v.zones,
         NEW o, NEW z, NEW to
  PROVE  /\ Renewed(u, v, o, z, to) => Renewed(u, y, o, z, to)
         /\ Follows(u, v, o) => Follows(u, y, o)
         /\ Skips(u, v, o) => Skips(u, y, o)
         /\ Stays(u, v, o, z, to) => Stays(u, y, o, z, to)
<1>1. \A x : Obj(y, x) = Obj(v, x)
  BY DEF Obj
<1>2. \A x : Current(y, x) <=> Current(v, x)
  BY <1>1 DEF Current
<1>3. \A n : Rezoned(u, v, o, z, n, to) => Rezoned(u, y, o, z, n, to)
  BY DEF Rezoned
<1>4. Renewed(u, v, o, z, to) => Renewed(u, y, o, z, to)
  BY <1>1, <1>2, <1>3 DEF Renewed
<1>5. Follows(u, v, o) => Follows(u, y, o)
  BY <1>1 DEF Follows
<1>6. Skips(u, v, o) => Skips(u, y, o)
  BY <1>1 DEF Skips
<1>7. Stays(u, v, o, z, to) => Stays(u, y, o, z, to)
  BY <1>1, <1>3 DEF Stays
<1> QED
  BY <1>4, <1>5, <1>6, <1>7

(* The ways a card moves: between battlefields, to wait in temp, out of    *)
(* temp, and all others.                                                   *)
Kind(from, to) == IF from[1] = "inPlay" /\ to[1] = "inPlay" THEN "stays"
                  ELSE IF to[1] = "library" /\ from = to THEN "top"
                  ELSE IF to[1] = "temp" THEN "waits"
                  ELSE IF from[1] = "temp" THEN "comes" ELSE "goes"

Stayed(u, v, o, z, to) ==
  Stays(u, v, o, z, to) /\ Says(u, v, o, z, to) /\ v.onTop = u.onTop /\ v.lastDrawn = u.lastDrawn
Waited(u, v, o, z, to) ==
  Renewed(u, v, o, z, to) /\ Follows(u, v, o) /\ v.queue = u.queue /\ v.lastDrawn = u.lastDrawn
Came(u, v, o, z, to) ==
  /\ Renewed(u, v, o, z, to) /\ Skips(u, v, o) /\ Says(u, v, Made(u), Obj(u, o).previousZone, to)
  /\ v.onTop = u.onTop /\ v.lastDrawn = u.lastDrawn
Went(u, v, o, z, to) ==
  /\ Renewed(u, v, o, z, to) /\ Follows(u, v, o) /\ Says(u, v, Made(u), z, to)
  /\ v.onTop = u.onTop /\ v.lastDrawn = u.lastDrawn

Ret(u, o, from, to) == PutInZone(u, o, from, to).ret
Now1(u, o, from, to) == PutInZone(u, o, from, to).u

LEMMA PutNothing ==
  ASSUME NEW u, NEW o, NEW from \in Place, NEW to \in Zone
  PROVE  /\ from = None => Ret(u, o, from, to) = o /\ Now1(u, o, from, to) = u
         /\ from # None /\ ~ Lies(u, o, from) => Ret(u, o, from, to) = 0 /\ Now1(u, o, from, to) = u
<1>1. from = None => PutInZone(u, o, from, to) = [u |-> u, ret |-> o]
  BY DEF PutInZone
<1>2. from # None /\ ~ Lies(u, o, from) => PutInZone(u, o, from, to) = [u |-> u, ret |-> 0]
  BY ZoneFacts DEF PutInZone, Lies
<1> QED
  BY <1>1, <1>2 DEF Ret, Now1

LEMMA PutCases ==
  ASSUME NEW u \in World, Once(u), Placed(u), InOrder(u), LinkedBack(u),
         NEW from \in Zone, NEW to \in Zone, NEW o, Lies(u, o, from),
         NEW v, v = Now1(u, o, from, to)
  PROVE  /\ Kind(from, to) = "stays" => Stayed(u, v, o, from, to) /\ Ret(u, o, from, to) = o
         /\ Kind(from, to) = "top"   => /\ Waited(u, v, o, from, Z("temp", to[2]))
                                        /\ v.onTop = More1(u.onTop, to[2], Made(u))
                                        /\ Ret(u, o, from, to) = Made(u)
         /\ Kind(from, to) = "waits" => /\ Waited(u, v, o, from, to) /\ v.onTop = u.onTop
                                        /\ Ret(u, o, from, to) = Made(u)
         /\ Kind(from, to) = "comes" => Came(u, v, o, from, to) /\ Ret(u, o, from, to) = Made(u)
         /\ Kind(from, to) = "goes"  => Went(u, v, o, from, to) /\ Ret(u, o, from, to) = Made(u)
<1>1. /\ from # None /\ to # None /\ Contains(u.zones[from], o) /\ from \in Place
      /\ to[2] \in Player /\ Z("temp", to[2]) \in Zone
  BY ZoneFacts DEF Lies
<1>2. o \in Objects(u) /\ o \in Nat /\ Made(u) \in Nat /\ Obj(u, o).previousZone \in Place
  BY LyingThings DEF Thing
<1>3. CASE Kind(from, to) = "stays"
  <2>1. from[1] = "inPlay" /\ to[1] = "inPlay" /\ "inPlay" # "library" /\ "inPlay" # "temp"
    BY <1>3 DEF Kind
  <2>2. /\ Moved(u, o, from).copy = o
        /\ Stays(u, StayIn(u, o, from, to), o, from, to)
        /\ StayIn(u, o, from, to).onTop = u.onTop /\ StayIn(u, o, from, to).queue = u.queue
        /\ StayIn(u, o, from, to).lastDrawn = u.lastDrawn
    BY StayPut
  <2>3. PICK y : y = StayIn(u, o, from, to)
    OBVIOUS
  <2>4. PICK x : x = Send(y, o, from, to)
    OBVIOUS
  <2>5. PutInZone(u, o, from, to) = [u |-> x, ret |-> o]
    BY <1>1, <2>1, <2>2, <2>3, <2>4 DEF PutInZone, StayIn, Moved
  <2>6. v = x /\ Ret(u, o, from, to) = o
    BY <2>5 DEF Now1, Ret
  <2>7. y \in World
    BY <2>2, <2>3 DEF Stays
  <2>8. /\ x \in World /\ x.objs = y.objs /\ x.zones = y.zones /\ x.onTop = y.onTop
        /\ x.lastDrawn = y.lastDrawn /\ Says(y, x, o, from, to)
    <3>1. y \in World /\ o \in Nat /\ from \in Place
      BY <1>1, <1>2, <2>7
    <3> QED BY <2>4, <3>1, SendFacts
  <2>9. Stays(u, x, o, from, to)
    BY <2>2, <2>3, <2>8, SameThings
  <2>10. Says(u, x, o, from, to)
    BY <2>2, <2>3, <2>8 DEF Says
  <2> QED BY <1>3, <2>2, <2>3, <2>6, <2>8, <2>9, <2>10 DEF Stayed
<1>4. CASE Kind(from, to) # "stays"
  <2>1. ~ (from[1] = "inPlay" /\ to[1] = "inPlay")
    BY <1>4 DEF Kind
  <2>2. RemoveCard(u, o, from, ~(from[1] = "inPlay" /\ to[1] = "inPlay")) = Copied(u, o, from)
    BY <2>1 DEF Copied
  <2>3. PICK y : y = CopyTo(u, o, from, to)
    OBVIOUS
  <2>4. \A t \in Zone : /\ Renewed(u, CopyTo(u, o, from, t), o, from, t) /\ Follows(u, CopyTo(u, o, from, t), o)
                        /\ CopyTo(u, o, from, t).onTop = u.onTop /\ CopyTo(u, o, from, t).queue = u.queue
                        /\ CopyTo(u, o, from, t).lastDrawn = u.lastDrawn
    BY CopyPut
  <2>5. Copied(u, o, from).copy = Made(u)
    BY CopyPut
  <2>6. /\ Renewed(u, y, o, from, to) /\ Follows(u, y, o)
        /\ y.onTop = u.onTop /\ y.queue = u.queue /\ y.lastDrawn = u.lastDrawn /\ y \in World
    BY <2>3, <2>4 DEF Renewed
  <2>7. PICK th : th = PassThrough(y, Made(u))
    OBVIOUS
  <2>8. PutInZone(u, o, from, to) =
          IF to[1] = "library" /\ from = to
          THEN [u |-> OnTop(CopyTo(u, o, from, Z("temp", to[2])), to[2], Made(u)), ret |-> Made(u)]
          ELSE IF to[1] = "temp" THEN [u |-> y, ret |-> Made(u)]
          ELSE IF from[1] = "temp" THEN [u |-> Send(th.u, Made(u), th.from, to), ret |-> Made(u)]
          ELSE [u |-> Send(y, Made(u), from, to), ret |-> Made(u)]
    BY <1>1, <2>2, <2>3, <2>5, <2>7 DEF PutInZone, CopyTo, OnTop
  <2>9. CASE Kind(from, to) = "top"
    <3>1. PICK c : c = CopyTo(u, o, from, Z("temp", to[2]))
      OBVIOUS
    <3>2. /\ Renewed(u, c, o, from, Z("temp", to[2])) /\ Follows(u, c, o)
          /\ c.onTop = u.onTop /\ c.queue = u.queue /\ c.lastDrawn = u.lastDrawn /\ c \in World
      BY <1>1, <2>4, <3>1 DEF Renewed
    <3>3. PICK x : x = OnTop(c, to[2], Made(u))
      OBVIOUS
    <3>4. PutInZone(u, o, from, to) = [u |-> x, ret |-> Made(u)]
      BY <2>8, <2>9, <3>1, <3>3 DEF Kind
    <3>5. v = x /\ Ret(u, o, from, to) = Made(u)
      BY <3>4 DEF Now1, Ret
    <3>6. /\ x \in World /\ x.objs = c.objs /\ x.zones = c.zones /\ x.onTop = More1(c.onTop, to[2], Made(u))
          /\ x.lastDrawn = c.lastDrawn /\ x.queue = c.queue
      BY <1>1, <1>2, <3>2, <3>3, OnTopFacts
    <3>7. Renewed(u, x, o, from, Z("temp", to[2])) /\ Follows(u, x, o)
      BY <3>2, <3>6, SameThings
    <3> QED BY <2>9, <3>2, <3>5, <3>6, <3>7 DEF Waited
  <2>10. CASE Kind(from, to) = "waits"
    <3>1. PutInZone(u, o, from, to) = [u |-> y, ret |-> Made(u)]
      BY <2>8, <2>10 DEF Kind
    <3>2. v = y /\ Ret(u, o, from, to) = Made(u)
      BY <3>1 DEF Now1, Ret
    <3> QED BY <2>6, <2>10, <3>2 DEF Waited
  <2>11. CASE Kind(from, to) = "comes"
    <3>1. /\ Renewed(u, th.u, o, from, to) /\ Skips(u, th.u, o)
          /\ th.u.onTop = y.onTop /\ th.u.queue = y.queue
          /\ th.u.lastDrawn = y.lastDrawn
          /\ th.from = Obj(u, o).previousZone
      BY <2>6, <2>7, PassPut
    <3>2. PICK c, f : c = th.u /\ f = th.from
      OBVIOUS
    <3>3. /\ Renewed(u, c, o, from, to) /\ Skips(u, c, o) /\ f = Obj(u, o).previousZone /\ f \in Place
          /\ c.onTop = u.onTop /\ c.queue = u.queue /\ c.lastDrawn = u.lastDrawn /\ c \in World
      BY <1>2, <2>6, <3>1, <3>2 DEF Renewed
    <3>4. PICK x : x = Send(c, Made(u), f, to)
      OBVIOUS
    <3>5. PutInZone(u, o, from, to) = [u |-> x, ret |-> Made(u)]
      BY <2>8, <2>11, <3>2, <3>4 DEF Kind
    <3>6. v = x /\ Ret(u, o, from, to) = Made(u)
      BY <3>5 DEF Now1, Ret
    <3>7. /\ x \in World /\ x.objs = c.objs /\ x.zones = c.zones /\ x.onTop = c.onTop
          /\ x.lastDrawn = c.lastDrawn /\ Says(c, x, Made(u), f, to)
      BY <1>2, <3>3, <3>4, SendFacts
    <3>8. Renewed(u, x, o, from, to) /\ Skips(u, x, o)
      BY <3>3, <3>7, SameThings
    <3>9. Says(u, x, Made(u), Obj(u, o).previousZone, to)
      BY <3>3, <3>7 DEF Says
    <3> QED BY <2>11, <3>3, <3>6, <3>7, <3>8, <3>9 DEF Came
  <2>12. CASE Kind(from, to) = "goes"
    <3>4. PICK x : x = Send(y, Made(u), from, to)
      OBVIOUS
    <3>5. PutInZone(u, o, from, to) = [u |-> x, ret |-> Made(u)]
      BY <2>8, <2>12, <3>4 DEF Kind
    <3>6. v = x /\ Ret(u, o, from, to) = Made(u)
      BY <3>5 DEF Now1, Ret
    <3>7. /\ x \in World /\ x.objs = y.objs /\ x.zones = y.zones /\ x.onTop = y.onTop
          /\ x.lastDrawn = y.lastDrawn /\ Says(y, x, Made(u), from, to)
      <4>1. y \in World /\ Made(u) \in Nat /\ from \in Place
        BY <1>1, <1>2, <2>6
      <4> QED BY <3>4, <4>1, SendFacts
    <3>8. Renewed(u, x, o, from, to) /\ Follows(u, x, o)
      BY <2>6, <3>7, SameThings
    <3>9. Says(u, x, Made(u), from, to)
      BY <2>6, <3>7 DEF Says
    <3> QED BY <2>6, <2>12, <3>6, <3>7, <3>8, <3>9 DEF Went
  <2> QED BY <1>4, <2>9, <2>10, <2>11, <2>12
<1> QED
  BY <1>3, <1>4

-----------------------------------------------------------------------------
(* What a move keeps.                                                      *)

LEMMA OldAndNew ==
  ASSUME NEW u \in World, NEW v \in World, Len(v.objs) = Made(u)
  PROVE  /\ Made(u) \in Nat /\ Made(u) # 0 /\ Made(u) \notin Objects(u) /\ Made(u) \in Objects(v)
         /\ \A x : x \in Objects(v) <=> x \in Objects(u) \/ x = Made(u)
         /\ \A x \in Objects(u) : x \in Nat /\ x # 0 /\ x < Made(u)
<1>1. PICK n \in Nat : n = Len(u.objs) /\ Len(v.objs) = n + 1 /\ Made(u) = n + 1
  BY Fields DEF Made
<1>2. \A x : x \in 1..n + 1 <=> x \in 1..n \/ x = n + 1
  BY <1>1
<1> QED
  BY <1>1, <1>2 DEF Objects

(* The object that is left is no longer the card; nothing else stops being *)
(* what it is.                                                             *)
LEMMA NoLonger ==
  ASSUME NEW u, Sound(u), NEW z \in Zone, NEW to \in Zone, NEW o, Lies(u, o, z), NEW v,
         Renewed(u, v, o, z, to), Follows(u, v, o) \/ Skips(u, v, o)
  PROVE  \A x \in Objects(u) : Current(v, x) <=> Current(u, x) /\ x # o
<1>0. u \in World /\ Placed(u) /\ LinkedBack(u) /\ v \in World /\ Len(v.objs) = Made(u)
  BY DEF Sound, Renewed
<1>1. /\ o \in Objects(u) /\ o \in Nat /\ o # 0 /\ Current(u, o) /\ Made(u) \in Nat /\ Made(u) # 0
  BY <1>0, LyingThings, OldAndNew
<1>2. CASE Follows(u, v, o)
  BY <1>1, <1>2 DEF Follows, Current
<1>3. CASE Skips(u, v, o)
  <2>1. TAKE x \in Objects(u)
  <2>2. CASE x = o
    BY <1>3, <2>2 DEF Skips, Current
  <2>3. CASE x # o /\ x # Obj(u, o).previous
    BY <1>3, <2>3 DEF Skips, Current
  <2>4. CASE x # o /\ x = Obj(u, o).previous
    <3>1. Obj(u, x).next = o
      <4>1. x # 0
        BY <1>0, OldAndNew
      <4> QED BY <1>0, <1>1, <2>4, <4>1 DEF LinkedBack, Current
    <3>2. Obj(v, x).next = Made(u)
      BY <1>3, <2>4 DEF Skips
    <3> QED BY <1>1, <3>1, <3>2 DEF Current
  <2> QED BY <2>2, <2>3, <2>4
<1> QED
  BY <1>2, <1>3

LEMMA RenewedPlaces ==
  ASSUME NEW u, Sound(u), NEW z \in Zone, NEW to \in Zone, NEW o, Lies(u, o, z), NEW v,
         Renewed(u, v, o, z, to), Follows(u, v, o) \/ Skips(u, v, o)
  PROVE  v \in World /\ Placed(v) /\ Once(v) /\ Found(v)
<1>0. u \in World /\ Placed(u) /\ Once(u) /\ Found(u) /\ v \in World /\ Len(v.objs) = Made(u)
  BY DEF Sound, Renewed
<1>1. PICK n \in Nat : n = Made(u)
  BY <1>0, OldAndNew
<1>2. n \notin Objects(u) /\ \A x : x \in Objects(v) <=> x \in Objects(u) \/ x = n
  BY <1>0, <1>1, OldAndNew
<1>3. /\ \A y \in Zone : \A x : Lies(v, x, y) <=> \/ Lies(u, x, y) /\ ~ (x = o /\ y = z)
                                                  \/ x = n /\ y = to
      /\ Once(v)
  BY <1>0, <1>1, <1>2, ZoneMoves DEF Renewed
<1>4. \A x \in Objects(u) : Current(v, x) <=> Current(u, x) /\ x # o
  BY NoLonger
<1>5. Current(v, n) /\ Obj(v, n).zone = to
  BY <1>1 DEF Renewed
<1>6. \A x \in Objects(u) : x # o => Obj(v, x).zone = Obj(u, x).zone
  BY DEF Renewed
<1>7. \A y \in Zone : \A x : Lies(u, x, y) => x \in Objects(u) /\ Current(u, x) /\ Obj(u, x).zone = y
  BY <1>0 DEF Placed
<1>8. Placed(v)
  <2>1. ASSUME NEW y \in Zone, NEW x, Lies(v, x, y)
        PROVE  x \in Objects(v) /\ Current(v, x) /\ Obj(v, x).zone = y
    <3>1. CASE x = n /\ y = to
      BY <1>2, <1>5, <3>1
    <3>2. CASE Lies(u, x, y) /\ ~ (x = o /\ y = z)
      <4>1. x # o
        BY <1>7, <3>2
      <4> QED BY <1>2, <1>4, <1>6, <1>7, <3>2, <4>1
    <3> QED BY <1>3, <2>1, <3>1, <3>2
  <2> QED BY <2>1 DEF Placed
<1>9. Found(v)
  <2>1. ASSUME NEW x \in Objects(v), Current(v, x)
        PROVE  Obj(v, x).zone \in Zone /\ Lies(v, x, Obj(v, x).zone)
    <3>1. CASE x = n
      BY <1>3, <1>5, <3>1
    <3>2. CASE x \in Objects(u)
      <4>1. x # o /\ Current(u, x)
        BY <1>4, <2>1, <3>2
      <4>2. Obj(u, x).zone \in Zone /\ Lies(u, x, Obj(u, x).zone)
        BY <1>0, <3>2, <4>1 DEF Found
      <4> QED BY <1>3, <1>6, <3>2, <4>1, <4>2
    <3> QED BY <1>2, <3>1, <3>2
  <2> QED BY <2>1 DEF Found
<1> QED
  BY <1>0, <1>3, <1>8, <1>9

LEMMA RenewedHeld ==
  ASSUME NEW u, Sound(u), NEW z \in Zone, NEW to \in Zone, NEW o, Lies(u, o, z), NEW v,
         Renewed(u, v, o, z, to), Follows(u, v, o) \/ Skips(u, v, o)
  PROVE  Held(v)
<1>0. u \in World /\ Placed(u) /\ Held(u) /\ v \in World /\ Len(v.objs) = Made(u)
  BY DEF Sound, Renewed
<1>1. PICK n \in Nat : n = Made(u)
  BY <1>0, OldAndNew
<1>2. n \notin Objects(u) /\ \A x : x \in Objects(v) <=> x \in Objects(u) \/ x = n
  BY <1>0, <1>1, OldAndNew
<1>3. \A x \in Objects(u) : Current(v, x) <=> Current(u, x) /\ x # o
  BY NoLonger
<1>4. Current(v, n) /\ Obj(v, n).card = Obj(u, o).card
  BY <1>1 DEF Renewed
<1>5. \A x \in Objects(u) : Obj(v, x).card = Obj(u, x).card
  BY DEF Renewed
<1>6. o \in Objects(u) /\ Current(u, o)
  BY <1>0, LyingThings
<1>7. ASSUME NEW c \in Cards
      PROVE  \E x \in Objects(v) : Is1(v, c, x)
  <2>1. PICK x \in Objects(u) : Is1(u, c, x)
    BY <1>0 DEF Held
  <2>2. CASE x = o
    <3>1. Is1(v, c, n)
      <4>1. Obj(v, n).card = c /\ Current(v, n)
        BY <1>4, <2>1, <2>2 DEF Is1
      <4>2. ASSUME NEW y \in Objects(v), Obj(v, y).card = c, Current(v, y)
            PROVE  y = n
        <5>1. SUFFICES ASSUME y \in Objects(u) PROVE FALSE
          BY <1>2
        <5>2. Obj(u, y).card = c /\ Current(u, y) /\ y # o
          BY <1>3, <1>5, <4>2, <5>1
        <5> QED BY <2>1, <2>2, <5>1, <5>2 DEF Is1
      <4> QED BY <4>1, <4>2 DEF Is1
    <3> QED BY <1>2, <3>1
  <2>3. CASE x # o
    <3>1. Is1(v, c, x)
      <4>1. Obj(v, x).card = c /\ Current(v, x)
        BY <1>3, <1>5, <2>1, <2>3 DEF Is1
      <4>2. ASSUME NEW y \in Objects(v), Obj(v, y).card = c, Current(v, y)
            PROVE  y = x
        <5>1. CASE y = n
          <6>1. Obj(u, o).card = c
            BY <1>4, <4>2, <5>1
          <6> QED BY <1>6, <2>1, <2>3, <6>1 DEF Is1
        <5>2. CASE y \in Objects(u)
          <6>1. Obj(u, y).card = c /\ Current(u, y)
            BY <1>3, <1>5, <4>2, <5>2
          <6> QED BY <2>1, <5>2, <6>1 DEF Is1
        <5> QED BY <1>2, <5>1, <5>2
      <4> QED BY <4>1, <4>2 DEF Is1
    <3> QED BY <1>2, <3>1
  <2> QED BY <2>2, <2>3
<1> QED
  BY <1>7 DEF Held

LEMMA FollowsLinks ==
  ASSUME NEW u, Sound(u), NEW z \in Zone, NEW to \in Zone, NEW o, Lies(u, o, z), NEW v,
         Renewed(u, v, o, z, to), Follows(u, v, o)
  PROVE  LinkedOn(v) /\ LinkedBack(v) /\ InOrder(v)
<1>0. /\ u \in World /\ Placed(u) /\ LinkedOn(u) /\ LinkedBack(u) /\ InOrder(u)
      /\ v \in World /\ Len(v.objs) = Made(u)
  BY DEF Sound, Renewed
<1>1. PICK n \in Nat : n = Made(u) /\ n = Len(u.objs) + 1
  BY <1>0, OldAndNew DEF Made
<1>2. /\ n \notin Objects(u) /\ \A x : x \in Objects(v) <=> x \in Objects(u) \/ x = n
      /\ \A x \in Objects(u) : x \in Nat /\ x # 0 /\ x < n
  <2>1. /\ Made(u) \notin Objects(u) /\ \A x : x \in Objects(v) <=> x \in Objects(u) \/ x = Made(u)
        /\ \A x \in Objects(u) : x \in Nat /\ x # 0 /\ x < Made(u)
    BY <1>0, OldAndNew
  <2> QED BY <1>1, <2>1
<1>3. /\ Obj(v, n).live /\ Obj(v, n).next = 0 /\ Obj(v, n).card = Obj(u, o).card /\ Obj(v, n).previous = o
  BY <1>1 DEF Renewed, Current, Follows
<1>4. \A x \in Objects(u) :
        /\ Obj(v, x).card = Obj(u, x).card
        /\ Obj(v, x).previous = Obj(u, x).previous /\ Obj(v, x).live = Obj(u, x).live
        /\ Obj(v, x).next = IF x = o THEN n ELSE Obj(u, x).next
  BY <1>1 DEF Renewed, Follows
<1>5. o \in Objects(u) /\ Obj(u, o).live /\ Obj(u, o).next = 0
  BY <1>0, LyingThings DEF Current
<1>6. ASSUME NEW x \in Objects(v), Obj(v, x).live, Obj(v, x).next # 0
      PROVE  /\ Obj(v, x).next \in Objects(v) /\ Obj(v, Obj(v, x).next).live
             /\ Obj(v, Obj(v, x).next).previous = x /\ Obj(v, Obj(v, x).next).card = Obj(v, x).card
  <2>1. x \in Objects(u)
    BY <1>2, <1>3, <1>6
  <2>2. CASE x = o
    BY <1>2, <1>3, <1>4, <2>1, <2>2
  <2>3. CASE x # o
    <3>1. Obj(v, x).next = Obj(u, x).next /\ Obj(u, x).live
      BY <1>4, <1>6, <2>1, <2>3
    <3>2. /\ Obj(u, x).next \in Objects(u) /\ Obj(u, Obj(u, x).next).live
          /\ Obj(u, Obj(u, x).next).previous = x /\ Obj(u, Obj(u, x).next).card = Obj(u, x).card
      BY <1>0, <1>6, <2>1, <3>1 DEF LinkedOn
    <3> QED BY <1>2, <1>4, <2>1, <3>1, <3>2
  <2> QED BY <2>2, <2>3
<1>7. ASSUME NEW x \in Objects(v), Obj(v, x).live, Obj(v, x).previous # 0
      PROVE  /\ Obj(v, x).previous \in Objects(v) /\ Obj(v, Obj(v, x).previous).live
             /\ Obj(v, Obj(v, x).previous).next = x
  <2>1. CASE x = n
    BY <1>2, <1>3, <1>4, <1>5, <2>1
  <2>2. CASE x \in Objects(u)
    <3>1. Obj(v, x).previous = Obj(u, x).previous /\ Obj(u, x).live
      BY <1>4, <1>7, <2>2
    <3>2. /\ Obj(u, x).previous \in Objects(u) /\ Obj(u, Obj(u, x).previous).live
          /\ Obj(u, Obj(u, x).previous).next = x
      BY <1>0, <1>7, <2>2, <3>1 DEF LinkedBack
    <3>3. Obj(u, x).previous # o
      BY <1>2, <1>5, <2>2, <3>2
    <3> QED BY <1>2, <1>4, <3>1, <3>2, <3>3
  <2> QED BY <1>2, <2>1, <2>2
<1>8. ASSUME NEW x \in Objects(v)
      PROVE  Obj(v, x).previous < x /\ Obj(v, x).next <= Len(v.objs)
  <2>1. CASE x = n
    BY <1>0, <1>1, <1>2, <1>3, <1>5, <2>1
  <2>2. CASE x \in Objects(u)
    <3>1. Obj(u, x).previous < x /\ Obj(u, x).next <= Len(u.objs)
      BY <1>0, <2>2 DEF InOrder
    <3>2. Obj(u, x).next \in Nat /\ Len(u.objs) \in Nat
      BY <1>0, <2>2, Fields DEF Thing
    <3>3. Obj(v, x).next \in {n, Obj(u, x).next}
      BY <1>4, <2>2
    <3> QED BY <1>0, <1>1, <1>4, <2>2, <3>1, <3>2, <3>3
  <2> QED BY <1>2, <2>1, <2>2
<1> QED
  BY <1>6, <1>7, <1>8 DEF LinkedOn, LinkedBack, InOrder

LEMMA SkipsLinks ==
  ASSUME NEW u, Sound(u), NEW z \in Zone, NEW to \in Zone, NEW o, Lies(u, o, z), NEW v,
         Renewed(u, v, o, z, to), Skips(u, v, o)
  PROVE  LinkedOn(v) /\ LinkedBack(v) /\ InOrder(v)
<1>0. /\ u \in World /\ Placed(u) /\ LinkedOn(u) /\ LinkedBack(u) /\ InOrder(u)
      /\ v \in World /\ Len(v.objs) = Made(u)
  BY DEF Sound, Renewed
<1>1. PICK n \in Nat : n = Made(u) /\ n = Len(u.objs) + 1
  BY <1>0, OldAndNew DEF Made
<1>2. /\ n \notin Objects(u) /\ \A x : x \in Objects(v) <=> x \in Objects(u) \/ x = n
      /\ \A x \in Objects(u) : x \in Nat /\ x # 0 /\ x < n
  <2>1. /\ Made(u) \notin Objects(u) /\ \A x : x \in Objects(v) <=> x \in Objects(u) \/ x = Made(u)
        /\ \A x \in Objects(u) : x \in Nat /\ x # 0 /\ x < Made(u)
    BY <1>0, OldAndNew
  <2> QED BY <1>1, <2>1
<1>3. PICK b \in Nat : b = Obj(u, o).previous
  BY <1>0, LyingThings DEF Thing
<1>4. /\ Obj(v, n).live /\ Obj(v, n).next = 0 /\ Obj(v, n).card = Obj(u, o).card /\ Obj(v, n).previous = b
  BY <1>1, <1>3 DEF Renewed, Current, Skips
<1>5. \A x \in Objects(u) : x # o =>
        /\ Obj(v, x).card = Obj(u, x).card
        /\ Obj(v, x).previous = Obj(u, x).previous /\ Obj(v, x).live = Obj(u, x).live
        /\ Obj(v, x).next = IF x = b THEN n ELSE Obj(u, x).next
  BY <1>1, <1>3 DEF Renewed, Skips
<1>6. Obj(v, o).previous = 0 /\ Obj(v, o).next = 0 /\ ~ Obj(v, o).live
  BY DEF Skips
<1>7. o \in Objects(u) /\ Obj(u, o).live /\ Obj(u, o).next = 0
  BY <1>0, LyingThings DEF Current
<1>8. b # 0 => /\ b \in Objects(u) /\ Obj(u, b).live /\ Obj(u, b).next = o /\ b # o
               /\ Obj(u, b).card = Obj(u, o).card
  <2>1. b # 0 => b \in Objects(u) /\ Obj(u, b).live /\ Obj(u, b).next = o
    BY <1>0, <1>3, <1>7 DEF LinkedBack
  <2>2. b # o
    BY <1>2, <1>7, <2>1
  <2>3. b # 0 => Obj(u, b).card = Obj(u, o).card
    BY <1>0, <1>2, <1>7, <2>1 DEF LinkedOn
  <2> QED BY <2>1, <2>2, <2>3
<1>9. \A x \in Objects(u) : x # 0
  BY <1>2
<1>10. ASSUME NEW x \in Objects(v), Obj(v, x).live, Obj(v, x).next # 0
       PROVE  /\ Obj(v, x).next \in Objects(v) /\ Obj(v, Obj(v, x).next).live
              /\ Obj(v, Obj(v, x).next).previous = x /\ Obj(v, Obj(v, x).next).card = Obj(v, x).card
  <2>1. x \in Objects(u) /\ x # o
    BY <1>2, <1>4, <1>6, <1>10
  <2>2. CASE x = b
    BY <1>2, <1>4, <1>5, <1>8, <1>9, <2>1, <2>2
  <2>3. CASE x # b
    <3>1. Obj(v, x).next = Obj(u, x).next /\ Obj(u, x).live
      BY <1>5, <1>10, <2>1, <2>3
    <3>2. /\ Obj(u, x).next \in Objects(u) /\ Obj(u, Obj(u, x).next).live
          /\ Obj(u, Obj(u, x).next).previous = x /\ Obj(u, Obj(u, x).next).card = Obj(u, x).card
      BY <1>0, <1>10, <2>1, <3>1 DEF LinkedOn
    <3>3. Obj(u, x).next # o
      BY <1>3, <2>3, <3>2
    <3> QED BY <1>2, <1>5, <2>1, <3>1, <3>2, <3>3
  <2> QED BY <2>2, <2>3
<1>11. ASSUME NEW x \in Objects(v), Obj(v, x).live, Obj(v, x).previous # 0
       PROVE  /\ Obj(v, x).previous \in Objects(v) /\ Obj(v, Obj(v, x).previous).live
              /\ Obj(v, Obj(v, x).previous).next = x
  <2>1. CASE x = n
    BY <1>2, <1>4, <1>5, <1>8, <1>11, <2>1
  <2>2. CASE x \in Objects(u)
    <3>1. x # o
      BY <1>6, <1>11
    <3>2. Obj(v, x).previous = Obj(u, x).previous /\ Obj(u, x).live
      BY <1>5, <1>11, <2>2, <3>1
    <3>3. /\ Obj(u, x).previous \in Objects(u) /\ Obj(u, Obj(u, x).previous).live
          /\ Obj(u, Obj(u, x).previous).next = x
      BY <1>0, <1>11, <2>2, <3>2 DEF LinkedBack
    <3>4. Obj(u, x).previous # o
      BY <1>7, <1>9, <2>2, <3>3
    <3>5. Obj(u, x).previous # b
      BY <1>8, <1>9, <3>1, <3>3
    <3> QED BY <1>2, <1>5, <3>2, <3>3, <3>4, <3>5
  <2> QED BY <1>2, <2>1, <2>2
<1>12. ASSUME NEW x \in Objects(v)
       PROVE  Obj(v, x).previous < x /\ Obj(v, x).next <= Len(v.objs)
  <2>1. CASE x = n
    <3>1. b < n
      <4>1. b # 0 => b < n
        BY <1>2, <1>8
      <4> QED BY <1>1, <4>1
    <3> QED BY <1>0, <1>1, <1>4, <2>1, <3>1
  <2>2. CASE x = o
    BY <1>0, <1>1, <1>2, <1>6, <1>7, <2>2
  <2>3. CASE x \in Objects(u) /\ x # o
    <3>1. Obj(u, x).previous < x /\ Obj(u, x).next <= Len(u.objs)
      BY <1>0, <2>3 DEF InOrder
    <3>2. Obj(u, x).next \in Nat /\ Len(u.objs) \in Nat
      BY <1>0, <2>3, Fields DEF Thing
    <3>3. Obj(v, x).next \in {n, Obj(u, x).next}
      BY <1>5, <2>3
    <3> QED BY <1>0, <1>1, <1>5, <2>3, <3>1, <3>2, <3>3
  <2> QED BY <1>2, <2>1, <2>2, <2>3
<1> QED
  BY <1>10, <1>11, <1>12 DEF LinkedOn, LinkedBack, InOrder

(* What the events say stays as true as it was.                            *)
LEMMA RenewedHonest ==
  ASSUME NEW u, Sound(u), NEW z \in Zone, NEW to \in Zone, NEW o, Lies(u, o, z), NEW v,
         Renewed(u, v, o, z, to), \/ Follows(u, v, o)
                                  \/ Skips(u, v, o) /\ z[1] = "temp",
         NEW e, Honest(u, e)
  PROVE  Honest(v, e)
<1>0. u \in World /\ Placed(u) /\ v \in World /\ Len(v.objs) = Made(u)
  BY DEF Sound, Renewed
<1>1. PICK x \in Objects(u) : x = e.card /\ x \in Objects(v)
  BY <1>0, OldAndNew DEF Honest
<1>2. /\ Obj(v, x).card = Obj(u, x).card /\ Obj(v, x).zone = IF x = o THEN None ELSE Obj(u, x).zone
  BY DEF Renewed
<1>3. Obj(v, x).live
  <2>1. Obj(u, x).live /\ Obj(u, x).zone[1] # "temp"
    BY <1>1 DEF Honest
  <2>2. CASE Follows(u, v, o)
    BY <2>1, <2>2 DEF Follows
  <2>3. CASE Skips(u, v, o) /\ z[1] = "temp"
    <3>1. x # o
      BY <1>0, <2>1, <2>3, LyingThings
    <3> QED BY <2>1, <2>3, <3>1 DEF Skips
  <2> QED BY <2>2, <2>3
<1>4. None[1] # "temp" /\ None[1] # "inPlay"
  BY ZoneFacts
<1> QED
  BY <1>1, <1>2, <1>3, <1>4 DEF Honest

LEMMA RenewedRest ==
  ASSUME NEW u, Sound(u), NEW z \in Zone, NEW to \in Zone, NEW o, Lies(u, o, z), NEW v,
         Renewed(u, v, o, z, to), to[1] = "garbage" => Obj(u, o).token, to[1] = "temp" => z[1] # "temp"
  PROVE  TokensOnly(v) /\ FromElsewhere(v)
<1>0. u \in World /\ Placed(u) /\ TokensOnly(u) /\ FromElsewhere(u) /\ v \in World /\ Len(v.objs) = Made(u)
  BY DEF Sound, Renewed
<1>1. PICK n : n = Made(u)
  OBVIOUS
<1>2. n \notin Objects(u) /\ \A x : x \in Objects(v) <=> x \in Objects(u) \/ x = n
  BY <1>0, <1>1, OldAndNew
<1>3. /\ Obj(v, n).card = Obj(u, o).card /\ Obj(v, n).token = Obj(u, o).token
      /\ Obj(v, n).zone = to /\ Obj(v, n).previousZone = z
  BY <1>1 DEF Renewed
<1>4. \A x \in Objects(u) :
        /\ Obj(v, x).card = Obj(u, x).card /\ Obj(v, x).token = Obj(u, x).token
        /\ Obj(v, x).previousZone = Obj(u, x).previousZone
        /\ Obj(v, x).zone = IF x = o THEN None ELSE Obj(u, x).zone
  BY DEF Renewed
<1>5. o \in Objects(u)
  BY <1>0, LyingThings
<1>6. None[1] # "temp" /\ None[1] # "garbage" /\ z # None
  BY ZoneFacts
<1>7. TokensOnly(v)
  <2>1. ASSUME NEW x \in Objects(v)
        PROVE  /\ Obj(v, x).zone[1] = "garbage" => Obj(v, x).token
               /\ Obj(v, x).token => Obj(v, x).card \in Tokens
    <3>1. CASE x = n
      BY <1>0, <1>3, <1>5, <3>1 DEF TokensOnly
    <3>2. CASE x \in Objects(u)
      BY <1>0, <1>4, <1>6, <3>2 DEF TokensOnly
    <3> QED BY <1>2, <3>1, <3>2
  <2> QED BY <2>1 DEF TokensOnly
<1>8. FromElsewhere(v)
  <2>1. ASSUME NEW x \in Objects(v), Obj(v, x).zone[1] = "temp"
        PROVE  /\ Obj(v, x).previousZone[1] # "temp"
               /\ Obj(v, x).previousZone = None => Obj(v, x).card \in Tokens
    <3>1. CASE x = n
      BY <1>3, <1>6, <2>1, <3>1
    <3>2. CASE x \in Objects(u)
      <4>1. Obj(u, x).zone[1] = "temp"
        BY <1>4, <1>6, <2>1, <3>2
      <4> QED BY <1>0, <1>4, <3>2, <4>1 DEF FromElsewhere
    <3> QED BY <1>2, <3>1, <3>2
  <2> QED BY <2>1 DEF FromElsewhere
<1> QED
  BY <1>7, <1>8

(* One more event.                                                         *)
LEMMA QueueGrows ==
  ASSUME NEW u \in World, NEW v \in World, NEW x, NEW from, NEW to, Says(u, v, x, from, to)
  PROVE  /\ Len(u.queue) \in Nat /\ Len(v.queue) = Len(u.queue) + 1
         /\ v.queue[Len(u.queue) + 1] = [card |-> x, from |-> from, to |-> to]
         /\ \A i \in 1..Len(u.queue) : v.queue[i] = u.queue[i]
<1>1. u.queue \in Seq(News) /\ v.queue \in Seq(News)
  BY Fields
<1>2. PICK e : e = [card |-> x, from |-> from, to |-> to]
  OBVIOUS
<1>3. v.queue = Append(u.queue, e)
  BY <1>2 DEF Says
<1>4. Len(u.queue) \in Nat /\ Len(v.queue) = Len(u.queue) + 1
      /\ v.queue[Len(u.queue) + 1] = e /\ \A i \in 1..Len(u.queue) : v.queue[i] = u.queue[i]
  <2>1. PICK q \in Seq(News) : q = u.queue
    BY <1>1
  <2>2. Len(q) \in Nat
    BY LenProperties
  <2>3. Append(q, e)[Len(q) + 1] = e /\ Len(Append(q, e)) = Len(q) + 1
        /\ \A i \in 1..Len(q) : Append(q, e)[i] = q[i]
    <3>1. q \in Seq(News \cup {e}) /\ e \in News \cup {e}
      <4>1. \A i \in 1..Len(q) : q[i] \in News \cup {e}
        BY ElementOfSeq
      <4> QED BY <4>1, SeqDef, LenProperties, SMT
    <3> QED BY <3>1, AppendProperties
  <2> QED BY <1>3, <2>1, <2>2, <2>3
<1> QED
  BY <1>2, <1>4

LEMMA ToldMore ==
  ASSUME NEW u \in World, NEW v \in World, Told(u), NEW x, NEW from, NEW to, Says(u, v, x, from, to),
         \A e : Honest(u, e) => Honest(v, e), Honest(v, [card |-> x, from |-> from, to |-> to])
  PROVE  Told(v)
<1>1. PICK m \in Nat : /\ m = Len(u.queue) /\ Len(v.queue) = m + 1
                       /\ v.queue[m + 1] = [card |-> x, from |-> from, to |-> to]
                       /\ \A i \in 1..m : v.queue[i] = u.queue[i]
  BY QueueGrows
<1>2. ASSUME NEW i \in 1..m + 1
      PROVE  Honest(v, v.queue[i])
  <2>1. i \in 1..m \/ i = m + 1
    OBVIOUS
  <2>2. CASE i \in 1..m
    <3>1. Honest(u, u.queue[i])
      BY <1>1, <2>2 DEF Told
    <3> QED BY <1>1, <2>2, <3>1
  <2>3. CASE i = m + 1
    BY <1>1, <2>3
  <2> QED BY <2>1, <2>2, <2>3
<1> QED
  BY <1>1, <1>2 DEF Told

LEMMA ToldStill ==
  ASSUME NEW u, NEW v, Told(u), v.queue = u.queue, \A e : Honest(u, e) => Honest(v, e)
  PROVE  Told(v)
BY DEF Told

(* An object that stays what it is, in another battlefield.                *)
LEMMA StaysKeeps ==
  ASSUME NEW u, Sound(u), NEW z \in Zone, NEW to \in Zone, NEW o, Lies(u, o, z), NEW v,
         Stays(u, v, o, z, to), z[1] = "inPlay", to[1] = "inPlay"
  PROVE  /\ v \in World /\ Placed(v) /\ Once(v) /\ Found(v) /\ LinkedOn(v) /\ LinkedBack(v) /\ InOrder(v)
         /\ Held(v) /\ TokensOnly(v) /\ FromElsewhere(v) /\ \A e : Honest(u, e) => Honest(v, e)
         /\ \A x \in Objects(u) : Current(v, x) <=> Current(u, x)
<1>0. /\ u \in World /\ Placed(u) /\ Once(u) /\ Found(u) /\ LinkedOn(u) /\ LinkedBack(u) /\ InOrder(u)
      /\ Held(u) /\ TokensOnly(u) /\ FromElsewhere(u) /\ v \in World /\ Len(v.objs) = Len(u.objs)
      /\ Objects(v) = Objects(u)
  BY DEF Sound, Stays, Objects
<1>1. \A x \in Objects(u) :
       /\ Obj(v, x).card = Obj(u, x).card /\ Obj(v, x).token = Obj(u, x).token
       /\ Obj(v, x).previous = Obj(u, x).previous /\ Obj(v, x).next = Obj(u, x).next
       /\ Obj(v, x).live = Obj(u, x).live
       /\ Obj(v, x).zone = IF x = o THEN to ELSE Obj(u, x).zone
       /\ x # o => Obj(v, x).previousZone = Obj(u, x).previousZone
  BY DEF Stays
<1>2. \A x \in Objects(u) : Current(v, x) <=> Current(u, x)
  BY <1>1 DEF Current
<1>3. o \in Objects(u) /\ o \in Nat /\ Current(u, o) /\ Obj(u, o).zone = z
  BY <1>0, LyingThings
<1>4. /\ \A y \in Zone : \A x : Lies(v, x, y) <=> \/ Lies(u, x, y) /\ ~ (x = o /\ y = z)
                                                  \/ x = o /\ y = to
      /\ Once(v)
  BY <1>0, <1>3, ZoneMoves DEF Stays
<1>5. Placed(v)
  <2>1. ASSUME NEW y \in Zone, NEW x, Lies(v, x, y)
        PROVE  x \in Objects(v) /\ Current(v, x) /\ Obj(v, x).zone = y
    <3>1. CASE x = o /\ y = to
      BY <1>0, <1>1, <1>2, <1>3, <3>1
    <3>2. CASE Lies(u, x, y) /\ ~ (x = o /\ y = z)
      <4>1. x \in Objects(u) /\ Current(u, x) /\ Obj(u, x).zone = y
        BY <1>0, <3>2 DEF Placed
      <4>2. x # o
        BY <1>3, <3>2, <4>1
      <4> QED BY <1>0, <1>1, <1>2, <4>1, <4>2
    <3> QED BY <1>4, <2>1, <3>1, <3>2
  <2> QED BY <2>1 DEF Placed
<1>6. Found(v)
  <2>1. ASSUME NEW x \in Objects(u), Current(v, x)
        PROVE  Obj(v, x).zone \in Zone /\ Lies(v, x, Obj(v, x).zone)
    <3>1. CASE x = o
      BY <1>1, <1>4, <3>1
    <3>2. CASE x # o
      <4>1. Obj(u, x).zone \in Zone /\ Lies(u, x, Obj(u, x).zone)
        BY <1>0, <1>2, <2>1 DEF Found
      <4> QED BY <1>1, <1>4, <3>2, <4>1
    <3> QED BY <3>1, <3>2
  <2> QED BY <1>0, <2>1 DEF Found
<1>7. LinkedOn(v)
  BY <1>0, <1>1 DEF LinkedOn
<1>8. LinkedBack(v)
  BY <1>0, <1>1 DEF LinkedBack
<1>9. InOrder(v)
  BY <1>0, <1>1 DEF InOrder
<1>10. Held(v)
  <2>1. \A c, x : x \in Objects(u) /\ Is1(u, c, x) => Is1(v, c, x)
    BY <1>0, <1>1, <1>2 DEF Is1
  <2> QED BY <1>0, <2>1 DEF Held
<1>11. to[1] # "garbage" /\ to[1] # "temp"
  OBVIOUS
<1>12. TokensOnly(v)
  BY <1>0, <1>1, <1>11 DEF TokensOnly
<1>13. FromElsewhere(v)
  BY <1>0, <1>1, <1>11 DEF FromElsewhere
<1>14. ASSUME NEW e, Honest(u, e)
       PROVE  Honest(v, e)
  <2>1. PICK x \in Objects(u) : x = e.card
    BY <1>14 DEF Honest
  <2>2. x = o => e.to[1] = "inPlay"
    BY <1>3, <1>14, <2>1 DEF Honest
  <2> QED BY <1>0, <1>1, <1>11, <1>14, <2>1, <2>2 DEF Honest
<1> QED
  BY <1>0, <1>2, <1>4, <1>5, <1>6, <1>7, <1>8, <1>9, <1>10, <1>12, <1>13, <1>14

(* Each way a card moves keeps the world sound.                            *)
LEMMA SoundStayed ==
  ASSUME NEW u, Sound(u), NEW z \in Zone, NEW to \in Zone, NEW o, Lies(u, o, z), NEW v,
         Stayed(u, v, o, z, to), z[1] = "inPlay", to[1] = "inPlay"
  PROVE  Sound(v)
<1>1. Stays(u, v, o, z, to) /\ Says(u, v, o, z, to)
  BY DEF Stayed
<1>2. /\ v \in World /\ Placed(v) /\ Once(v) /\ Found(v) /\ LinkedOn(v) /\ LinkedBack(v) /\ InOrder(v)
      /\ Held(v) /\ TokensOnly(v) /\ FromElsewhere(v) /\ \A e : Honest(u, e) => Honest(v, e)
  BY <1>1, StaysKeeps
<1>3. u \in World /\ Placed(u) /\ Told(u)
  BY DEF Sound
<1>4. o \in Objects(u) /\ Current(u, o)
  BY <1>3, LyingThings
<1>5. o \in Objects(v) /\ Obj(v, o).live /\ Obj(v, o).zone = to
  BY <1>1, <1>4 DEF Stays, Objects, Current
<1>6. PICK e : e = [card |-> o, from |-> z, to |-> to]
  OBVIOUS
<1>7. e.card = o /\ e.from = z /\ e.to = to
  BY <1>6
<1>8. z # None /\ to[1] # "temp" /\ z[1] # "temp"
  BY ZoneFacts
<1>9. Honest(v, e)
  BY <1>5, <1>7, <1>8 DEF Honest
<1>10. Told(v)
  BY <1>1, <1>2, <1>3, <1>6, <1>9, ToldMore
<1> QED
  BY <1>2, <1>10 DEF Sound

LEMMA SoundWaited ==
  ASSUME NEW u, Sound(u), NEW z \in Zone, NEW to \in Zone, NEW o, Lies(u, o, z), NEW v,
         Waited(u, v, o, z, to), z[1] # "temp", to[1] = "temp"
  PROVE  Sound(v)
<1>1. Renewed(u, v, o, z, to) /\ Follows(u, v, o) /\ v.queue = u.queue
  BY DEF Waited
<1>2. v \in World /\ Placed(v) /\ Once(v) /\ Found(v)
  BY <1>1, RenewedPlaces
<1>3. Held(v) /\ LinkedOn(v) /\ LinkedBack(v) /\ InOrder(v)
  BY <1>1, RenewedHeld, FollowsLinks
<1>4. TokensOnly(v) /\ FromElsewhere(v)
  <2>1. to[1] # "garbage"
    OBVIOUS
  <2> QED BY <1>1, <2>1, RenewedRest
<1>5. Told(v)
  <2>1. \A e : Honest(u, e) => Honest(v, e)
    BY <1>1, RenewedHonest
  <2> QED BY <1>1, <2>1, ToldStill DEF Sound
<1> QED
  BY <1>2, <1>3, <1>4, <1>5 DEF Sound

LEMMA NewsOfNew ==
  ASSUME NEW u, Sound(u), NEW z \in Zone, NEW to \in Zone, NEW o, Lies(u, o, z), NEW v,
         Renewed(u, v, o, z, to), to[1] # "temp", NEW from, from[1] # "temp",
         from = None => Obj(u, o).card \in Tokens
  PROVE  Honest(v, [card |-> Made(u), from |-> from, to |-> to])
<1>0. u \in World /\ Placed(u) /\ v \in World /\ Len(v.objs) = Made(u)
  BY DEF Sound, Renewed
<1>1. PICK e : e = [card |-> Made(u), from |-> from, to |-> to]
  OBVIOUS
<1>2. e.card = Made(u) /\ e.from = from /\ e.to = to
  BY <1>1
<1>3. Made(u) \in Objects(v)
  BY <1>0, OldAndNew
<1>4. Obj(v, Made(u)).live /\ Obj(v, Made(u)).zone = to /\ Obj(v, Made(u)).card = Obj(u, o).card
  BY DEF Renewed, Current
<1>5. Honest(v, e)
  BY <1>2, <1>3, <1>4 DEF Honest
<1> QED
  BY <1>1, <1>5

LEMMA SoundWent ==
  ASSUME NEW u, Sound(u), NEW z \in Zone, NEW to \in Zone, NEW o, Lies(u, o, z), NEW v,
         Went(u, v, o, z, to), z[1] # "temp", to[1] # "temp", to[1] = "garbage" => Obj(u, o).token
  PROVE  Sound(v)
<1>1. Renewed(u, v, o, z, to) /\ Follows(u, v, o) /\ Says(u, v, Made(u), z, to)
  BY DEF Went
<1>2. v \in World /\ Placed(v) /\ Once(v) /\ Found(v)
  BY <1>1, RenewedPlaces
<1>3. Held(v) /\ LinkedOn(v) /\ LinkedBack(v) /\ InOrder(v)
  BY <1>1, RenewedHeld, FollowsLinks
<1>4. TokensOnly(v) /\ FromElsewhere(v)
  BY <1>1, RenewedRest
<1>5. Told(v)
  <2>1. \A e : Honest(u, e) => Honest(v, e)
    BY <1>1, RenewedHonest
  <2>2. z # None
    BY ZoneFacts
  <2>3. Honest(v, [card |-> Made(u), from |-> z, to |-> to])
    BY <1>1, <2>2, NewsOfNew
  <2>4. u \in World /\ Told(u)
    BY DEF Sound
  <2> QED BY <1>1, <1>2, <2>1, <2>3, <2>4, ToldMore
<1> QED
  BY <1>2, <1>3, <1>4, <1>5 DEF Sound

LEMMA SoundCame ==
  ASSUME NEW u, Sound(u), NEW z \in Zone, NEW to \in Zone, NEW o, Lies(u, o, z), NEW v,
         Came(u, v, o, z, to), z[1] = "temp", to[1] # "temp", to[1] # "garbage"
  PROVE  Sound(v)
<1>1. Renewed(u, v, o, z, to) /\ Skips(u, v, o) /\ Says(u, v, Made(u), Obj(u, o).previousZone, to)
  BY DEF Came
<1>2. v \in World /\ Placed(v) /\ Once(v) /\ Found(v)
  BY <1>1, RenewedPlaces
<1>3. Held(v) /\ LinkedOn(v) /\ LinkedBack(v) /\ InOrder(v)
  BY <1>1, RenewedHeld, SkipsLinks
<1>4. TokensOnly(v) /\ FromElsewhere(v)
  BY <1>1, RenewedRest
<1>5. Told(v)
  <2>1. \A e : Honest(u, e) => Honest(v, e)
    BY <1>1, RenewedHonest
  <2>2. u \in World /\ Told(u) /\ Placed(u) /\ FromElsewhere(u)
    BY DEF Sound
  <2>3. PICK f : f = Obj(u, o).previousZone
    OBVIOUS
  <2>4. f[1] # "temp" /\ (f = None => Obj(u, o).card \in Tokens)
    <3>1. o \in Objects(u) /\ Obj(u, o).zone[1] = "temp"
      BY <2>2, LyingThings
    <3> QED BY <2>2, <2>3, <3>1 DEF FromElsewhere
  <2>5. Honest(v, [card |-> Made(u), from |-> f, to |-> to])
    BY <1>1, <2>4, NewsOfNew
  <2>6. Says(u, v, Made(u), f, to)
    BY <1>1, <2>3
  <2> QED BY <1>2, <2>1, <2>2, <2>5, <2>6, ToldMore
<1> QED
  BY <1>2, <1>3, <1>4, <1>5 DEF Sound

-----------------------------------------------------------------------------
(* What any number of moves keeps.                                         *)

(* The objects that there were are still there, none is in temp that was   *)
(* not, and the events wait in the same order.                             *)
OldThings(u, v) ==
  /\ Objects(u) \subseteq Objects(v)
  /\ \A x \in Objects(u) : /\ Obj(v, x).card = Obj(u, x).card
                           /\ Obj(v, x).zone[1] = "temp" => Obj(u, x).zone[1] = "temp"
OldNews(u, v) ==
  Len(u.queue) <= Len(v.queue) /\ \A i \in 1..Len(u.queue) : v.queue[i] = u.queue[i]
StillTold(u, v) ==
  /\ \A k \in Nat : k <= Len(u.queue) /\ TokensTold(u, k) => TokensTold(v, k)
  /\ \A T : Flagged(u, T) => Flagged(v, T)
Grown(u, v) ==
  Sound(v) /\ OldThings(u, v) /\ OldNews(u, v) /\ StillTold(u, v) /\ v.lastDrawn = u.lastDrawn

LEMMA GrownNot ==
  ASSUME NEW u, Sound(u)
  PROVE  Grown(u, u)
<1>1. Len(u.queue) \in Nat
  BY Fields, LenProperties DEF Sound
<1> QED
  BY <1>1 DEF Grown, OldThings, OldNews, StillTold

LEMMA GrownTwice ==
  ASSUME NEW u, NEW v, NEW y, Sound(u), Grown(u, v), Grown(v, y)
  PROVE  Grown(u, y)
<1>1. Len(u.queue) \in Nat /\ Len(v.queue) \in Nat /\ Len(y.queue) \in Nat
  BY Fields, LenProperties DEF Sound, Grown
<1>2. OldThings(u, y)
  BY DEF Grown, OldThings
<1>3. OldNews(u, y)
  BY <1>1 DEF Grown, OldNews
<1>4. ASSUME NEW k \in Nat, k <= Len(u.queue), TokensTold(u, k)
      PROVE  TokensTold(y, k)
  <2>1. k <= Len(v.queue)
    BY <1>1, <1>4 DEF Grown, OldNews
  <2>2. TokensTold(v, k)
    BY <1>4 DEF Grown, StillTold
  <2> QED BY <2>1, <2>2 DEF Grown, StillTold
<1>5. ASSUME NEW T, Flagged(u, T)
      PROVE  Flagged(y, T)
  BY <1>5 DEF Grown, StillTold
<1> QED
  BY <1>2, <1>3, <1>4, <1>5 DEF Grown, StillTold

(* A token that departs is told of, when every one departed was before or  *)
(* is what the last event tells of.                                        *)
LEMMA ToldOfTokens ==
  ASSUME NEW u \in World, NEW v \in World, OldNews(u, v), NEW k \in Nat, TokensTold(u, k),
         \A x \in Objects(v) : Departed(v, x) =>
           \/ x \in Objects(u) /\ Departed(u, x)
           \/ \E i \in 1..Len(v.queue) : i > k /\ v.queue[i].card = x /\ Goner(v.queue[i].to)
  PROVE  TokensTold(v, k)
<1>1. Len(u.queue) \in Nat /\ Len(v.queue) \in Nat
  BY Fields, LenProperties
<1>2. ASSUME NEW x \in Objects(v), Departed(v, x)
      PROVE  \E i \in 1..Len(v.queue) : i > k /\ v.queue[i].card = x /\ Goner(v.queue[i].to)
  <2>1. CASE x \in Objects(u) /\ Departed(u, x)
    <3>1. PICK i \in 1..Len(u.queue) : i > k /\ u.queue[i].card = x /\ Goner(u.queue[i].to)
      BY <2>1 DEF TokensTold
    <3>2. i \in 1..Len(v.queue) /\ v.queue[i] = u.queue[i]
      BY <1>1 DEF OldNews
    <3> QED BY <3>1, <3>2
  <2> QED BY <1>2, <2>1
<1> QED
  BY <1>2 DEF TokensTold

LEMMA GrownStayed ==
  ASSUME NEW u, Sound(u), NEW z \in Zone, NEW to \in Zone, NEW o, Lies(u, o, z), NEW v,
         Stayed(u, v, o, z, to), z[1] = "inPlay", to[1] = "inPlay"
  PROVE  Grown(u, v)
<1>0. u \in World /\ Placed(u) /\ Sound(v) /\ v \in World /\ Stays(u, v, o, z, to) /\ Says(u, v, o, z, to)
      /\ v.lastDrawn = u.lastDrawn
  BY SoundStayed DEF Sound, Stayed
<1>1. o \in Objects(u) /\ Objects(v) = Objects(u)
  BY <1>0, LyingThings DEF Stays, Objects
<1>2. \A x \in Objects(u) : Current(v, x) <=> Current(u, x)
  BY <1>0, StaysKeeps
<1>3. \A x \in Objects(u) : /\ Obj(v, x).card = Obj(u, x).card /\ Obj(v, x).token = Obj(u, x).token
                            /\ Obj(v, x).zone = IF x = o THEN to ELSE Obj(u, x).zone
  BY <1>0 DEF Stays
<1>4. OldThings(u, v)
  BY <1>1, <1>3 DEF OldThings
<1>5. OldNews(u, v)
  <2>1. PICK m \in Nat : /\ m = Len(u.queue) /\ Len(v.queue) = m + 1
                         /\ \A i \in 1..m : v.queue[i] = u.queue[i]
    BY <1>0, QueueGrows
  <2> QED BY <2>1 DEF OldNews
<1>6. ~ Goner(to)
  BY DEF Goner
<1>7. \A x \in Objects(v) : Departed(v, x) => x \in Objects(u) /\ Departed(u, x)
  BY <1>1, <1>2, <1>3, <1>6 DEF Departed
<1>8. \A k \in Nat : TokensTold(u, k) => TokensTold(v, k)
  BY <1>0, <1>5, <1>7, ToldOfTokens
<1>9. \A T : Flagged(u, T) => Flagged(v, T)
  BY <1>1, <1>2, <1>3 DEF Flagged
<1> QED
  BY <1>0, <1>4, <1>5, <1>8, <1>9 DEF Grown, StillTold

LEMMA RenewedTold ==
  ASSUME NEW u, Sound(u), NEW z \in Zone, NEW to \in Zone, NEW o, Lies(u, o, z), NEW v,
         Renewed(u, v, o, z, to), Follows(u, v, o) \/ Skips(u, v, o)
  PROVE  /\ OldThings(u, v)
         /\ \A x \in Objects(v) : Departed(v, x) => \/ x \in Objects(u) /\ Departed(u, x)
                                                    \/ x = Made(u) /\ Goner(to)
         /\ \A T : Flagged(u, T) => Flagged(v, T)
<1>0. u \in World /\ Placed(u) /\ v \in World /\ Len(v.objs) = Made(u)
  BY DEF Sound, Renewed
<1>1. PICK n : n = Made(u)
  OBVIOUS
<1>2. n \notin Objects(u) /\ \A x : x \in Objects(v) <=> x \in Objects(u) \/ x = n
  BY <1>0, <1>1, OldAndNew
<1>3. /\ Obj(v, n).card = Obj(u, o).card /\ Obj(v, n).token = Obj(u, o).token /\ Obj(v, n).zone = to
  BY <1>1 DEF Renewed
<1>4. \A x \in Objects(u) : /\ Obj(v, x).card = Obj(u, x).card /\ Obj(v, x).token = Obj(u, x).token
                            /\ Obj(v, x).zone = IF x = o THEN None ELSE Obj(u, x).zone
  BY DEF Renewed
<1>5. o \in Objects(u) /\ Current(u, o)
  BY <1>0, LyingThings
<1>6. \A x \in Objects(u) : Current(v, x) <=> Current(u, x) /\ x # o
  BY NoLonger
<1>7. None[1] # "temp"
  BY ZoneFacts
<1>8. OldThings(u, v)
  BY <1>2, <1>4, <1>7 DEF OldThings
<1>9. \A x \in Objects(v) : Departed(v, x) => (x \in Objects(u) /\ Departed(u, x)) \/ (x = n /\ Goner(to))
  <2>1. TAKE x \in Objects(v)
  <2>2. CASE x = n
    BY <1>3, <2>2 DEF Departed
  <2>3. CASE x \in Objects(u)
    BY <1>4, <1>6, <2>3 DEF Departed
  <2> QED BY <1>2, <2>2, <2>3
<1>10. ASSUME NEW T, Flagged(u, T), NEW x \in Objects(v), Current(v, x), Obj(v, x).card \in Tokens \ T
       PROVE  Obj(v, x).token
  <2>1. CASE x = n
    BY <1>3, <1>5, <1>10, <2>1 DEF Flagged
  <2>2. CASE x \in Objects(u)
    BY <1>4, <1>6, <1>10, <2>2 DEF Flagged
  <2> QED BY <1>2, <2>1, <2>2
<1>11. \A T : Flagged(u, T) => Flagged(v, T)
  BY <1>10 DEF Flagged
<1> QED
  BY <1>1, <1>8, <1>9, <1>11

LEMMA GrownTold ==
  ASSUME NEW u, Sound(u), NEW z \in Zone, NEW to \in Zone, NEW o, Lies(u, o, z), NEW v, Sound(v),
         Renewed(u, v, o, z, to), Follows(u, v, o) \/ Skips(u, v, o),
         NEW from, Says(u, v, Made(u), from, to), v.lastDrawn = u.lastDrawn
  PROVE  Grown(u, v)
<1>0. u \in World /\ v \in World
  BY DEF Sound
<1>1. /\ OldThings(u, v)
      /\ \A x \in Objects(v) : Departed(v, x) => \/ x \in Objects(u) /\ Departed(u, x)
                                                 \/ x = Made(u) /\ Goner(to)
      /\ \A T : Flagged(u, T) => Flagged(v, T)
  BY RenewedTold
<1>2. PICK m \in Nat : /\ m = Len(u.queue) /\ Len(v.queue) = m + 1
                       /\ v.queue[m + 1] = [card |-> Made(u), from |-> from, to |-> to]
                       /\ \A i \in 1..m : v.queue[i] = u.queue[i]
  BY <1>0, QueueGrows
<1>3. OldNews(u, v)
  BY <1>2 DEF OldNews
<1>4. ASSUME NEW k \in Nat, k <= m, TokensTold(u, k)
      PROVE  TokensTold(v, k)
  <2>1. m + 1 \in 1..Len(v.queue) /\ m + 1 > k
    BY <1>2, <1>4
  <2>2. v.queue[m + 1].card = Made(u) /\ v.queue[m + 1].to = to
    BY <1>2
  <2>3. \A x \in Objects(v) : Departed(v, x) =>
          \/ x \in Objects(u) /\ Departed(u, x)
          \/ \E i \in 1..Len(v.queue) : i > k /\ v.queue[i].card = x /\ Goner(v.queue[i].to)
    BY <1>1, <2>1, <2>2
  <2> QED BY <1>0, <1>3, <1>4, <2>3, ToldOfTokens
<1> QED
  BY <1>1, <1>2, <1>3, <1>4 DEF Grown, StillTold

LEMMA GrownWaited ==
  ASSUME NEW u, Sound(u), NEW z \in Zone, NEW to \in Zone, NEW o, Lies(u, o, z), NEW v,
         Waited(u, v, o, z, to), z[1] # "temp", to[1] = "temp"
  PROVE  Grown(u, v)
<1>0. u \in World /\ v \in World /\ Sound(v) /\ Renewed(u, v, o, z, to) /\ Follows(u, v, o)
      /\ v.queue = u.queue /\ v.lastDrawn = u.lastDrawn
  BY SoundWaited DEF Sound, Waited
<1>1. /\ OldThings(u, v)
      /\ \A x \in Objects(v) : Departed(v, x) => \/ x \in Objects(u) /\ Departed(u, x)
                                                 \/ x = Made(u) /\ Goner(to)
      /\ \A T : Flagged(u, T) => Flagged(v, T)
  BY <1>0, RenewedTold
<1>2. ~ Goner(to)
  BY DEF Goner
<1>3. OldNews(u, v)
  <2>1. Len(u.queue) \in Nat
    BY <1>0, Fields, LenProperties
  <2> QED BY <1>0, <2>1 DEF OldNews
<1>4. \A k \in Nat : TokensTold(u, k) => TokensTold(v, k)
  BY <1>0, <1>1, <1>2, <1>3, ToldOfTokens
<1> QED
  BY <1>0, <1>1, <1>3, <1>4 DEF Grown, StillTold

LEMMA GrownWent ==
  ASSUME NEW u, Sound(u), NEW z \in Zone, NEW to \in Zone, NEW o, Lies(u, o, z), NEW v,
         Went(u, v, o, z, to), z[1] # "temp", to[1] # "temp", to[1] = "garbage" => Obj(u, o).token
  PROVE  Grown(u, v)
<1>1. /\ Sound(v) /\ Renewed(u, v, o, z, to) /\ Follows(u, v, o) /\ Says(u, v, Made(u), z, to)
      /\ v.lastDrawn = u.lastDrawn
  BY SoundWent DEF Went
<1> QED
  BY <1>1, GrownTold

LEMMA GrownCame ==
  ASSUME NEW u, Sound(u), NEW z \in Zone, NEW to \in Zone, NEW o, Lies(u, o, z), NEW v,
         Came(u, v, o, z, to), z[1] = "temp", to[1] # "temp", to[1] # "garbage"
  PROVE  Grown(u, v)
<1>1. /\ Sound(v) /\ Renewed(u, v, o, z, to) /\ Skips(u, v, o)
      /\ Says(u, v, Made(u), Obj(u, o).previousZone, to) /\ v.lastDrawn = u.lastDrawn
  BY SoundCame DEF Came
<1> QED
  BY <1>1, GrownTold

(* What waits in temp is what it was; and the cards in play are not fewer. *)
Tidy(u) == Waits(u) /\ NoTokenWaits(u)
Quiet(u, v) == v.onTop = u.onTop /\ \A p \in Player : v.zones[Z("temp", p)] = u.zones[Z("temp", p)]
AsMany(u, v, d) == \A p \in Player : Len(v.zones[Z("inPlay", p)]) >= Len(u.zones[Z("inPlay", p)]) - d

LEMMA TidyQuiet ==
  ASSUME NEW u, NEW v, Tidy(u), OldThings(u, v), Quiet(u, v)
  PROVE  Tidy(v)
<1>1. Waits(v)
  BY DEF Tidy, Waits, Quiet
<1>2. NoTokenWaits(v)
  BY DEF Tidy, NoTokenWaits, Quiet, OldThings
<1> QED
  BY <1>1, <1>2 DEF Tidy

LEMMA PlayLens ==
  ASSUME NEW u \in World, NEW p \in Player
  PROVE  Len(u.zones[Z("inPlay", p)]) \in Nat
<1>1. Z("inPlay", p) \in Zone
  BY ZoneFacts
<1>2. u.zones[Z("inPlay", p)] \in Seq(Nat)
  BY <1>1, Fields
<1> QED
  BY <1>2, LenProperties

LEMMA AsManyNot ==
  ASSUME NEW u \in World, NEW d \in Nat
  PROVE  AsMany(u, u, d)
BY PlayLens DEF AsMany

LEMMA AsManyTwice ==
  ASSUME NEW u \in World, NEW v \in World, NEW y \in World, NEW d \in Nat, NEW e \in Nat,
         AsMany(u, v, d), AsMany(v, y, e)
  PROVE  AsMany(u, y, d + e)
<1>1. SUFFICES ASSUME NEW p \in Player
              PROVE  Len(y.zones[Z("inPlay", p)]) >= Len(u.zones[Z("inPlay", p)]) - (d + e)
  BY DEF AsMany
<1>2. PICK a \in Nat, b \in Nat, c \in Nat :
         a = Len(u.zones[Z("inPlay", p)]) /\ b = Len(v.zones[Z("inPlay", p)]) /\ c = Len(y.zones[Z("inPlay", p)])
  BY PlayLens
<1>3. b >= a - d /\ c >= b - e
  BY <1>2 DEF AsMany
<1>4. c >= a - (d + e)
  BY <1>3
<1> QED
  BY <1>2, <1>4

(* How a move changes what is in temp and in play.                         *)
LEMMA MoveQuiet ==
  ASSUME NEW u \in World, NEW v, Once(u), Placed(u), NEW z \in Zone, NEW to \in Zone, NEW o, Lies(u, o, z),
         NEW n \in Nat, n \in Objects(u) => n = o, Rezoned(u, v, o, z, n, to)
  PROVE  /\ z[1] # "temp" /\ to[1] # "temp" =>
              \A p \in Player : v.zones[Z("temp", p)] = u.zones[Z("temp", p)]
         /\ AsMany(u, v, 1) /\ (z[1] # "inPlay" => AsMany(u, v, 0))
<1>1. /\ \A y \in Zone : y # z /\ y # to => v.zones[y] = u.zones[y]
      /\ \A y \in Zone : Len(v.zones[y]) >= IF y = z THEN Len(u.zones[y]) - 1 ELSE Len(u.zones[y])
  BY ZoneMoves
<1>2. \A m \in {"temp", "inPlay"}, p \in Player : Z(m, p) \in Zone /\ Z(m, p)[1] = m
  BY ZoneFacts
<1>3. z[1] # "temp" /\ to[1] # "temp" => \A p \in Player : v.zones[Z("temp", p)] = u.zones[Z("temp", p)]
  BY <1>1, <1>2
<1>4. ASSUME NEW p \in Player
      PROVE  /\ Len(v.zones[Z("inPlay", p)]) >= Len(u.zones[Z("inPlay", p)]) - 1
             /\ z[1] # "inPlay" => Len(v.zones[Z("inPlay", p)]) >= Len(u.zones[Z("inPlay", p)]) - 0
  <2>1. PICK y \in Zone : y = Z("inPlay", p) /\ y[1] = "inPlay"
    BY <1>2
  <2>2. PICK a \in Nat : a = Len(u.zones[y])
    BY <2>1, PlayLens
  <2>3. Len(v.zones[y]) \in Nat
    <3>1. v.zones[y] \in Seq(Nat)
      BY ZoneMoves
    <3> QED BY <3>1, LenProperties
  <2>4. Len(v.zones[y]) >= IF y = z THEN a - 1 ELSE a
    BY <1>1, <2>2
  <2>5. Len(v.zones[y]) >= a - 1 /\ (z[1] # "inPlay" => Len(v.zones[y]) >= a - 0)
    BY <2>1, <2>3, <2>4
  <2> QED BY <2>1, <2>2, <2>5
<1> QED
  BY <1>3, <1>4 DEF AsMany

(* A move that does not come from temp, nor go there to stay.              *)
LEMMA PutKeeps ==
  ASSUME NEW u, Sound(u), Tidy(u), NEW from \in Place, from[1] # "temp", NEW to \in Zone, to[1] # "temp",
         NEW o, to[1] = "garbage" /\ from # None /\ Lies(u, o, from) => Obj(u, o).token,
         Kind(from, to) = "top" /\ from # None /\ Lies(u, o, from) => Obj(u, o).card \in Cards,
         NEW v, v = Now1(u, o, from, to)
  PROVE  Grown(u, v) /\ Tidy(v) /\ AsMany(u, v, 1) /\ (from[1] # "inPlay" => AsMany(u, v, 0))
<1>0. u \in World /\ Once(u) /\ Placed(u) /\ InOrder(u) /\ LinkedBack(u)
  BY DEF Sound
<1>1. CASE from = None \/ ~ Lies(u, o, from)
  <2>1. v = u
    BY <1>1, PutNothing
  <2>2. 0 \in Nat /\ 1 \in Nat
    OBVIOUS
  <2> QED BY <1>0, <2>1, <2>2, GrownNot, AsManyNot
<1>2. CASE from # None /\ Lies(u, o, from)
  <2>0. from \in Zone
    BY <1>2 DEF Place
  <2>1. /\ Kind(from, to) = "stays" => Stayed(u, v, o, from, to)
        /\ Kind(from, to) = "top"   => /\ Waited(u, v, o, from, Z("temp", to[2]))
                                       /\ v.onTop = More1(u.onTop, to[2], Made(u))
        /\ Kind(from, to) = "goes"  => Went(u, v, o, from, to)
    BY <1>0, <1>2, <2>0, PutCases
  <2>2. o \in Objects(u) /\ o \in Nat /\ Made(u) \in Nat /\ Made(u) \notin Objects(u)
    BY <1>0, <1>2, <2>0, LyingThings
  <2>3. CASE Kind(from, to) = "stays"
    <3>1. from[1] = "inPlay" /\ to[1] = "inPlay"
      BY <2>3 DEF Kind
    <3>2. Stayed(u, v, o, from, to)
      BY <2>1, <2>3
    <3>3. Grown(u, v)
      BY <1>2, <2>0, <3>1, <3>2, GrownStayed
    <3>4. Rezoned(u, v, o, from, o, to) /\ v.onTop = u.onTop
      BY <3>2 DEF Stayed, Stays
    <3>5. /\ \A p \in Player : v.zones[Z("temp", p)] = u.zones[Z("temp", p)]
          /\ AsMany(u, v, 1) /\ (from[1] # "inPlay" => AsMany(u, v, 0))
      BY <1>0, <1>2, <2>0, <2>2, <3>4, MoveQuiet
    <3>6. Tidy(v)
      BY <3>3, <3>4, <3>5, TidyQuiet DEF Grown, Quiet
    <3> QED BY <3>3, <3>5, <3>6
  <2>4. CASE Kind(from, to) = "goes"
    <3>2. Went(u, v, o, from, to)
      BY <2>1, <2>4
    <3>3. Grown(u, v)
      BY <1>2, <2>0, <3>2, GrownWent
    <3>4. Rezoned(u, v, o, from, Made(u), to) /\ v.onTop = u.onTop
      BY <3>2 DEF Went, Renewed
    <3>5. /\ \A p \in Player : v.zones[Z("temp", p)] = u.zones[Z("temp", p)]
          /\ AsMany(u, v, 1) /\ (from[1] # "inPlay" => AsMany(u, v, 0))
      BY <1>0, <1>2, <2>0, <2>2, <3>4, MoveQuiet
    <3>6. Tidy(v)
      BY <3>3, <3>4, <3>5, TidyQuiet DEF Grown, Quiet
    <3> QED BY <3>3, <3>5, <3>6
  <2>5. CASE Kind(from, to) = "top"
    <3>1. PICK p \in Player, t \in Zone : p = to[2] /\ t = Z("temp", p) /\ t[1] = "temp" /\ t # from
      BY ZoneFacts
    <3>2. Waited(u, v, o, from, t) /\ v.onTop = More1(u.onTop, p, Made(u))
      BY <2>1, <2>5, <3>1
    <3>3. Grown(u, v)
      BY <1>2, <2>0, <3>1, <3>2, GrownWaited
    <3>4. Rezoned(u, v, o, from, Made(u), t)
      BY <3>2 DEF Waited, Renewed
    <3>5. AsMany(u, v, 1) /\ (from[1] # "inPlay" => AsMany(u, v, 0))
      BY <1>0, <1>2, <2>0, <2>2, <3>4, MoveQuiet
    <3>6. /\ \A y \in Zone : y # from /\ y # t => v.zones[y] = u.zones[y]
          /\ v.zones[t] = Append(u.zones[t], Made(u))
      <4>1. t # from
        BY <3>1
      <4>2. /\ u \in World /\ Once(u) /\ Placed(u) /\ Lies(u, o, from) /\ from \in Zone
            /\ Made(u) \in Nat /\ Made(u) \notin Objects(u)
        BY <1>0, <1>2, <2>0, <2>2
      <4> QED BY <3>4, <4>1, <4>2, ZoneMoves, SMTT(60)
    <3>7. \A q \in Player : v.onTop[q] = IF q = p THEN Append(u.onTop[p], Made(u)) ELSE u.onTop[q]
      <4>1. u.onTop \in [Player -> Seq(Nat)]
        BY <1>0, Fields
      <4> QED BY <3>2, <4>1 DEF More1
    <3>8. Waits(v)
      <4>1. SUFFICES ASSUME NEW q \in Player
                     PROVE  v.zones[Z("temp", q)] = v.onTop[q]
        BY DEF Waits
      <4>2. Z("temp", q) \in Zone /\ Z("temp", q)[1] = "temp" /\ Z("temp", q)[2] = q /\ Z("temp", p)[2] = p
        BY ZoneFacts
      <4>3. u.zones[Z("temp", q)] = u.onTop[q] /\ u.zones[t] = u.onTop[p]
        BY <3>1 DEF Tidy, Waits
      <4>4. CASE q = p
        <5>1. v.zones[Z("temp", p)] = Append(u.zones[t], Made(u))
          BY <3>1, <3>6
        <5>2. v.onTop[p] = Append(u.onTop[p], Made(u))
          BY <3>7
        <5> QED BY <4>3, <4>4, <5>1, <5>2
      <4>5. CASE q # p
        <5>1. Z("temp", q) # t /\ Z("temp", q) # from
          BY <3>1, <4>2, <4>5
        <5> QED BY <3>6, <3>7, <4>2, <4>3, <4>5, <5>1
      <4> QED BY <4>4, <4>5
    <3>9. NoTokenWaits(v)
      <4>1. ASSUME NEW q \in Player, NEW i \in 1..Len(v.onTop[q])
            PROVE  v.onTop[q][i] \in Objects(v) /\ Obj(v, v.onTop[q][i]).card \in Cards
        <5>1. \A j \in 1..Len(u.onTop[q]) :
                 u.onTop[q][j] \in Objects(v) /\ Obj(v, u.onTop[q][j]).card \in Cards
          BY <3>3 DEF Tidy, NoTokenWaits, Grown, OldThings
        <5>2. CASE q # p
          BY <3>7, <4>1, <5>1, <5>2
        <5>3. CASE q = p
          <6>1. PICK s \in Seq(Nat) : s = u.onTop[p]
            BY <1>0, Fields
          <6>2. PICK a \in Seq(Nat) : /\ a = Append(s, Made(u)) /\ Len(a) = Len(s) + 1 /\ a[Len(s) + 1] = Made(u)
                                      /\ \A j \in 1..Len(s) : a[j] = s[j]
            <7>1. /\ Append(s, Made(u)) \in Seq(Nat) /\ Len(Append(s, Made(u))) = Len(s) + 1
                  /\ Append(s, Made(u))[Len(s) + 1] = Made(u)
                  /\ \A j \in 1..Len(s) : Append(s, Made(u))[j] = s[j]
              BY <2>2, AppendProperties
            <7> QED BY <7>1
          <6>3. v.onTop[q] = a
            BY <3>7, <5>3, <6>1, <6>2
          <6>4. i \in 1..Len(s) \/ i = Len(s) + 1
            <7>1. Len(s) \in Nat /\ i \in 1..Len(s) + 1
              BY <4>1, <6>2, <6>3, LenProperties
            <7> QED BY <7>1
          <6>5. Made(u) \in Objects(v) /\ Obj(v, Made(u)).card \in Cards
            <7>1. Renewed(u, v, o, from, t)
              BY <3>2 DEF Waited
            <7>2. Obj(v, Made(u)).card = Obj(u, o).card /\ v \in World /\ Len(v.objs) = Made(u)
              BY <7>1 DEF Renewed
            <7>3. Obj(u, o).card \in Cards
              BY <1>2, <2>5
            <7> QED BY <1>0, <7>2, <7>3, OldAndNew
          <6>6. CASE i \in 1..Len(s)
            BY <5>1, <5>3, <6>1, <6>2, <6>3, <6>6
          <6>7. CASE i = Len(s) + 1
            BY <6>2, <6>3, <6>5, <6>7
          <6> QED BY <6>4, <6>6, <6>7
        <5> QED BY <5>2, <5>3
      <4> QED BY <4>1 DEF NoTokenWaits
    <3> QED BY <3>3, <3>5, <3>8, <3>9 DEF Tidy
  <2> QED BY <2>3, <2>4, <2>5 DEF Kind
<1> QED
  BY <1>1, <1>2

(* Through temp into play: what waits in temp is there again afterwards.   *)
LEMMA ViaTempKeeps ==
  ASSUME NEW u, Sound(u), Tidy(u), NEW from \in Place, from[1] # "temp", from[1] # "inPlay",
         NEW p \in Player, NEW o, NEW v, v = ViaTemp(u, o, from, p).u
  PROVE  Grown(u, v) /\ Tidy(v) /\ AsMany(u, v, 0)
<1>0. u \in World /\ Once(u) /\ Placed(u) /\ InOrder(u) /\ LinkedBack(u)
  BY DEF Sound
<1>1. PICK T \in Zone, I \in Zone : /\ T = Z("temp", p) /\ I = Z("inPlay", p)
                                    /\ T[1] = "temp" /\ T[2] = p /\ I[1] = "inPlay"
  BY ZoneFacts
<1>2. PICK a, r : a = Now1(u, o, from, T) /\ r = Ret(u, o, from, T)
  OBVIOUS
<1>3. ViaTemp(u, o, from, p) = IF r = 0 \/ r = o THEN [u |-> a, ret |-> 0] ELSE PutInZone(a, r, T, I)
  BY <1>1, <1>2 DEF ViaTemp, Now1, Ret
<1>4. CASE from = None \/ ~ Lies(u, o, from)
  <2>1. (r = 0 \/ r = o) /\ a = u
    BY <1>2, <1>4, PutNothing, ZenonT(60)
  <2>2. v = u
    BY <1>3, <2>1
  <2> QED BY <1>0, <2>2, GrownNot, AsManyNot
<1>5. CASE from # None /\ Lies(u, o, from)
  <2>0. from \in Zone /\ from # T
    BY <1>1, <1>5 DEF Place
  <2>1. Kind(from, T) = "waits"
    <3>1. T[1] # "library" /\ T[1] # "inPlay"
      BY <1>1
    <3> QED BY <1>1, <3>1 DEF Kind
  <2>2. PICK n \in Nat : n = Made(u) /\ n # 0 /\ n # o /\ n \notin Objects(u)
    BY <1>0, <1>5, <2>0, LyingThings
  <2>3. Waited(u, a, o, from, T) /\ a.onTop = u.onTop /\ r = n
    <3>1. Waited(u, Now1(u, o, from, T), o, from, T) /\ Now1(u, o, from, T).onTop = u.onTop
          /\ Ret(u, o, from, T) = Made(u)
      BY <1>0, <1>5, <2>0, <2>1, PutCases
    <3> QED BY <1>2, <2>2, <3>1
  <2>4. Grown(u, a) /\ Sound(a)
    BY <1>1, <1>5, <2>0, <2>3, GrownWaited, SoundWaited
  <2>5. Rezoned(u, a, o, from, n, T) /\ a.lastDrawn = u.lastDrawn
    BY <2>2, <2>3 DEF Waited, Renewed
  <2>6. /\ \A y \in Zone : \A x : Lies(a, x, y) <=> \/ Lies(u, x, y) /\ ~ (x = o /\ y = from)
                                                    \/ x = n /\ y = T
        /\ \A y \in Zone : y # from /\ y # T => a.zones[y] = u.zones[y]
        /\ a.zones[T] = Append(u.zones[T], n)
    BY <1>0, <1>5, <2>0, <2>2, <2>5, ZoneMoves
  <2>7. AsMany(u, a, 0)
    BY <1>0, <1>5, <2>0, <2>2, <2>5, MoveQuiet
  <2>8. Lies(a, n, T) /\ a \in World /\ Once(a) /\ Placed(a) /\ InOrder(a) /\ LinkedBack(a)
    BY <2>4, <2>6 DEF Sound
  <2>9. Kind(T, I) = "comes"
    BY <1>1 DEF Kind
  <2>10. v = Now1(a, n, T, I)
    BY <1>3, <2>2, <2>3 DEF Now1
  <2>11. Came(a, v, n, T, I)
    BY <2>8, <2>9, <2>10, PutCases
  <2>12. Grown(a, v)
    <3>1. I[1] # "temp" /\ I[1] # "garbage"
      BY <1>1
    <3> QED BY <1>1, <2>4, <2>8, <2>11, <3>1, GrownCame
  <2>13. Grown(u, v)
    BY <2>4, <2>12, GrownTwice
  <2>14. PICK m \in Nat : m = Made(a) /\ m \notin Objects(a)
    BY <2>8, LyingThings
  <2>15. Rezoned(a, v, n, T, m, I) /\ v.onTop = a.onTop
    BY <2>11, <2>14 DEF Came, Renewed
  <2>16. T # I
    BY <1>1
  <2>17. /\ \A y \in Zone : y # T /\ y # I => v.zones[y] = a.zones[y]
         /\ v.zones[T] = RemoveFirst(a.zones[T], n)
    BY <2>8, <2>14, <2>15, <2>16, ZoneMoves
  <2>18. AsMany(a, v, 0)
    <3>1. T[1] # "inPlay"
      BY <1>1
    <3> QED BY <2>8, <2>14, <2>15, <3>1, MoveQuiet
  <2>19. v.zones[T] = u.zones[T]
    <3>1. ~ Contains(u.zones[T], n)
      BY <1>0, <2>2 DEF Placed, Lies
    <3>2. u.zones[T] \in Seq(Nat)
      BY <1>0, Fields
    <3>3. RemoveFirst(Append(u.zones[T], n), n) = u.zones[T]
      BY <3>1, <3>2, ComesAndGoes
    <3> QED BY <2>6, <2>17, <3>3
  <2>20. Quiet(u, v)
    <3>1. ASSUME NEW q \in Player
          PROVE  v.zones[Z("temp", q)] = u.zones[Z("temp", q)]
      <4>1. PICK y \in Zone : y = Z("temp", q) /\ y[1] = "temp"
        BY ZoneFacts
      <4>2. y # from /\ y # I
        BY <1>1, <4>1
      <4>3. y # T => v.zones[y] = u.zones[y]
        BY <2>6, <2>17, <4>2
      <4> QED BY <2>19, <4>1, <4>3
    <3> QED BY <2>3, <2>15, <3>1 DEF Quiet
  <2>21. Tidy(v)
    BY <2>13, <2>20, TidyQuiet DEF Grown
  <2>22. AsMany(u, v, 0)
    <3>1. v \in World
      BY <2>13 DEF Grown, Sound
    <3>2. AsMany(u, v, 0 + 0)
      BY <1>0, <2>7, <2>8, <2>18, <3>1, AsManyTwice
    <3> QED BY <3>2
  <2> QED BY <2>13, <2>21, <2>22
<1> QED
  BY <1>4, <1>5

(* Fields of an object that have nothing to do with where it is.           *)
Alike(k, g) ==
  /\ g.card = k.card /\ g.token = k.token /\ g.previous = k.previous /\ g.next = k.next
  /\ g.zone = k.zone /\ g.previousZone = k.previousZone /\ g.live = k.live
Edited(u, v) ==
  /\ v \in World /\ Len(v.objs) = Len(u.objs) /\ v.zones = u.zones /\ v.onTop = u.onTop
  /\ v.lastDrawn = u.lastDrawn /\ v.queue = u.queue
  /\ \A x \in Objects(u) : Alike(Obj(u, x), Obj(v, x))

LEMMA EditKeeps ==
  ASSUME NEW u, Sound(u), NEW v, Edited(u, v)
  PROVE  Grown(u, v) /\ (Tidy(u) => Tidy(v)) /\ AsMany(u, v, 0)
<1>0. /\ u \in World /\ Placed(u) /\ Once(u) /\ Found(u) /\ LinkedOn(u) /\ LinkedBack(u) /\ InOrder(u)
      /\ Held(u) /\ FromElsewhere(u) /\ TokensOnly(u) /\ Told(u)
      /\ v \in World /\ Len(v.objs) = Len(u.objs) /\ v.zones = u.zones /\ v.onTop = u.onTop
      /\ v.lastDrawn = u.lastDrawn /\ v.queue = u.queue /\ Objects(v) = Objects(u)
  BY DEF Sound, Edited, Objects
<1>1. \A x \in Objects(u) : 
        /\ Obj(v, x).card = Obj(u, x).card /\ Obj(v, x).token = Obj(u, x).token
        /\ Obj(v, x).previous = Obj(u, x).previous /\ Obj(v, x).next = Obj(u, x).next
        /\ Obj(v, x).zone = Obj(u, x).zone /\ Obj(v, x).previousZone = Obj(u, x).previousZone
        /\ Obj(v, x).live = Obj(u, x).live
  BY DEF Edited, Alike
<1>2. \A x \in Objects(u) : Current(v, x) <=> Current(u, x)
  BY <1>1 DEF Current
<1>3. \A x, z : Lies(v, x, z) <=> Lies(u, x, z)
  BY <1>0 DEF Lies
<1>4. Placed(v)
  BY <1>0, <1>1, <1>2, <1>3 DEF Placed
<1>5. Once(v)
  BY <1>0 DEF Once
<1>6. Found(v)
  BY <1>0, <1>1, <1>2, <1>3 DEF Found
<1>7. LinkedOn(v)
  BY <1>0, <1>1 DEF LinkedOn
<1>8. LinkedBack(v)
  BY <1>0, <1>1 DEF LinkedBack
<1>9. InOrder(v)
  BY <1>0, <1>1 DEF InOrder
<1>10. Held(v)
  <2>1. \A c, x : x \in Objects(u) /\ Is1(u, c, x) => Is1(v, c, x)
    BY <1>0, <1>1, <1>2 DEF Is1
  <2> QED BY <1>0, <2>1 DEF Held
<1>11. FromElsewhere(v)
  BY <1>0, <1>1 DEF FromElsewhere
<1>12. TokensOnly(v)
  BY <1>0, <1>1 DEF TokensOnly
<1>13. Told(v)
  <2>1. \A e : Honest(u, e) => Honest(v, e)
    BY <1>0, <1>1 DEF Honest
  <2> QED BY <1>0, <2>1, ToldStill
<1>14. Sound(v)
  BY <1>0, <1>4, <1>5, <1>6, <1>7, <1>8, <1>9, <1>10, <1>11, <1>12, <1>13 DEF Sound
<1>15. OldThings(u, v)
  BY <1>0, <1>1 DEF OldThings
<1>16. OldNews(u, v)
  <2>1. Len(u.queue) \in Nat
    BY <1>0, Fields, LenProperties
  <2> QED BY <1>0, <2>1 DEF OldNews
<1>17. \A x \in Objects(v) : Departed(v, x) => Departed(u, x)
  BY <1>0, <1>1, <1>2 DEF Departed
<1>18. \A k \in Nat : TokensTold(u, k) => TokensTold(v, k)
  BY <1>0, <1>16, <1>17, ToldOfTokens
<1>19. \A T : Flagged(u, T) => Flagged(v, T)
  BY <1>0, <1>1, <1>2 DEF Flagged
<1>20. Grown(u, v)
  BY <1>0, <1>14, <1>15, <1>16, <1>18, <1>19 DEF Grown, StillTold
<1>21. Tidy(u) => Tidy(v)
  BY <1>0, <1>15, TidyQuiet DEF Quiet
<1>22. AsMany(u, v, 0)
  BY <1>0, PlayLens DEF AsMany
<1> QED
  BY <1>20, <1>21, <1>22

EditOf(u, x, k) == [u EXCEPT !.objs = Put1(u.objs, x, k)]

LEMMA EditOne ==
  ASSUME NEW u \in World, NEW x, NEW k, x \in Objects(u) => k \in Thing /\ Alike(Obj(u, x), k)
  PROVE  Edited(u, EditOf(u, x, k))
<1>1. u.objs \in Seq(Thing) /\ Objects(u) = 1..Len(u.objs)
  BY Fields DEF Objects
<1>2. PICK s : s = Put1(u.objs, x, k)
  OBVIOUS
<1>3. /\ s \in Seq(Thing) /\ Len(s) = Len(u.objs)
      /\ \A y \in Objects(u) : Alike(u.objs[y], s[y])
  <2>0. \A g : Alike(g, g)
    BY DEF Alike
  <2>1. CASE x \in Objects(u)
    <3>1. x \in 1..Len(u.objs) /\ k \in Thing /\ Alike(u.objs[x], k)
      BY <1>1, <2>1 DEF Obj
    <3>2. /\ Put1(u.objs, x, k) \in Seq(Thing) /\ Len(Put1(u.objs, x, k)) = Len(u.objs)
          /\ \A y \in 1..Len(u.objs) : Put1(u.objs, x, k)[y] = IF y = x THEN k ELSE u.objs[y]
      <4>1. PICK c \in Seq(Thing) : c = u.objs
        BY <1>1
      <4>2. x \in 1..Len(c) /\ k \in Thing
        BY <3>1, <4>1
      <4>3. /\ Put1(c, x, k) \in Seq(Thing) /\ Len(Put1(c, x, k)) = Len(c)
            /\ \A y \in 1..Len(c) : Put1(c, x, k)[y] = IF y = x THEN k ELSE c[y]
        BY <4>2, Marked, SMTT(20), ZenonT(60)
      <4> QED BY <4>1, <4>3
    <3> QED BY <1>1, <1>2, <2>0, <3>1, <3>2
  <2>2. CASE x \notin Objects(u)
    <3>1. PICK c \in Seq(Thing) : c = u.objs /\ x \notin 1..Len(c)
      BY <1>1, <2>2
    <3>2. Put1(c, x, k) = c
      BY <3>1, LenProperties DEF Put1
    <3> QED BY <1>1, <1>2, <2>0, <3>1, <3>2
  <2> QED BY <2>1, <2>2
<1>4. PICK v : v = EditOf(u, x, k)
  OBVIOUS
<1>5. /\ v \in World /\ v.objs = s /\ v.zones = u.zones /\ v.onTop = u.onTop
      /\ v.lastDrawn = u.lastDrawn /\ v.queue = u.queue
  BY <1>2, <1>3, <1>4 DEF EditOf, World
<1>6. \A y \in Objects(u) : Alike(Obj(u, y), Obj(v, y))
  BY <1>3, <1>5 DEF Obj
<1> QED
  BY <1>3, <1>4, <1>5, <1>6 DEF Edited

LEMMA Edits ==
  ASSUME NEW u \in World, NEW x, NEW a \in Nat
  PROVE  /\ Edited(u, [u EXCEPT !.objs[x].minus = TRUE])
         /\ Edited(u, [u EXCEPT !.objs[x].unearthed = TRUE])
         /\ Edited(u, [u EXCEPT !.objs[x].dying = TRUE])
         /\ Edited(u, [u EXCEPT !.objs[x].target = a])
<1>1. \A y \in Objects(u) : Obj(u, y) \in Thing
  BY Fields
<1>2. ASSUME NEW k \in Thing
      PROVE  /\ [k EXCEPT !.minus = TRUE] \in Thing /\ Alike(k, [k EXCEPT !.minus = TRUE])
             /\ [k EXCEPT !.unearthed = TRUE] \in Thing /\ Alike(k, [k EXCEPT !.unearthed = TRUE])
             /\ [k EXCEPT !.dying = TRUE] \in Thing /\ Alike(k, [k EXCEPT !.dying = TRUE])
             /\ [k EXCEPT !.target = a] \in Thing /\ Alike(k, [k EXCEPT !.target = a])
  BY DEF Thing, Alike
<1>3. Edited(u, [u EXCEPT !.objs[x].minus = TRUE])
  <2>1. PICK k : k = [Obj(u, x) EXCEPT !.minus = TRUE]
    OBVIOUS
  <2>2. [u EXCEPT !.objs[x].minus = TRUE] = EditOf(u, x, k)
    BY <2>1 DEF EditOf, Put1, Obj, World
  <2>3. x \in Objects(u) => k \in Thing /\ Alike(Obj(u, x), k)
    BY <1>1, <1>2, <2>1
  <2>4. Edited(u, EditOf(u, x, k))
    BY <2>3, EditOne
  <2> QED BY <2>2, <2>4
<1>4. Edited(u, [u EXCEPT !.objs[x].unearthed = TRUE])
  <2>1. PICK k : k = [Obj(u, x) EXCEPT !.unearthed = TRUE]
    OBVIOUS
  <2>2. [u EXCEPT !.objs[x].unearthed = TRUE] = EditOf(u, x, k)
    BY <2>1 DEF EditOf, Put1, Obj, World
  <2>3. x \in Objects(u) => k \in Thing /\ Alike(Obj(u, x), k)
    BY <1>1, <1>2, <2>1
  <2>4. Edited(u, EditOf(u, x, k))
    BY <2>3, EditOne
  <2> QED BY <2>2, <2>4
<1>5. Edited(u, [u EXCEPT !.objs[x].dying = TRUE])
  <2>1. PICK k : k = [Obj(u, x) EXCEPT !.dying = TRUE]
    OBVIOUS
  <2>2. [u EXCEPT !.objs[x].dying = TRUE] = EditOf(u, x, k)
    BY <2>1 DEF EditOf, Put1, Obj, World
  <2>3. x \in Objects(u) => k \in Thing /\ Alike(Obj(u, x), k)
    BY <1>1, <1>2, <2>1
  <2>4. Edited(u, EditOf(u, x, k))
    BY <2>3, EditOne
  <2> QED BY <2>2, <2>4
<1>6. Edited(u, [u EXCEPT !.objs[x].target = a])
  <2>1. PICK k : k = [Obj(u, x) EXCEPT !.target = a]
    OBVIOUS
  <2>2. [u EXCEPT !.objs[x].target = a] = EditOf(u, x, k)
    BY <2>1 DEF EditOf, Put1, Obj, World
  <2>3. x \in Objects(u) => k \in Thing /\ Alike(Obj(u, x), k)
    BY <1>1, <1>2, <2>1
  <2>4. Edited(u, EditOf(u, x, k))
    BY <2>3, EditOne
  <2> QED BY <2>2, <2>4
<1> QED
  BY <1>3, <1>4, <1>5, <1>6

-----------------------------------------------------------------------------
(* What the rules do when they hear of a move.                             *)

AllWell(u) == Sound(u) /\ Tidy(u) /\ TokensTold(u, 0) /\ Flagged(u, {})

LEMMA GrownWell ==
  ASSUME NEW u, NEW v, AllWell(u), Grown(u, v), Tidy(v)
  PROVE  AllWell(v)
<1>1. 0 <= Len(u.queue)
  BY Fields, LenProperties DEF AllWell, Sound
<1> QED
  BY <1>1 DEF AllWell, Grown, StillTold

(* The zones of an object, its card's owner and its controller.            *)
LEMMA Whose ==
  ASSUME NEW u \in World, NEW x \in Objects(u)
  PROVE  /\ Obj(u, x).zone \in Place /\ Controller(u, x) \in Player /\ Owner[Obj(u, x).card] \in Player
         /\ \A name \in Names : Home(u, x, name) \in Zone /\ Home(u, x, name)[1] = name
                                /\ Z(name, Controller(u, x)) \in Zone /\ Z(name, Controller(u, x))[1] = name
<1>1. Obj(u, x).zone \in Place /\ Obj(u, x).card \in AnyCard
  BY Fields DEF Thing
<1>2. Controller(u, x) \in Player
  BY <1>1, ZoneFacts DEF Controller, Place
<1>3. Owner[Obj(u, x).card] \in Player
  BY <1>1, ZonesAssumption DEF AnyCard
<1> QED
  BY <1>1, <1>2, <1>3, ZoneFacts DEF Home

LEMMA PutHome ==
  ASSUME NEW u, Sound(u), Tidy(u), NEW x \in Objects(u), Obj(u, x).zone[1] # "temp",
         NEW name \in {"library", "hand", "graveyard", "exile"},
         name = "library" /\ Obj(u, x).zone[1] = "library" => Obj(u, x).card \in Cards \/ ~ Current(u, x),
         NEW v, v = Put(u, x, name).u
  PROVE  Grown(u, v) /\ Tidy(v) /\ AsMany(u, v, 1) /\ (Obj(u, x).zone[1] # "inPlay" => AsMany(u, v, 0))
<1>1. u \in World /\ Placed(u)
  BY DEF Sound
<1>2. name \in Names
  BY DEF Names
<1>3. PICK to \in Zone : to = Home(u, x, name) /\ to[1] = name
  BY <1>1, <1>2, Whose
<1>4. PICK from \in Place : from = Obj(u, x).zone
  BY <1>1, Whose
<1>5. v = Now1(u, x, from, to)
  BY <1>3, <1>4 DEF Put, Now1
<1>6. to[1] # "temp" /\ to[1] # "garbage" /\ from[1] # "temp"
  BY <1>3, <1>4
<1>7. Kind(from, to) = "top" /\ from # None /\ Lies(u, x, from) => Obj(u, x).card \in Cards
  <2>1. SUFFICES ASSUME Kind(from, to) = "top", from # None, Lies(u, x, from) PROVE Obj(u, x).card \in Cards
    OBVIOUS
  <2>2. name = "library" /\ Obj(u, x).zone[1] = "library"
    BY <1>3, <1>4, <2>1 DEF Kind
  <2>3. Current(u, x)
    BY <1>1, <2>1 DEF Placed, Place
  <2> QED BY <2>2, <2>3
<1>8. Grown(u, v) /\ Tidy(v) /\ AsMany(u, v, 1) /\ (from[1] # "inPlay" => AsMany(u, v, 0))
  BY <1>5, <1>6, <1>7, PutKeeps
<1> QED
  BY <1>4, <1>8

LEMMA CleanupKeeps ==
  ASSUME NEW u, Sound(u), Tidy(u), NEW e, Honest(u, e), NEW v, v = TokensCleanup(u, e)
  PROVE  /\ Grown(u, v) /\ Tidy(v) /\ AsMany(u, v, 0)
         /\ Flagged(u, {}) /\ Departed(v, e.card) => ~ Goner(e.to)
<1>1. u \in World /\ Placed(u) /\ Once(u) /\ Found(u) /\ InOrder(u) /\ LinkedBack(u)
  BY DEF Sound
<1>2. PICK x \in Objects(u) : x = e.card /\ Obj(u, x).zone[1] # "temp"
                              /\ (Obj(u, x).zone[1] = "inPlay" => e.to[1] = "inPlay")
  BY DEF Honest
<1>3. CASE ~ Obj(u, x).token \/ e.to[1] \in {"inPlay", "garbage"}
  <2>1. v = u
    BY <1>2, <1>3 DEF TokensCleanup
  <2>2. Flagged(u, {}) /\ Departed(u, x) => ~ Goner(e.to)
    BY <1>3 DEF Flagged, Departed, Goner
  <2> QED BY <1>1, <1>2, <2>1, <2>2, GrownNot, AsManyNot
<1>4. CASE Obj(u, x).token /\ e.to[1] \notin {"inPlay", "garbage"}
  <2>1. "garbage" \in Names
    BY DEF Names
  <2>2. PICK to \in Zone : to = Z("garbage", Controller(u, x)) /\ to[1] = "garbage"
    BY <1>1, <2>1, Whose
  <2>3. PICK from \in Place : from = Obj(u, x).zone /\ from[1] # "temp" /\ from[1] # "inPlay"
    BY <1>1, <1>2, <1>4, Whose
  <2>4. v = Now1(u, x, from, to)
    BY <1>2, <1>4, <2>2, <2>3 DEF TokensCleanup, Now1
  <2>5. Kind(from, to) = "goes" /\ to[1] # "temp"
    BY <2>2, <2>3 DEF Kind
  <2>6. Grown(u, v) /\ Tidy(v) /\ AsMany(u, v, 0)
    BY <1>4, <2>3, <2>4, <2>5, PutKeeps
  <2>7. ~ Current(v, x)
    <3>1. CASE from = None \/ ~ Lies(u, x, from)
      <4>1. v = u
        BY <2>4, <3>1, PutNothing
      <4>2. ~ Current(u, x)
        BY <1>1, <2>3, <3>1, ZoneFacts DEF Found
      <4> QED BY <4>1, <4>2
    <3>2. CASE from # None /\ Lies(u, x, from)
      <4>1. from \in Zone
        BY <3>2 DEF Place
      <4>2. Went(u, v, x, from, to)
        BY <1>1, <2>4, <2>5, <3>2, <4>1, PutCases
      <4>3. Renewed(u, v, x, from, to) /\ Follows(u, v, x)
        BY <4>2 DEF Went
      <4> QED BY <3>2, <4>1, <4>3, NoLonger
    <3> QED BY <3>1, <3>2
  <2> QED BY <1>2, <2>6, <2>7 DEF Departed
<1> QED
  BY <1>3, <1>4

LEMMA PersistKeeps ==
  ASSUME NEW u, Sound(u), Tidy(u), NEW e \in News, Honest(u, e), NEW v, v = PersistRule(u, e)
  PROVE  Grown(u, v) /\ Tidy(v) /\ AsMany(u, v, 0)
<1>1. u \in World /\ e.card \in Objects(u) /\ e.to \in Place /\ Owner[Obj(u, e.card).card] \in Player
  <2>1. u \in World /\ e.card \in Objects(u) /\ e.to \in Zone
    BY DEF Sound, Honest, News
  <2> QED BY <2>1, Whose, ZoneFacts
<1>2. PICK p \in Player : p = Owner[Obj(u, e.card).card]
  BY <1>1
<1>3. PICK a, r : a = ViaTemp(u, e.card, e.to, p).u /\ r = ViaTemp(u, e.card, e.to, p).ret
  OBVIOUS
<1>4. \/ v = u
      \/ e.to[1] = "graveyard" /\ v = [a EXCEPT !.objs[r].minus = TRUE]
  BY <1>2, <1>3 DEF PersistRule
<1>5. CASE v = u
  BY <1>1, <1>5, GrownNot, AsManyNot
<1>6. CASE e.to[1] = "graveyard" /\ v = [a EXCEPT !.objs[r].minus = TRUE]
  <2>1. e.to[1] # "temp" /\ e.to[1] # "inPlay"
    BY <1>6
  <2>2. Grown(u, a) /\ Tidy(a) /\ AsMany(u, a, 0)
    BY <1>1, <1>3, <2>1, ViaTempKeeps
  <2>3. Sound(a) /\ a \in World
    BY <2>2 DEF Grown, Sound
  <2>4. Edited(a, v)
    <3>1. 0 \in Nat
      OBVIOUS
    <3>2. Edited(a, [a EXCEPT !.objs[r].minus = TRUE])
      BY <2>3, <3>1, Edits
    <3> QED BY <1>6, <3>2
  <2>5. Grown(a, v) /\ Tidy(v) /\ AsMany(a, v, 0)
    BY <2>2, <2>3, <2>4, EditKeeps
  <2>6. Grown(u, v) /\ v \in World
    BY <2>2, <2>5, GrownTwice DEF Grown, Sound
  <2>7. AsMany(u, v, 0 + 0)
    BY <1>1, <2>2, <2>3, <2>5, <2>6, AsManyTwice
  <2> QED BY <2>5, <2>6, <2>7
<1> QED
  BY <1>4, <1>5, <1>6

LEMMA UnearthKeeps ==
  ASSUME NEW u, Sound(u), Tidy(u), NEW e, Honest(u, e), NEW v, v = UnearthRule(u, e)
  PROVE  Grown(u, v) /\ Tidy(v) /\ AsMany(u, v, 0)
<1>1. u \in World
  BY DEF Sound
<1>2. PICK x \in Objects(u) : x = e.card /\ Obj(u, x).zone[1] # "temp"
                              /\ (Obj(u, x).zone[1] = "inPlay" => e.to[1] = "inPlay")
  BY DEF Honest
<1>3. \/ v = u
      \/ e.to[1] \in {"graveyard", "hand", "library"} /\ v = Put(u, x, "exile").u
  BY <1>2 DEF UnearthRule
<1>4. CASE v = u
  BY <1>1, <1>4, GrownNot, AsManyNot
<1>5. CASE e.to[1] \in {"graveyard", "hand", "library"} /\ v = Put(u, x, "exile").u
  <2>1. Obj(u, x).zone[1] # "inPlay"
    BY <1>2, <1>5
  <2> QED BY <1>2, <1>5, <2>1, PutHome
<1> QED
  BY <1>3, <1>4, <1>5

(* All rules, for the first of the events that wait.                       *)
LEMMA HearKeeps ==
  ASSUME NEW u, AllWell(u), u.queue # <<>>, NEW y, y = Hear(u, Head(u.queue))
  PROVE  Grown(u, y) /\ Tidy(y) /\ AsMany(u, y, 0) /\ TokensTold(y, 1)
<1>1. u \in World /\ Sound(u) /\ Tidy(u) /\ Told(u)
  BY DEF AllWell, Sound
<1>2. PICK e \in News : e = Head(u.queue) /\ e = u.queue[1] /\ 1 \in 1..Len(u.queue) /\ Len(u.queue) \in Nat
  <2>1. PICK q \in Seq(News) : q = u.queue /\ q # <<>>
    BY <1>1, Fields
  <2>2. Head(q) = q[1] /\ Head(q) \in News /\ 1 \in 1..Len(q) /\ Len(q) \in Nat
    BY <2>1, HeadTailProperties, EmptySeq, LenProperties
  <2> QED BY <2>1, <2>2
<1>3. PICK a : a = TokensCleanup(u, e)
  OBVIOUS
<1>4. PICK b : b = PersistRule(a, e)
  OBVIOUS
<1>5. y = UnearthRule(b, e)
  BY <1>2, <1>3, <1>4 DEF Hear
<1>6. \A v : Grown(u, v) => v \in World /\ Sound(v) /\ Honest(v, e) /\ 1 <= Len(v.queue)
  <2>1. ASSUME NEW v, Grown(u, v)
        PROVE  v \in World /\ Sound(v) /\ Honest(v, e) /\ 1 <= Len(v.queue)
    <3>1. v \in World /\ Sound(v) /\ Told(v)
      BY <2>1 DEF Grown, Sound
    <3>2. Len(v.queue) \in Nat
      BY <3>1, Fields, LenProperties
    <3>3. 1 \in 1..Len(v.queue) /\ v.queue[1] = e /\ 1 <= Len(v.queue)
      BY <1>2, <2>1, <3>2 DEF Grown, OldNews
    <3> QED BY <3>1, <3>3 DEF Told
  <2> QED BY <2>1
<1>7. Grown(u, u)
  BY <1>1, GrownNot
<1>8. /\ Grown(u, a) /\ Tidy(a) /\ AsMany(u, a, 0)
      /\ Departed(a, e.card) => ~ Goner(e.to)
  BY <1>1, <1>3, <1>6, <1>7, CleanupKeeps DEF AllWell
<1>9. Grown(a, b) /\ Tidy(b) /\ AsMany(a, b, 0)
  BY <1>4, <1>6, <1>8, PersistKeeps
<1>10. Grown(u, b)
  BY <1>1, <1>8, <1>9, GrownTwice
<1>11. Grown(b, y) /\ Tidy(y) /\ AsMany(b, y, 0)
  BY <1>5, <1>6, <1>9, <1>10, UnearthKeeps
<1>12. Grown(u, y)
  BY <1>1, <1>10, <1>11, GrownTwice
<1>13. AsMany(u, y, 0)
  <2>1. a \in World /\ b \in World /\ y \in World /\ 0 \in Nat
    BY <1>6, <1>8, <1>10, <1>12
  <2>2. AsMany(u, b, 0 + 0)
    BY <1>1, <1>8, <1>9, <2>1, AsManyTwice
  <2>3. AsMany(u, b, 0)
    BY <2>2
  <2>4. AsMany(u, y, 0 + 0)
    BY <1>1, <1>11, <2>1, <2>3, AsManyTwice
  <2> QED BY <2>4
<1>14. TokensTold(a, 1)
  <2>1. TokensTold(a, 0) /\ a.queue[1] = e
    BY <1>2, <1>8 DEF AllWell, Grown, StillTold, OldNews
  <2>2. ASSUME NEW x \in Objects(a), Departed(a, x)
        PROVE  \E i \in 1..Len(a.queue) : i > 1 /\ a.queue[i].card = x /\ Goner(a.queue[i].to)
    <3>1. PICK i \in 1..Len(a.queue) : i > 0 /\ a.queue[i].card = x /\ Goner(a.queue[i].to)
      BY <2>1, <2>2 DEF TokensTold
    <3>2. i # 1
      BY <1>8, <2>1, <2>2, <3>1
    <3>3. i \in Nat
      OBVIOUS
    <3> QED BY <3>1, <3>2, <3>3
  <2> QED BY <2>2 DEF TokensTold
<1>15. TokensTold(b, 1)
  BY <1>6, <1>8, <1>9, <1>14 DEF Grown, StillTold
<1>16. TokensTold(y, 1)
  BY <1>6, <1>10, <1>11, <1>15 DEF Grown, StillTold
<1> QED
  BY <1>11, <1>12, <1>13, <1>16

(* The objects and the zones are the same.                                 *)
LEMMA SoundSame ==
  ASSUME NEW u, Sound(u), NEW v \in World, v.objs = u.objs, v.zones = u.zones, Told(v)
  PROVE  Sound(v) /\ \A T : Flagged(u, T) => Flagged(v, T)
<1>1. /\ \A x : Obj(v, x) = Obj(u, x)
      /\ Objects(v) = Objects(u)
  BY DEF Obj, Objects
<1>2. \A x : Current(v, x) <=> Current(u, x)
  BY <1>1 DEF Current
<1>3. \A x, z : Lies(v, x, z) <=> Lies(u, x, z)
  BY DEF Lies
<1>4. \A c, x : Is1(v, c, x) <=> Is1(u, c, x)
  BY <1>1, <1>2 DEF Is1
<1>5. Placed(v) /\ Once(v) /\ Found(v)
  BY <1>1, <1>2, <1>3 DEF Sound, Placed, Once, Found
<1>6. LinkedOn(v)
  BY <1>1 DEF Sound, LinkedOn
<1>7. LinkedBack(v) /\ InOrder(v)
  BY <1>1 DEF Sound, LinkedBack, InOrder
<1>8. Held(v)
  BY <1>1, <1>4 DEF Sound, Held
<1>9. FromElsewhere(v) /\ TokensOnly(v)
  BY <1>1 DEF Sound, FromElsewhere, TokensOnly
<1>10. \A T : Flagged(u, T) => Flagged(v, T)
  BY <1>1, <1>2 DEF Flagged
<1> QED
  BY <1>5, <1>6, <1>7, <1>8, <1>9, <1>10 DEF Sound

(* The first event has been handled.                                       *)
LEMMA Handled ==
  ASSUME NEW y, Sound(y), Tidy(y), TokensTold(y, 1), Flagged(y, {}), y.queue # <<>>,
         NEW v, v = [y EXCEPT !.queue = Tail(@)]
  PROVE  AllWell(v) /\ OldThings(y, v) /\ AsMany(y, v, 0) /\ v.lastDrawn = y.lastDrawn
<1>1. y \in World /\ Told(y)
  BY DEF Sound
<1>2. PICK q \in Seq(News) : q = y.queue /\ q # <<>>
  BY <1>1, Fields
<1>3. PICK t \in Seq(News) : /\ t = Tail(q) /\ Len(t) = Len(q) - 1 /\ Len(q) \in Nat
                             /\ \A i \in 1..Len(t) : t[i] = q[i + 1]
  <2>1. Tail(q) \in Seq(News) /\ Len(Tail(q)) = Len(q) - 1 /\ \A i \in 1..Len(Tail(q)) : Tail(q)[i] = q[i + 1]
    BY <1>2, HeadTailProperties
  <2> QED BY <2>1, LenProperties
<1>4. /\ v \in World /\ v.objs = y.objs /\ v.zones = y.zones /\ v.onTop = y.onTop
      /\ v.lastDrawn = y.lastDrawn /\ v.queue = t
  <2>1. v = [y EXCEPT !.queue = t]
    BY <1>2, <1>3 DEF World
  <2> QED BY <1>1, <2>1 DEF World
<1>5. \A x : Obj(v, x) = Obj(y, x) /\ (Departed(v, x) <=> Departed(y, x)) /\ Objects(v) = Objects(y)
  BY <1>4 DEF Obj, Departed, Current, Objects
<1>6. Told(v)
  <2>1. \A e : Honest(y, e) => Honest(v, e)
    BY <1>5 DEF Honest
  <2>2. ASSUME NEW i \in 1..Len(t)
        PROVE  Honest(v, t[i])
    <3>1. i + 1 \in 1..Len(q) /\ t[i] = q[i + 1]
      BY <1>3
    <3>2. Honest(y, q[i + 1])
      BY <1>1, <1>2, <3>1 DEF Told
    <3> QED BY <2>1, <3>1, <3>2
  <2> QED BY <1>4, <2>2 DEF Told
<1>7. Sound(v) /\ Flagged(v, {})
  BY <1>4, <1>6, SoundSame
<1>8. OldThings(y, v)
  BY <1>5 DEF OldThings
<1>9. Tidy(v)
  BY <1>4, <1>8, TidyQuiet DEF Quiet
<1>10. TokensTold(v, 0)
  <2>1. ASSUME NEW x \in Objects(v), Departed(v, x)
        PROVE  \E i \in 1..Len(t) : i > 0 /\ t[i].card = x /\ Goner(t[i].to)
    <3>1. PICK i \in 1..Len(q) : i > 1 /\ q[i].card = x /\ Goner(q[i].to)
      BY <1>2, <1>5, <2>1 DEF TokensTold
    <3>2. i - 1 \in 1..Len(t) /\ i - 1 > 0 /\ t[i - 1] = q[(i - 1) + 1] /\ (i - 1) + 1 = i
      BY <1>3, <3>1
    <3> QED BY <3>1, <3>2
  <2> QED BY <1>4, <2>1 DEF TokensTold
<1>11. AsMany(y, v, 0)
  BY <1>1, <1>4, PlayLens DEF AsMany
<1> QED
  BY <1>4, <1>7, <1>8, <1>9, <1>10, <1>11 DEF AllWell

-----------------------------------------------------------------------------
(* Drawing a card.                                                         *)

(* The object that was in the library is told to be in the hand.           *)
Remembered(v, p, x, z) == [v EXCEPT !.lastDrawn[p] = x, !.objs[x].zone = z]

LEMMA RememberedFacts ==
  ASSUME NEW v \in World, NEW p \in Player, NEW x \in Objects(v), NEW z \in Zone,
         NEW y, y = Remembered(v, p, x, z)
  PROVE  /\ y \in World /\ Objects(y) = Objects(v) /\ Len(y.objs) = Len(v.objs)
         /\ y.zones = v.zones /\ y.onTop = v.onTop /\ y.queue = v.queue
         /\ y.lastDrawn[p] = x /\ \A q \in Player : q # p => y.lastDrawn[q] = v.lastDrawn[q]
         /\ Obj(y, x) = Zoned(Obj(v, x), z)
         /\ \A o \in Objects(v) : o # x => Obj(y, o) = Obj(v, o)
<1>1. PICK c \in Seq(Thing) : c = v.objs /\ x \in 1..Len(c) /\ Objects(v) = 1..Len(c)
  BY Fields DEF Objects
<1>2. PICK k \in Thing : k = Zoned(Obj(v, x), z)
  BY Fields, ZoneFacts, ThingsEdited
<1>3. PICK s : s = Put1(c, x, k)
  OBVIOUS
<1>4. s \in Seq(Thing) /\ Len(s) = Len(c) /\ \A o \in 1..Len(c) : s[o] = IF o = x THEN k ELSE c[o]
  <2>1. x \in 1..Len(c)
    BY <1>1
  <2>2. /\ Put1(c, x, k) \in Seq(Thing) /\ Len(Put1(c, x, k)) = Len(c)
        /\ \A o \in 1..Len(c) : Put1(c, x, k)[o] = IF o = x THEN k ELSE c[o]
    BY <2>1, Marked
  <2> QED BY <1>3, <2>2
<1>5. x \in Nat
  BY <1>1, LenProperties
<1>6. PICK d : d = [v.lastDrawn EXCEPT ![p] = x]
  OBVIOUS
<1>7. d \in [Player -> Nat] /\ d[p] = x /\ \A q \in Player : q # p => d[q] = v.lastDrawn[q]
  BY <1>5, <1>6, Fields
<1>8. y = [v EXCEPT !.lastDrawn = d, !.objs = s]
  BY <1>1, <1>2, <1>3, <1>6 DEF Remembered, World, Put1, Zoned, Obj
<1>9. /\ y \in World /\ y.objs = s /\ y.zones = v.zones /\ y.onTop = v.onTop
      /\ y.lastDrawn = d /\ y.queue = v.queue
  BY <1>4, <1>7, <1>8 DEF World
<1>10. Objects(y) = Objects(v)
  BY <1>1, <1>4, <1>9 DEF Objects
<1> QED
  BY <1>1, <1>2, <1>4, <1>7, <1>9, <1>10 DEF Obj

LEMMA RememberedKeeps ==
  ASSUME NEW v, Sound(v), Tidy(v), NEW p \in Player, NEW x \in Objects(v), ~ Current(v, x),
         NEW z \in Zone, z[1] = "hand", NEW y, y = Remembered(v, p, x, z)
  PROVE  Sound(y) /\ Tidy(y) /\ OldThings(v, y) /\ OldNews(v, y) /\ StillTold(v, y)
<1>0. /\ v \in World /\ Placed(v) /\ Once(v) /\ Found(v) /\ LinkedOn(v) /\ LinkedBack(v) /\ InOrder(v)
      /\ Held(v) /\ FromElsewhere(v) /\ TokensOnly(v) /\ Told(v)
  BY DEF Sound
<1>1. /\ y \in World /\ Objects(y) = Objects(v) /\ Len(y.objs) = Len(v.objs)
      /\ y.zones = v.zones /\ y.onTop = v.onTop /\ y.queue = v.queue
      /\ Obj(y, x) = Zoned(Obj(v, x), z)
      /\ \A o \in Objects(v) : o # x => Obj(y, o) = Obj(v, o)
  BY <1>0, RememberedFacts
<1>2. /\ Obj(y, x).card = Obj(v, x).card /\ Obj(y, x).token = Obj(v, x).token
      /\ Obj(y, x).previous = Obj(v, x).previous /\ Obj(y, x).next = Obj(v, x).next
      /\ Obj(y, x).previousZone = Obj(v, x).previousZone /\ Obj(y, x).live = Obj(v, x).live
      /\ Obj(y, x).zone = z
  <2>1. Obj(v, x) \in Thing /\ z \in Place
    BY <1>0, Fields, ZoneFacts
  <2>2. PICK k \in Thing : k = Obj(v, x)
    BY <2>1
  <2>3. /\ SameCard(k, Zoned(k, z)) /\ Zoned(k, z).zone = z
        /\ Zoned(k, z).previous = k.previous /\ Zoned(k, z).next = k.next
        /\ Zoned(k, z).live = k.live /\ Zoned(k, z).previousZone = k.previousZone
    BY <2>1, ThingsEdited
  <2> QED BY <1>1, <2>2, <2>3 DEF SameCard
<1>3. \A o \in Objects(v) :
        /\ Obj(y, o).card = Obj(v, o).card /\ Obj(y, o).token = Obj(v, o).token
        /\ Obj(y, o).previous = Obj(v, o).previous /\ Obj(y, o).next = Obj(v, o).next
        /\ Obj(y, o).previousZone = Obj(v, o).previousZone /\ Obj(y, o).live = Obj(v, o).live
        /\ Obj(y, o).zone = IF o = x THEN z ELSE Obj(v, o).zone
  BY <1>1, <1>2
<1>4. /\ \A o \in Objects(v) : Current(y, o) <=> Current(v, o)
      /\ \A o, n : Lies(y, o, n) <=> Lies(v, o, n)
  BY <1>1, <1>3 DEF Current, Lies
<1>5. Placed(y)
  <2>1. ASSUME NEW n \in Zone, NEW o, Lies(y, o, n)
        PROVE  o \in Objects(y) /\ Current(y, o) /\ Obj(y, o).zone = n
    <3>1. o \in Objects(v) /\ Current(v, o) /\ Obj(v, o).zone = n
      BY <1>0, <1>4, <2>1 DEF Placed
    <3> QED BY <1>1, <1>3, <1>4, <3>1
  <2> QED BY <2>1 DEF Placed
<1>6. Found(y)
  <2>1. ASSUME NEW o \in Objects(y), Current(y, o)
        PROVE  Obj(y, o).zone \in Zone /\ Lies(y, o, Obj(y, o).zone)
    <3>1. o \in Objects(v) /\ Current(v, o) /\ o # x
      BY <1>1, <1>4, <2>1
    <3>2. Obj(v, o).zone \in Zone /\ Lies(v, o, Obj(v, o).zone)
      BY <1>0, <3>1 DEF Found
    <3> QED BY <1>3, <1>4, <3>1, <3>2
  <2> QED BY <2>1 DEF Found
<1>7. Once(y)
  BY <1>0, <1>1 DEF Once
<1>8. LinkedOn(y)
  <2>1. ASSUME NEW o \in Objects(y), Obj(y, o).live, Obj(y, o).next # 0
        PROVE  /\ Obj(y, o).next \in Objects(y) /\ Obj(y, Obj(y, o).next).live
               /\ Obj(y, Obj(y, o).next).previous = o /\ Obj(y, Obj(y, o).next).card = Obj(y, o).card
    <3>1. o \in Objects(v) /\ Obj(v, o).live /\ Obj(v, o).next # 0 /\ Obj(y, o).next = Obj(v, o).next
          /\ Obj(y, o).card = Obj(v, o).card
      BY <1>1, <1>3, <2>1
    <3>2. PICK n : n = Obj(v, o).next
      OBVIOUS
    <3>3. n \in Objects(v) /\ Obj(v, n).live /\ Obj(v, n).previous = o /\ Obj(v, n).card = Obj(v, o).card
      BY <1>0, <3>1, <3>2 DEF LinkedOn
    <3>4. Obj(y, n).live /\ Obj(y, n).previous = o /\ Obj(y, n).card = Obj(v, o).card
      BY <1>3, <3>3
    <3> QED BY <1>1, <3>1, <3>2, <3>3, <3>4
  <2> QED BY <2>1 DEF LinkedOn
<1>9. LinkedBack(y)
  <2>1. ASSUME NEW o \in Objects(y), Obj(y, o).live, Obj(y, o).previous # 0
        PROVE  /\ Obj(y, o).previous \in Objects(y) /\ Obj(y, Obj(y, o).previous).live
               /\ Obj(y, Obj(y, o).previous).next = o
    <3>1. o \in Objects(v) /\ Obj(v, o).live /\ Obj(v, o).previous # 0 /\ Obj(y, o).previous = Obj(v, o).previous
      BY <1>1, <1>3, <2>1
    <3>2. PICK n : n = Obj(v, o).previous
      OBVIOUS
    <3>3. n \in Objects(v) /\ Obj(v, n).live /\ Obj(v, n).next = o
      BY <1>0, <3>1, <3>2 DEF LinkedBack
    <3>4. Obj(y, n).live /\ Obj(y, n).next = o
      BY <1>3, <3>3
    <3> QED BY <1>1, <3>1, <3>2, <3>3, <3>4
  <2> QED BY <2>1 DEF LinkedBack
<1>10. InOrder(y)
  BY <1>0, <1>1, <1>3 DEF InOrder
<1>11. Held(y)
  <2>1. \A c : \A o \in Objects(v) : Is1(v, c, o) => Is1(y, c, o)
    BY <1>1, <1>3, <1>4 DEF Is1
  <2> QED BY <1>0, <1>1, <2>1 DEF Held
<1>12. FromElsewhere(y)
  BY <1>0, <1>1, <1>3 DEF FromElsewhere
<1>13. TokensOnly(y)
  BY <1>0, <1>1, <1>3 DEF TokensOnly
<1>14. Told(y)
  <2>1. \A e : Honest(v, e) => Honest(y, e)
    BY <1>1, <1>3 DEF Honest
  <2> QED BY <1>0, <1>1, <2>1 DEF Told
<1>15. OldThings(v, y)
  BY <1>1, <1>3 DEF OldThings
<1>16. OldNews(v, y)
  <2>1. Len(v.queue) \in Nat
    BY <1>0, Fields, LenProperties
  <2> QED BY <1>1, <2>1 DEF OldNews
<1>17. StillTold(v, y)
  <2>1. \A o \in Objects(y) : Departed(y, o) => Departed(v, o)
    <3>1. TAKE o \in Objects(y)
    <3>2. CASE o = x
      BY <1>4, <3>2 DEF Departed
    <3>3. CASE o # x
      BY <1>1, <1>3, <1>4, <3>3 DEF Departed
    <3> QED BY <3>2, <3>3
  <2>2. \A k : TokensTold(v, k) => TokensTold(y, k)
    BY <1>1, <2>1 DEF TokensTold
  <2>3. \A T : Flagged(v, T) => Flagged(y, T)
    BY <1>1, <1>3, <1>4 DEF Flagged
  <2> QED BY <2>2, <2>3 DEF StillTold
<1>18. Tidy(y)
  BY <1>1, <1>15, TidyQuiet DEF Quiet
<1>19. Sound(y)
  BY <1>1, <1>5, <1>6, <1>7, <1>8, <1>9, <1>10, <1>11, <1>12, <1>13, <1>14 DEF Sound
<1> QED
  BY <1>15, <1>16, <1>17, <1>18, <1>19

(* drawFromLibrary().                                                      *)
LEMMA DrawnKeeps ==
  ASSUME NEW u, AllWell(u), NEW p \in Player, u.zones[Z("library", p)] # <<>>, NEW y, y = Drawn(u, p)
  PROVE  /\ AllWell(y) /\ OldThings(u, y)
         /\ \A q \in Player : y.lastDrawn[q] = u.lastDrawn[q] \/ y.lastDrawn[q] \in Objects(y)
<1>0. u \in World /\ Placed(u) /\ Once(u) /\ InOrder(u) /\ LinkedBack(u) /\ Sound(u) /\ Tidy(u)
  BY DEF AllWell, Sound
<1>1. PICK from \in Zone, to \in Zone : /\ from = Z("library", p) /\ to = Z("hand", p)
                                        /\ from[1] = "library" /\ to[1] = "hand"
  BY ZoneFacts
<1>2. PICK x : x = Last(u.zones[from])
  OBVIOUS
<1>3. Lies(u, x, from)
  <2>1. PICK s \in Seq(Nat) : s = u.zones[from] /\ s # <<>>
    BY <1>0, <1>1, Fields
  <2>2. Len(s) \in 1..Len(s)
    BY <2>1, EmptySeq, LenProperties
  <2>3. x = s[Len(s)]
    BY <1>2, <2>1 DEF Last
  <2> QED BY <2>1, <2>2, <2>3 DEF Lies, Contains
<1>4. PICK v : v = Now1(u, x, from, to)
  OBVIOUS
<1>5. y = Remembered(v, p, x, to)
  BY <1>1, <1>2, <1>4 DEF Drawn, Remembered, Now1
<1>6. Kind(from, to) = "goes"
  BY <1>1 DEF Kind
<1>7. Went(u, v, x, from, to)
  BY <1>0, <1>3, <1>4, <1>6, PutCases
<1>8. Grown(u, v) /\ Tidy(v)
  <2>1. from \in Place /\ from[1] # "temp" /\ to[1] # "temp" /\ to[1] # "garbage"
    BY <1>1, ZoneFacts
  <2>2. Kind(from, to) # "top"
    BY <1>6
  <2> QED BY <1>0, <1>4, <2>1, <2>2, PutKeeps
<1>9. AllWell(v)
  BY <1>8, GrownWell
<1>10. x \in Objects(u) /\ ~ Current(v, x)
  <2>1. x \in Objects(u)
    BY <1>0, <1>3, LyingThings
  <2>2. Renewed(u, v, x, from, to) /\ Follows(u, v, x)
    BY <1>7 DEF Went
  <2> QED BY <1>0, <1>3, <2>1, <2>2, NoLonger
<1>11. Sound(v) /\ v \in World /\ x \in Objects(v) /\ v.lastDrawn = u.lastDrawn
  BY <1>8, <1>10 DEF Grown, Sound, OldThings
<1>12. Sound(y) /\ Tidy(y) /\ OldThings(v, y) /\ StillTold(v, y)
  BY <1>1, <1>5, <1>8, <1>10, <1>11, RememberedKeeps
<1>13. AllWell(y)
  <2>1. 0 <= Len(v.queue)
    BY <1>11, Fields, LenProperties
  <2> QED BY <1>9, <1>12, <2>1 DEF AllWell, StillTold
<1>14. /\ Objects(y) = Objects(v) /\ y.lastDrawn[p] = x
       /\ \A q \in Player : q # p => y.lastDrawn[q] = v.lastDrawn[q]
  BY <1>5, <1>11, RememberedFacts
<1>15. OldThings(u, y)
  BY <1>8, <1>12 DEF Grown, OldThings
<1> QED
  BY <1>11, <1>13, <1>14, <1>15

-----------------------------------------------------------------------------
(* The inductive invariant.                                                *)

AimedAt(u, a)  == a \in Nat /\ (a # 0 => a \in Objects(u) /\ Obj(u, a).zone[1] # "temp")
DrawnIn(u)     == \A p \in Player : u.lastDrawn[p] # 0 => u.lastDrawn[p] \in Objects(u)
Sweeps(s)      ==
  \/ s = NoSweep
  \/ s \in [kind : {"state", "end"}, p : Player, at : Nat, nb : Nat, done : BOOLEAN]
InBounds(u, s) ==
  /\ s.kind = "state" => s.at <= Len(u.zones[Z("inPlay", s.p)])
  /\ s.kind = "end" /\ ~ s.done => s.nb <= Len(u.zones[Z("inPlay", s.p)])

IInv ==
  /\ AllWell(w) /\ AimedAt(w, aim) /\ DrawnIn(w)
  /\ Sweeps(sweeping) /\ InBounds(w, sweeping) /\ cleanup \in BOOLEAN

LEMMA StillSeen ==
  ASSUME NEW u, NEW v, OldThings(u, v)
  PROVE  /\ \A a : AimedAt(u, a) => AimedAt(v, a)
         /\ DrawnIn(u) /\ v.lastDrawn = u.lastDrawn => DrawnIn(v)
BY DEF OldThings, AimedAt, DrawnIn

LEMMA StillInBounds ==
  ASSUME NEW u \in World, NEW v \in World, AsMany(u, v, 0), NEW s, Sweeps(s), InBounds(u, s)
  PROVE  InBounds(v, s)
<1>1. CASE s = NoSweep
  BY <1>1 DEF NoSweep, InBounds
<1>2. CASE s \in [kind : {"state", "end"}, p : Player, at : Nat, nb : Nat, done : BOOLEAN]
  <2>1. s.p \in Player /\ s.at \in Nat /\ s.nb \in Nat
    BY <1>2
  <2>2. PICK m \in Nat, n \in Nat : /\ m = Len(u.zones[Z("inPlay", s.p)]) /\ n = Len(v.zones[Z("inPlay", s.p)])
                                    /\ n >= m - 0
    BY <2>1, PlayLens DEF AsMany
  <2>3. s.kind = "state" => s.at <= n
    BY <2>1, <2>2 DEF InBounds
  <2>4. s.kind = "end" /\ ~ s.done => s.nb <= n
    BY <2>1, <2>2 DEF InBounds
  <2> QED BY <2>2, <2>3, <2>4 DEF InBounds
<1> QED
  BY <1>1, <1>2 DEF Sweeps

(* An act, when gameStateBasedEffects() is not at work.                    *)
LEMMA Acted ==
  ASSUME IInv, sweeping = NoSweep, sweeping' = NoSweep, cleanup' \in BOOLEAN,
         AllWell(w'), OldThings(w, w'), DrawnIn(w'), aim' = aim \/ AimedAt(w', aim')
  PROVE  IInv'
<1>1. AimedAt(w', aim')
  BY StillSeen DEF IInv
<1>2. Sweeps(sweeping') /\ InBounds(w', sweeping')
  BY DEF Sweeps, InBounds, NoSweep
<1> QED
  BY <1>1, <1>2 DEF IInv

LEMMA ActedOn ==
  ASSUME IInv, Grown(w, w'), Tidy(w')
  PROVE  AllWell(w') /\ OldThings(w, w') /\ DrawnIn(w')
<1>1. AllWell(w')
  BY GrownWell DEF IInv
<1>2. OldThings(w, w') /\ w'.lastDrawn = w.lastDrawn
  BY DEF Grown
<1> QED
  BY <1>1, <1>2, StillSeen DEF IInv

LEMMA AimedAtNone == \A u : AimedAt(u, 0)
BY DEF AimedAt

(* Nothing waits: of a token, no object is anywhere but in play, in the    *)
(* garbage or in temp.                                                     *)
LEMMA NoneDeparted ==
  ASSUME NEW u, AllWell(u), u.queue = <<>>, NEW x \in Objects(u)
  PROVE  ~ Departed(u, x)
<1>1. ASSUME Departed(u, x) PROVE FALSE
  <2>1. PICK i \in 1..Len(u.queue) : TRUE
    BY <1>1 DEF AllWell, TokensTold
  <2>2. Len(u.queue) = 0
    BY EmptySeq
  <2>3. i \in 1..0
    BY <2>1, <2>2
  <2> QED BY <2>3
<1> QED
  BY <1>1

LEMMA HandleEventKeeps ==
  ASSUME IInv, HandleEvent
  PROVE  IInv'
<1>1. w.queue # <<>> /\ w' = [Hear(w, Head(w.queue)) EXCEPT !.queue = Tail(@)]
      /\ aim' = aim /\ cleanup' = cleanup /\ sweeping' = sweeping
  BY DEF HandleEvent
<1>2. PICK y : y = Hear(w, Head(w.queue))
  OBVIOUS
<1>3. AllWell(w) /\ w \in World /\ Len(w.queue) \in Nat
  <2>1. AllWell(w) /\ w \in World
    BY DEF IInv, AllWell, Sound
  <2> QED BY <2>1, Fields, LenProperties
<1>4. Grown(w, y) /\ Tidy(y) /\ AsMany(w, y, 0) /\ TokensTold(y, 1)
  BY <1>1, <1>2, <1>3, HearKeeps
<1>5. AllWell(y) /\ Sound(y) /\ Flagged(y, {}) /\ y \in World
  BY <1>3, <1>4, GrownWell DEF AllWell, Sound
<1>6. y.queue # <<>>
  <2>1. Len(w.queue) # 0
    <3>1. w.queue \in Seq(News)
      BY <1>3, Fields
    <3> QED BY <1>1, <3>1, EmptySeq
  <2>2. Len(y.queue) >= Len(w.queue) /\ Len(y.queue) \in Nat
    <3>1. Len(y.queue) \in Nat
      BY <1>5, Fields, LenProperties
    <3> QED BY <1>3, <1>4, <3>1 DEF Grown, OldNews
  <2>3. Len(y.queue) # 0
    BY <1>3, <2>1, <2>2
  <2> QED BY <2>3, EmptySeq
<1>7. AllWell(w') /\ OldThings(y, w') /\ AsMany(y, w', 0) /\ w'.lastDrawn = y.lastDrawn
  BY <1>1, <1>2, <1>4, <1>5, <1>6, Handled
<1>8. OldThings(w, w') /\ w'.lastDrawn = w.lastDrawn
  BY <1>4, <1>7 DEF Grown, OldThings
<1>9. AimedAt(w', aim') /\ DrawnIn(w')
  BY <1>1, <1>8, StillSeen DEF IInv
<1>10. InBounds(w', sweeping')
  <2>1. w' \in World
    BY <1>7 DEF AllWell, Sound
  <2>2. AsMany(w, w', 0 + 0)
    BY <1>3, <1>4, <1>5, <1>7, <2>1, AsManyTwice
  <2>3. AsMany(w, w', 0)
    BY <2>2
  <2> QED BY <1>1, <1>3, <2>1, <2>3, StillInBounds DEF IInv
<1> QED
  BY <1>1, <1>7, <1>9, <1>10 DEF IInv

-----------------------------------------------------------------------------
(* The acts, one by one.                                                   *)

LEMMA DrawKeeps ==
  ASSUME IInv, NEW p \in Player, Draw(p)
  PROVE  IInv'
<1>1. /\ w.zones[Z("library", p)] # <<>> /\ w' = Drawn(w, p) /\ aim' = aim
      /\ sweeping = NoSweep /\ sweeping' = NoSweep /\ cleanup' \in BOOLEAN
  BY DEF Draw, Act, Idle, IInv
<1>2. /\ AllWell(w') /\ OldThings(w, w')
      /\ \A q \in Player : w'.lastDrawn[q] = w.lastDrawn[q] \/ w'.lastDrawn[q] \in Objects(w')
  BY <1>1, DrawnKeeps DEF IInv
<1>3. DrawnIn(w')
  BY <1>2 DEF IInv, DrawnIn, OldThings
<1> QED
  BY <1>1, <1>2, <1>3, Acted

(* Discarding a card changes no library.                                   *)
LEMMA RingKeeps ==
  ASSUME IInv, NEW p \in Player, Ring(p)
  PROVE  IInv'
<1>1. /\ w.lastDrawn[p] # 0 /\ Obj(w, w.lastDrawn[p]).zone = Z("hand", p)
      /\ w.zones[Z("library", p)] # <<>>
      /\ w' = Drawn(Put(w, w.lastDrawn[p], "graveyard").u, p) /\ aim' = aim
      /\ sweeping = NoSweep /\ sweeping' = NoSweep /\ cleanup' \in BOOLEAN
  BY DEF Ring, Act, Idle, IInv
<1>2. /\ AllWell(w) /\ Sound(w) /\ Tidy(w) /\ w \in World
      /\ Once(w) /\ Placed(w) /\ InOrder(w) /\ LinkedBack(w)
  BY DEF IInv, AllWell, Sound
<1>3. PICK x \in Objects(w) : x = w.lastDrawn[p] /\ Obj(w, x).zone = Z("hand", p)
  BY <1>1 DEF IInv, DrawnIn
<1>4. PICK v : v = Put(w, x, "graveyard").u
  OBVIOUS
<1>5. PICK from \in Zone, lib \in Zone : /\ from = Z("hand", p) /\ from[1] = "hand" /\ from = Obj(w, x).zone
                                         /\ lib = Z("library", p) /\ lib[1] = "library"
  BY <1>3, ZoneFacts
<1>6. Grown(w, v) /\ Tidy(v)
  BY <1>2, <1>3, <1>4, <1>5, PutHome
<1>7. AllWell(v)
  BY <1>2, <1>6, GrownWell
<1>8. v.zones[lib] # <<>>
  <2>1. PICK to \in Zone : to = Home(w, x, "graveyard") /\ to[1] = "graveyard"
    <3>1. "graveyard" \in Names
      BY DEF Names
    <3> QED BY <1>2, <1>3, <3>1, Whose
  <2>2. v = Now1(w, x, from, to)
    BY <1>4, <1>5, <2>1 DEF Put, Now1
  <2>3. CASE ~ Lies(w, x, from)
    <3>1. from # None /\ from \in Place
      BY ZoneFacts
    <3>2. v = w
      BY <2>2, <2>3, <3>1, PutNothing
    <3> QED BY <1>1, <1>5, <3>2
  <2>4. CASE Lies(w, x, from)
    <3>1. Kind(from, to) = "goes"
      BY <1>5, <2>1 DEF Kind
    <3>2. Went(w, v, x, from, to)
      BY <1>2, <2>2, <2>4, <3>1, PutCases
    <3>3. Rezoned(w, v, x, from, Made(w), to) /\ v \in World /\ Len(v.objs) = Made(w)
      BY <3>2 DEF Went, Renewed
    <3>4. Made(w) \in Nat /\ Made(w) \notin Objects(w)
      BY <1>2, <3>3, OldAndNew
    <3>5. \A y \in Zone : y # from /\ y # to => v.zones[y] = w.zones[y]
      BY <1>2, <2>4, <3>3, <3>4, ZoneMoves
    <3>6. lib # from /\ lib # to
      BY <1>5, <2>1
    <3> QED BY <1>1, <1>5, <3>5, <3>6
  <2> QED BY <2>3, <2>4
<1>9. w' = Drawn(v, p) /\ v.zones[Z("library", p)] # <<>>
  BY <1>1, <1>3, <1>4, <1>5, <1>8
<1>10. /\ AllWell(w') /\ OldThings(v, w')
       /\ \A q \in Player : w'.lastDrawn[q] = v.lastDrawn[q] \/ w'.lastDrawn[q] \in Objects(w')
  BY <1>7, <1>9, DrawnKeeps
<1>11. OldThings(w, v) /\ v.lastDrawn = w.lastDrawn
  BY <1>6 DEF Grown
<1>12. OldThings(w, w')
  BY <1>10, <1>11 DEF OldThings
<1>13. DrawnIn(w')
  BY <1>10, <1>11, <1>12 DEF IInv, DrawnIn, OldThings
<1> QED
  BY <1>1, <1>10, <1>12, <1>13, Acted

LEMMA CastKeeps ==
  ASSUME IInv, NEW o \in Objects(w), NEW t \in {0} \cup Objects(w), Cast(o, t)
  PROVE  IInv'
<1>1. /\ Obj(w, o).zone[1] = "hand" /\ aim' = t
      /\ w' = PutInZone(w, o, Obj(w, o).zone, Z("stack", Controller(w, o))).u
      /\ sweeping = NoSweep /\ sweeping' = NoSweep /\ cleanup' \in BOOLEAN
  BY DEF Cast, Act, Idle, IInv
<1>2. t = 0 \/ Obj(w, t).zone[1] # "temp"
  BY DEF Cast, InPlay
<1>3. Sound(w) /\ Tidy(w) /\ w \in World /\ o \in Nat
  BY DEF IInv, AllWell, Sound, Objects
<1>4. PICK from \in Place : from = Obj(w, o).zone /\ from[1] = "hand"
  BY <1>1, <1>3, Whose
<1>5. PICK to \in Zone : to = Z("stack", Controller(w, o)) /\ to[1] = "stack"
  <2>1. "stack" \in Names
    BY DEF Names
  <2> QED BY <1>3, <2>1, Whose
<1>6. w' = Now1(w, o, from, to)
  BY <1>1, <1>4, <1>5 DEF Now1
<1>7. Kind(from, to) # "top" /\ from[1] # "temp" /\ to[1] # "temp" /\ to[1] # "garbage"
  BY <1>4, <1>5 DEF Kind
<1>8. Grown(w, w') /\ Tidy(w')
  BY <1>3, <1>6, <1>7, PutKeeps
<1>9. AllWell(w') /\ OldThings(w, w') /\ DrawnIn(w')
  BY <1>8, ActedOn
<1>10. AimedAt(w', aim')
  <2>1. AimedAt(w, t)
    BY <1>2 DEF AimedAt, Objects
  <2> QED BY <1>1, <1>9, <2>1, StillSeen
<1> QED
  BY <1>1, <1>9, <1>10, Acted

LEMMA ResolveKeeps ==
  ASSUME IInv, NEW o \in Objects(w), Resolve(o)
  PROVE  IInv'
<1>1. PICK p, r : p = Controller(w, o) /\ r = PutInZone(w, o, Z("stack", p), Z("inPlay", p))
  OBVIOUS
<1>2. /\ \/ w' = Put(w, o, "graveyard").u
         \/ w' = r.u
         \/ w' = [r.u EXCEPT !.objs[r.ret].target = aim]
         \/ w' = PutInZone(r.u, r.ret, Z("inPlay", p), Home(w, o, "graveyard")).u
      /\ Obj(w, o).zone[1] = "stack" /\ aim' = 0
      /\ sweeping = NoSweep /\ sweeping' = NoSweep /\ cleanup' \in BOOLEAN
  BY <1>1 DEF Resolve, Idle, Spells, IInv
<1>3. Sound(w) /\ Tidy(w) /\ w \in World /\ aim \in Nat
  BY DEF IInv, AllWell, Sound, AimedAt
<1>4. p \in Player /\ Home(w, o, "graveyard") \in Zone /\ Home(w, o, "graveyard")[1] = "graveyard"
  <2>1. "graveyard" \in Names
    BY DEF Names
  <2> QED BY <1>1, <1>3, <2>1, Whose
<1>5. PICK from \in Zone, to \in Zone : /\ from = Z("stack", p) /\ from[1] = "stack"
                                        /\ to = Z("inPlay", p) /\ to[1] = "inPlay"
  BY <1>4, ZoneFacts
<1>6. PICK a : a = r.u
  OBVIOUS
<1>7. Grown(w, a) /\ Tidy(a)
  <2>1. a = Now1(w, o, from, to)
    BY <1>1, <1>5, <1>6 DEF Now1
  <2>2. from \in Place /\ from[1] # "temp" /\ to[1] # "temp" /\ to[1] # "garbage" /\ Kind(from, to) # "top"
    BY <1>5, ZoneFacts DEF Kind
  <2> QED BY <1>3, <2>1, <2>2, PutKeeps
<1>8. Sound(a) /\ a \in World
  BY <1>7 DEF Grown, Sound
<1>9. Grown(w, w') /\ Tidy(w')
  <2>1. CASE w' = Put(w, o, "graveyard").u
    <3>1. Obj(w, o).zone[1] # "temp"
      BY <1>2
    <3> QED BY <1>3, <2>1, <3>1, PutHome
  <2>2. CASE w' = r.u
    BY <1>6, <1>7, <2>2
  <2>3. CASE w' = [r.u EXCEPT !.objs[r.ret].target = aim]
    <3>1. PICK x : x = r.ret
      OBVIOUS
    <3>2. Edited(a, [a EXCEPT !.objs[x].target = aim])
      BY <1>3, <1>8, Edits
    <3>3. Edited(a, w')
      BY <1>6, <2>3, <3>1, <3>2
    <3>4. Grown(a, w') /\ Tidy(w')
      BY <1>7, <1>8, <3>3, EditKeeps
    <3> QED BY <1>3, <1>7, <3>4, GrownTwice
  <2>4. CASE w' = PutInZone(r.u, r.ret, Z("inPlay", p), Home(w, o, "graveyard")).u
    <3>1. PICK x, z : x = r.ret /\ z = Home(w, o, "graveyard")
      OBVIOUS
    <3>2. w' = Now1(a, x, to, z)
      BY <1>5, <1>6, <2>4, <3>1 DEF Now1
    <3>3. /\ z \in Zone /\ to \in Place /\ to[1] # "temp" /\ z[1] # "temp" /\ z[1] # "garbage"
          /\ Kind(to, z) # "top"
      BY <1>4, <1>5, <3>1, ZoneFacts DEF Kind
    <3>4. Grown(a, w') /\ Tidy(w')
      BY <1>7, <1>8, <3>2, <3>3, PutKeeps
    <3> QED BY <1>3, <1>7, <3>4, GrownTwice
  <2> QED BY <1>2, <2>1, <2>2, <2>3, <2>4
<1>10. AllWell(w') /\ OldThings(w, w') /\ DrawnIn(w')
  BY <1>9, ActedOn
<1>11. AimedAt(w', aim')
  BY <1>2, AimedAtNone
<1> QED
  BY <1>2, <1>10, <1>11, Acted

LEMMA AimKeeps ==
  ASSUME IInv, NEW o \in Objects(w), Aim(o)
  PROVE  IInv'
<1>1. /\ Obj(w, o).zone[1] # "temp" /\ aim' = o /\ w' = w
      /\ sweeping = NoSweep /\ sweeping' = NoSweep /\ cleanup' \in BOOLEAN
  BY DEF Aim, Act, Idle, IInv
<1>2. AllWell(w') /\ DrawnIn(w')
  BY <1>1 DEF IInv
<1>3. AimedAt(w', aim')
  BY <1>1 DEF AimedAt, Objects
<1>4. OldThings(w, w')
  BY <1>1 DEF OldThings
<1> QED
  BY <1>1, <1>2, <1>3, <1>4, Acted

LEMMA HurtKeeps ==
  ASSUME IInv, NEW o \in Objects(w), Hurt(o)
  PROVE  IInv'
<1>1. /\ w' = [w EXCEPT !.objs[o].dying = TRUE] /\ aim' = aim
      /\ sweeping = NoSweep /\ sweeping' = NoSweep /\ cleanup' \in BOOLEAN
  BY DEF Hurt, Act, Idle, IInv
<1>2. Sound(w) /\ Tidy(w) /\ w \in World /\ 0 \in Nat
  BY DEF IInv, AllWell, Sound
<1>3. Edited(w, [w EXCEPT !.objs[o].dying = TRUE])
  BY <1>2, Edits
<1>4. Edited(w, w')
  BY <1>1, <1>3
<1>5. Grown(w, w') /\ Tidy(w')
  BY <1>2, <1>4, EditKeeps
<1>6. AllWell(w') /\ OldThings(w, w') /\ DrawnIn(w')
  BY <1>5, ActedOn
<1> QED
  BY <1>1, <1>6, Acted

(* A card that is now in a library is none of the tokens: nothing waits.   *)
LEMMA MoveKeeps ==
  ASSUME IInv, NEW o \in Objects(w), NEW name \in {"library", "hand", "graveyard"}, Move(o, name)
  PROVE  IInv'
<1>1. /\ w' = Put(w, o, name).u /\ o = aim /\ o # 0 /\ aim' = 0 /\ w.queue = <<>>
      /\ sweeping = NoSweep /\ sweeping' = NoSweep /\ cleanup' \in BOOLEAN
  BY DEF Move, Idle, IInv
<1>2. AllWell(w) /\ Sound(w) /\ Tidy(w) /\ w \in World /\ Obj(w, o).zone[1] # "temp"
  BY <1>1 DEF IInv, AllWell, Sound, AimedAt
<1>3. Obj(w, o).zone[1] = "library" => Obj(w, o).card \in Cards \/ ~ Current(w, o)
  <2>1. ~ Departed(w, o)
    BY <1>1, <1>2, NoneDeparted
  <2>2. Obj(w, o).card \in AnyCard
    BY <1>2, Fields DEF Thing
  <2> QED BY <2>1, <2>2 DEF Departed, Goner, AnyCard
<1>4. Grown(w, w') /\ Tidy(w')
  <2>1. name \in {"library", "hand", "graveyard", "exile"}
    OBVIOUS
  <2> QED BY <1>1, <1>2, <1>3, <2>1, PutHome
<1>5. AllWell(w') /\ OldThings(w, w') /\ DrawnIn(w')
  BY <1>4, ActedOn
<1>6. AimedAt(w', aim')
  BY <1>1, AimedAtNone
<1> QED
  BY <1>1, <1>5, <1>6, Acted

LEMMA MoveIntoPlayKeeps ==
  ASSUME IInv, NEW o \in Objects(w), NEW p \in Player, NEW unearthed \in BOOLEAN,
         MoveIntoPlay(o, p, unearthed)
  PROVE  IInv'
<1>1. PICK from, r : /\ from = Obj(w, o).zone
                     /\ r = IF from[1] = "inPlay" THEN PutInZone(w, o, from, Z("inPlay", p))
                            ELSE ViaTemp(w, o, from, p)
  OBVIOUS
<1>2. /\ w' = IF unearthed THEN [r.u EXCEPT !.objs[r.ret].unearthed = TRUE] ELSE r.u
      /\ o = aim /\ o # 0 /\ aim' = 0
      /\ sweeping = NoSweep /\ sweeping' = NoSweep /\ cleanup' \in BOOLEAN
  BY <1>1 DEF MoveIntoPlay, Idle, IInv
<1>3. Sound(w) /\ Tidy(w) /\ w \in World /\ from[1] # "temp"
  BY <1>1, <1>2 DEF IInv, AllWell, Sound, AimedAt
<1>4. from \in Place
  BY <1>1, <1>3, Whose
<1>5. PICK a, x : a = r.u /\ x = r.ret
  OBVIOUS
<1>6. Grown(w, a) /\ Tidy(a)
  <2>1. CASE from[1] = "inPlay"
    <3>1. PICK to \in Zone : to = Z("inPlay", p) /\ to[1] = "inPlay"
      BY ZoneFacts
    <3>2. a = Now1(w, o, from, to)
      BY <1>1, <1>5, <2>1, <3>1 DEF Now1
    <3>3. to[1] # "temp" /\ to[1] # "garbage" /\ Kind(from, to) # "top"
      BY <3>1, <2>1 DEF Kind
    <3> QED BY <1>3, <1>4, <3>2, <3>3, PutKeeps
  <2>2. CASE from[1] # "inPlay"
    <3>1. a = ViaTemp(w, o, from, p).u
      BY <1>1, <1>5, <2>2
    <3> QED BY <1>3, <1>4, <2>2, <3>1, ViaTempKeeps
  <2> QED BY <2>1, <2>2
<1>7. Grown(w, w') /\ Tidy(w')
  <2>1. CASE unearthed
    <3>1. Sound(a) /\ a \in World /\ 0 \in Nat
      BY <1>6 DEF Grown, Sound
    <3>2. Edited(a, [a EXCEPT !.objs[x].unearthed = TRUE])
      BY <3>1, Edits
    <3>3. Edited(a, w')
      BY <1>2, <1>5, <2>1, <3>2
    <3>4. Grown(a, w') /\ Tidy(w')
      BY <1>6, <3>1, <3>3, EditKeeps
    <3> QED BY <1>3, <1>6, <3>4, GrownTwice
  <2>2. CASE ~ unearthed
    BY <1>2, <1>5, <1>6, <2>2
  <2> QED BY <2>1, <2>2
<1>8. AllWell(w') /\ OldThings(w, w') /\ DrawnIn(w')
  BY <1>7, ActedOn
<1>9. AimedAt(w', aim')
  BY <1>2, AimedAtNone
<1> QED
  BY <1>2, <1>8, <1>9, Acted

-----------------------------------------------------------------------------
(* What leaves, and the sweep of the cards in play.                        *)

LEMMA PutOne ==
  ASSUME NEW u, Sound(u), Tidy(u), NEW x \in Objects(u), Obj(u, x).zone[1] # "temp",
         NEW name \in {"graveyard", "exile"}, NEW v, v = Put(u, x, name).u
  PROVE  Grown(u, v) /\ Tidy(v) /\ AsMany(u, v, 1)
<1>1. name \in {"library", "hand", "graveyard", "exile"} /\ name # "library"
  OBVIOUS
<1> QED
  BY <1>1, PutHome

LEMMA PutBoth ==
  ASSUME NEW u, Sound(u), Tidy(u), NEW v, Grown(u, v), Tidy(v),
         NEW x \in Objects(u), Obj(u, x).zone[1] # "temp",
         NEW name \in {"graveyard", "exile"}, NEW y, y = Put(v, x, name).u
  PROVE  Grown(u, y) /\ Tidy(y)
<1>1. Sound(v) /\ x \in Objects(v) /\ Obj(v, x).zone[1] # "temp"
  BY DEF Grown, OldThings
<1>2. Grown(v, y) /\ Tidy(y)
  BY <1>1, PutOne
<1> QED
  BY <1>2, GrownTwice

LEMMA DieTogetherKeeps ==
  ASSUME IInv, NEW o1 \in Objects(w), NEW o2 \in Objects(w), DieTogether(o1, o2)
  PROVE  IInv'
<1>1. PICK v : v = Put(w, o1, "graveyard").u
  OBVIOUS
<1>2. /\ Obj(w, o1).zone[1] = "inPlay" /\ Obj(w, o2).zone[1] = "inPlay"
      /\ w' = Put(v, o2, "graveyard").u /\ aim' = aim
      /\ sweeping = NoSweep /\ sweeping' = NoSweep /\ cleanup' \in BOOLEAN
  BY <1>1 DEF DieTogether, InPlay, Act, Idle, IInv
<1>3. Sound(w) /\ Tidy(w) /\ Obj(w, o1).zone[1] # "temp" /\ Obj(w, o2).zone[1] # "temp"
  BY <1>2 DEF IInv, AllWell
<1>4. Grown(w, v) /\ Tidy(v)
  BY <1>1, <1>3, PutOne
<1>5. Grown(w, w') /\ Tidy(w')
  BY <1>2, <1>3, <1>4, PutBoth
<1>6. AllWell(w') /\ OldThings(w, w') /\ DrawnIn(w')
  BY <1>5, ActedOn
<1> QED
  BY <1>2, <1>6, Acted

LEMMA EnterCleanupKeeps ==
  ASSUME IInv, EnterCleanup
  PROVE  IInv'
<1>1. w' = w /\ aim' = aim /\ sweeping' = sweeping /\ cleanup' = TRUE
  BY DEF EnterCleanup
<1> QED
  BY <1>1 DEF IInv

(* The battlefield of a player.                                            *)
LEMMA FieldFacts ==
  ASSUME IInv, NEW p \in Player
  PROVE  /\ Battlefield(p) \in Seq(Nat) /\ Len(Battlefield(p)) \in Nat
         /\ DOMAIN Battlefield(p) = 1..Len(Battlefield(p))
         /\ \A i \in DOMAIN Battlefield(p) :
              /\ Lies(w, Battlefield(p)[i], Z("inPlay", p)) /\ Battlefield(p)[i] \in Objects(w)
              /\ Obj(w, Battlefield(p)[i]).zone = Z("inPlay", p)
              /\ Obj(w, Battlefield(p)[i]).zone[1] = "inPlay"
<1>1. w \in World /\ Placed(w)
  BY DEF IInv, AllWell, Sound
<1>2. PICK z \in Zone : z = Z("inPlay", p) /\ z[1] = "inPlay"
  BY ZoneFacts
<1>3. PICK s \in Seq(Nat) : s = w.zones[z]
  BY <1>1, Fields
<1>4. Battlefield(p) = s
  BY <1>2, <1>3 DEF Battlefield
<1>5. DOMAIN s = 1..Len(s) /\ Len(s) \in Nat
  BY LenProperties
<1>6. \A i \in 1..Len(s) : Lies(w, s[i], z)
  BY <1>3, <1>5 DEF Lies, Contains
<1>7. \A x : Lies(w, x, z) => x \in Objects(w) /\ Obj(w, x).zone = z
  BY <1>1 DEF Placed
<1> QED
  BY <1>2, <1>4, <1>5, <1>6, <1>7

LEMMA FromFacts ==
  ASSUME IInv, NEW kind \in {"state", "end"}, NEW p \in Player
  PROVE  Sweeps(From(kind, p)) /\ InBounds(w, From(kind, p))
<1>1. PICK n \in Nat : n = Len(Battlefield(p))
  BY FieldFacts
<1>2. From(kind, p) = [kind |-> kind, p |-> p, at |-> IF kind = "state" THEN n ELSE 0, nb |-> n, done |-> FALSE]
  BY <1>1 DEF From
<1>3. Sweeps(From(kind, p))
  BY <1>1, <1>2 DEF Sweeps
<1>4. Len(w.zones[Z("inPlay", p)]) = n
  BY <1>1 DEF Battlefield
<1>5. PICK s : s = From(kind, p)
  OBVIOUS
<1>6. s.p = p /\ s.kind = kind /\ (kind = "state" => s.at = n) /\ s.nb = n
  BY <1>2, <1>5
<1>7. InBounds(w, s)
  BY <1>1, <1>4, <1>6 DEF InBounds
<1> QED
  BY <1>3, <1>5, <1>7

LEMMA BeginKeeps ==
  ASSUME IInv, Begin
  PROVE  IInv'
<1>1. w' = w /\ aim' = aim /\ cleanup' = cleanup /\ sweeping' = From("state", 0)
  BY DEF Begin, Goes
<1>2. Sweeps(From("state", 0)) /\ InBounds(w, From("state", 0))
  BY FromFacts DEF Player
<1> QED
  BY <1>1, <1>2 DEF IInv

LEMMA PassedKeeps ==
  ASSUME IInv, Passed
  PROVE  IInv'
<1>1. /\ w' = w /\ aim' = aim /\ cleanup' = cleanup /\ sweeping # NoSweep
      /\ \/ sweeping' = From(sweeping.kind, 1)
         \/ sweeping' = From("end", 0)
         \/ sweeping' = NoSweep
  BY DEF Passed, Goes
<1>2. sweeping.kind \in {"state", "end"}
  BY <1>1 DEF IInv, Sweeps
<1>3. Sweeps(sweeping') /\ InBounds(w, sweeping')
  <2>1. CASE sweeping' = From(sweeping.kind, 1)
    BY <1>2, <2>1, FromFacts DEF Player
  <2>2. CASE sweeping' = From("end", 0)
    BY <2>2, FromFacts DEF Player
  <2>3. CASE sweeping' = NoSweep
    BY <2>3 DEF Sweeps, InBounds, NoSweep
  <2> QED BY <1>1, <2>1, <2>2, <2>3
<1> QED
  BY <1>1, <1>3 DEF IInv

(* Those that are still to be looked at.                                   *)
LEMMA AheadFacts ==
  ASSUME IInv, sweeping # NoSweep, Ahead # {}
  PROVE  /\ sweeping.p \in Player /\ sweeping.kind \in {"state", "end"} /\ sweeping.at \in Nat
         /\ sweeping.nb \in Nat
         /\ Ahead \subseteq DOMAIN Battlefield(sweeping.p) /\ Max(Ahead) \in Ahead /\ Min(Ahead) \in Ahead
         /\ \A i \in Ahead : i \in Nat \ {0} /\ (sweeping.kind = "state" => i <= sweeping.at)
<1>1. sweeping.p \in Player /\ sweeping.kind \in {"state", "end"} /\ sweeping.at \in Nat /\ sweeping.nb \in Nat
  BY DEF IInv, Sweeps
<1>2. PICK N \in Nat : N = Len(Battlefield(sweeping.p)) /\ DOMAIN Battlefield(sweeping.p) = 1..N
  BY <1>1, FieldFacts
<1>3. Ahead \subseteq 1..N /\ \A i \in Ahead : sweeping.kind = "state" => i <= sweeping.at
  BY <1>2 DEF Ahead
<1>4. PICK S \in SUBSET Nat : S = Ahead /\ S # {} /\ (\A y \in S : y <= N) /\ 0 \notin S
  BY <1>3
<1>5. Max(S) \in S /\ Min(S) \in S
  BY <1>4, MaxIsGreatest, MinIsLeast
<1> QED
  BY <1>1, <1>2, <1>3, <1>4, <1>5

(* A card that has been put into the graveyard is not put there again.     *)
LEMMA PutAgain ==
  ASSUME NEW u, Sound(u), NEW x \in Objects(u), Obj(u, x).zone[1] = "inPlay", Lies(u, x, Obj(u, x).zone),
         NEW v, v = Put(u, x, "graveyard").u
  PROVE  Put(v, x, "graveyard").u = v
<1>0. u \in World /\ Once(u) /\ Placed(u) /\ InOrder(u) /\ LinkedBack(u)
  BY DEF Sound
<1>1. "graveyard" \in Names
  BY DEF Names
<1>2. PICK to \in Zone : to = Home(u, x, "graveyard") /\ to[1] = "graveyard"
  BY <1>0, <1>1, Whose
<1>3. PICK from \in Zone : from = Obj(u, x).zone
  <2>1. Obj(u, x).zone \in Place /\ Obj(u, x).zone # None
    BY <1>0, Whose, ZoneFacts
  <2> QED BY <2>1 DEF Place
<1>4. v = Now1(u, x, from, to)
  BY <1>2, <1>3 DEF Put, Now1
<1>5. Kind(from, to) = "goes"
  BY <1>2, <1>3 DEF Kind
<1>6. Went(u, v, x, from, to)
  BY <1>0, <1>3, <1>4, <1>5, PutCases
<1>7. v \in World /\ Obj(v, x).zone = None
  BY <1>6 DEF Went, Renewed
<1>8. x \in Objects(v)
  BY <1>0, <1>6, OldAndNew DEF Went, Renewed
<1>9. PICK z \in Zone : z = Home(v, x, "graveyard")
  BY <1>1, <1>7, <1>8, Whose
<1>10. Now1(v, x, None, z) = v
  <2>1. None \in Place
    BY ZoneFacts
  <2> QED BY <2>1, PutNothing
<1> QED
  BY <1>7, <1>9, <1>10 DEF Put, Now1

LEMMA StateOfKeeps ==
  ASSUME IInv, StateOf
  PROVE  IInv'
<1>1. PICK i : i = Max(Ahead)
  OBVIOUS
<1>2. PICK o : o = Battlefield(sweeping.p)[i]
  OBVIOUS
<1>3. PICK u : u = IF Obj(w, o).dying THEN Put(w, o, "graveyard").u ELSE w
  OBVIOUS
<1>4. /\ sweeping.kind = "state" /\ Ahead # {}
      /\ w' = IF Falls(u, o) THEN Put(u, o, "graveyard").u ELSE u
      /\ sweeping' = [sweeping EXCEPT !.at = i - 1]
      /\ aim' = aim /\ cleanup' = cleanup
  BY <1>1, <1>2, <1>3 DEF StateOf, Goes
<1>5. sweeping # NoSweep
  BY <1>4 DEF NoSweep
<1>6. /\ sweeping.p \in Player /\ sweeping.at \in Nat /\ i \in Nat \ {0} /\ i <= sweeping.at
      /\ i \in DOMAIN Battlefield(sweeping.p)
  BY <1>1, <1>4, <1>5, AheadFacts
<1>7. o \in Objects(w) /\ Lies(w, o, Obj(w, o).zone) /\ Obj(w, o).zone[1] = "inPlay" /\ Obj(w, o).zone[1] # "temp"
  BY <1>2, <1>6, FieldFacts
<1>8. Sound(w) /\ Tidy(w) /\ w \in World
  BY DEF IInv, AllWell, Sound
<1>9. PICK v : v = Put(w, o, "graveyard").u
  OBVIOUS
<1>10. w' = v \/ w' = w
  <2>1. Put(v, o, "graveyard").u = v
    BY <1>7, <1>8, <1>9, PutAgain
  <2> QED BY <1>3, <1>4, <1>9, <2>1
<1>11. Grown(w, w') /\ Tidy(w') /\ AsMany(w, w', 1)
  <2>1. CASE w' = v
    BY <1>7, <1>8, <1>9, <2>1, PutOne
  <2>2. CASE w' = w
    <3>1. Grown(w, w) /\ AsMany(w, w, 1)
      BY <1>8, GrownNot, AsManyNot
    <3> QED BY <1>8, <2>2, <3>1
  <2> QED BY <1>10, <2>1, <2>2
<1>12. AllWell(w') /\ OldThings(w, w') /\ DrawnIn(w')
  BY <1>11, ActedOn
<1>13. AimedAt(w', aim') /\ w' \in World
  BY <1>4, <1>12, StillSeen DEF IInv, AllWell, Sound
<1>14. /\ Sweeps(sweeping') /\ sweeping'.kind = "state" /\ sweeping'.p = sweeping.p
       /\ sweeping'.at = i - 1
  BY <1>4, <1>5, <1>6 DEF IInv, Sweeps
<1>15. InBounds(w', sweeping')
  <2>1. PICK m \in Nat, n \in Nat : /\ m = Len(w.zones[Z("inPlay", sweeping.p)])
                                    /\ n = Len(w'.zones[Z("inPlay", sweeping.p)])
                                    /\ n >= m - 1
    BY <1>6, <1>8, <1>11, <1>13, PlayLens DEF AsMany
  <2>2. sweeping.at <= m
    BY <1>4, <2>1 DEF IInv, InBounds
  <2>3. i - 1 <= n
    BY <1>6, <2>1, <2>2
  <2> QED BY <1>14, <2>1, <2>3 DEF InBounds
<1> QED
  BY <1>4, <1>12, <1>13, <1>14, <1>15 DEF IInv

LEMMA EndOfKeeps ==
  ASSUME IInv, EndOf
  PROVE  IInv'
<1>1. PICK i : i = Min(Ahead)
  OBVIOUS
<1>2. PICK o : o = Battlefield(sweeping.p)[i]
  OBVIOUS
<1>3. PICK u : u = IF Is(o, "treason") THEN Put(w, o, "graveyard").u ELSE w
  OBVIOUS
<1>4. /\ sweeping.kind = "end" /\ Ahead # {}
      /\ w' = IF Obj(w, o).unearthed THEN Put(u, o, "exile").u ELSE u
      /\ sweeping' = [sweeping EXCEPT !.at = i - 1, !.done = TRUE]
      /\ aim' = aim /\ cleanup' = cleanup
  BY <1>1, <1>2, <1>3 DEF EndOf, Goes
<1>5. sweeping # NoSweep
  BY <1>4 DEF NoSweep
<1>6. sweeping.p \in Player /\ i \in Nat \ {0} /\ i \in DOMAIN Battlefield(sweeping.p)
  BY <1>1, <1>4, <1>5, AheadFacts
<1>7. o \in Objects(w) /\ Obj(w, o).zone[1] # "temp"
  BY <1>2, <1>6, FieldFacts
<1>8. Sound(w) /\ Tidy(w)
  BY DEF IInv, AllWell
<1>9. Grown(w, u) /\ Tidy(u)
  <2>1. Grown(w, w)
    BY <1>8, GrownNot
  <2>2. CASE u = w
    BY <1>8, <2>1, <2>2
  <2>3. CASE u = Put(w, o, "graveyard").u
    BY <1>7, <1>8, <2>3, PutOne
  <2> QED BY <1>3, <2>2, <2>3
<1>10. Grown(w, w') /\ Tidy(w')
  <2>1. CASE w' = u
    BY <1>9, <2>1
  <2>2. CASE w' = Put(u, o, "exile").u
    BY <1>7, <1>8, <1>9, <2>2, PutBoth
  <2> QED BY <1>4, <2>1, <2>2
<1>11. AllWell(w') /\ OldThings(w, w') /\ DrawnIn(w')
  BY <1>10, ActedOn
<1>12. AimedAt(w', aim')
  BY <1>4, <1>11, StillSeen DEF IInv
<1>13. Sweeps(sweeping') /\ sweeping'.kind = "end" /\ sweeping'.done
  <2>1. sweeping \in [kind : {"state", "end"}, p : Player, at : Nat, nb : Nat, done : BOOLEAN]
    BY <1>5 DEF IInv, Sweeps
  <2>2. i - 1 \in Nat
    BY <1>6
  <2>3. sweeping' = [kind |-> "end", p |-> sweeping.p, at |-> i - 1, nb |-> sweeping.nb, done |-> TRUE]
    BY <1>4, <2>1
  <2>4. Sweeps([kind |-> "end", p |-> sweeping.p, at |-> i - 1, nb |-> sweeping.nb, done |-> TRUE])
    BY <2>1, <2>2 DEF Sweeps
  <2> QED BY <2>3, <2>4
<1>14. InBounds(w', sweeping')
  BY <1>13 DEF InBounds
<1> QED
  BY <1>4, <1>11, <1>12, <1>13, <1>14 DEF IInv

LEMMA EndNextKeeps ==
  ASSUME IInv, EndNext
  PROVE  IInv'
<1>1. PICK n : n = Len(Battlefield(sweeping.p))
  OBVIOUS
<1>2. /\ sweeping.kind = "end" /\ w' = w /\ aim' = aim /\ cleanup' = cleanup
      /\ sweeping' = [sweeping EXCEPT !.at = IF sweeping.nb > n THEN 1 ELSE @ + 1,
                                      !.nb = IF sweeping.nb > n THEN n ELSE @, !.done = FALSE]
  BY <1>1 DEF EndNext, Goes
<1>3. sweeping \in [kind : {"state", "end"}, p : Player, at : Nat, nb : Nat, done : BOOLEAN]
  BY <1>2 DEF IInv, Sweeps, NoSweep
<1>4. n \in Nat
  BY <1>1, <1>3, FieldFacts
<1>5. /\ Sweeps(sweeping') /\ sweeping'.kind = "end" /\ sweeping'.p = sweeping.p
      /\ sweeping'.nb = IF sweeping.nb > n THEN n ELSE sweeping.nb
  <2>1. PICK a \in Nat, b \in Nat : /\ a = IF sweeping.nb > n THEN 1 ELSE sweeping.at + 1
                                    /\ b = IF sweeping.nb > n THEN n ELSE sweeping.nb
    BY <1>3, <1>4
  <2>2. sweeping' = [kind |-> "end", p |-> sweeping.p, at |-> a, nb |-> b, done |-> FALSE]
    BY <1>2, <1>3, <2>1
  <2>3. Sweeps([kind |-> "end", p |-> sweeping.p, at |-> a, nb |-> b, done |-> FALSE])
    BY <1>3, <2>1 DEF Sweeps
  <2> QED BY <2>1, <2>2, <2>3
<1>6. sweeping'.nb <= n /\ n = Len(w'.zones[Z("inPlay", sweeping'.p)])
  BY <1>1, <1>2, <1>3, <1>4, <1>5 DEF Battlefield
<1>7. InBounds(w', sweeping')
  BY <1>5, <1>6 DEF InBounds
<1> QED
  BY <1>2, <1>5, <1>7 DEF IInv

-----------------------------------------------------------------------------
(* Making a token.                                                         *)

(* A new object in temp.                                                   *)
Brought(u, v, t, T) ==
  /\ v \in World /\ Len(v.objs) = Made(u) /\ v.zones = More(u.zones, T, Made(u))
  /\ v.onTop = u.onTop /\ v.lastDrawn = u.lastDrawn /\ v.queue = u.queue
  /\ Obj(v, Made(u)) = Zoned(NewObject(t, FALSE), T)
  /\ \A x \in Objects(u) : Obj(v, x) = Obj(u, x)

Bring(u, t, T) == AddCard([u EXCEPT !.objs = Append(@, NewObject(t, FALSE))], Made(u), T)

LEMMA BroughtPut ==
  ASSUME NEW u \in World, NEW t \in Tokens, NEW T \in Zone,
         NEW v, v = Bring(u, t, T)
  PROVE  Brought(u, v, t, T)
<1>1. PICK k \in Thing : k = NewObject(t, FALSE)
  BY NewThing DEF AnyCard
<1>2. PICK c \in Seq(Thing) : c = u.objs /\ Made(u) = Len(c) + 1 /\ Len(c) \in Nat /\ Objects(u) = 1..Len(c)
  BY Fields DEF Made, Objects
<1>3. PICK s : s = Append(c, k)
  OBVIOUS
<1>4. s \in Seq(Thing) /\ Len(s) = Len(c) + 1 /\ s[Len(c) + 1] = k /\ \A x \in 1..Len(c) : s[x] = c[x]
  BY <1>3, OneMore
<1>5. PICK a : a = Other(u, s, u.zones)
  OBVIOUS
<1>6. [u EXCEPT !.objs = Append(@, NewObject(t, FALSE))] = a
  BY <1>1, <1>2, <1>3, <1>5 DEF Other, World
<1>7. /\ a \in World /\ a.objs = s /\ a.zones = u.zones /\ a.onTop = u.onTop /\ a.lastDrawn = u.lastDrawn
      /\ a.queue = u.queue
  <2>1. u.zones \in [Zone -> Seq(Nat)]
    BY Fields
  <2> QED BY <1>4, <1>5, <2>1, OtherFacts
<1>8. PICK n \in Nat : n = Made(u) /\ n = Len(c) + 1 /\ n \in 1..Len(s) /\ n \notin 1..Len(c)
  BY <1>2, <1>4
<1>9. Objects(a) = 1..Len(s) /\ Obj(a, n) = k /\ v = AddCard(a, n, T)
  BY <1>4, <1>6, <1>7, <1>8 DEF Objects, Obj, Bring
<1>10. PICK g \in Thing : g = Zoned(k, T)
  BY ThingsEdited, ZoneFacts
<1>11. /\ v \in World /\ v.objs = Put1(s, n, g) /\ v.zones = More(u.zones, T, n)
       /\ v.onTop = u.onTop /\ v.lastDrawn = u.lastDrawn /\ v.queue = u.queue
  <2>1. n \in Objects(a)
    BY <1>8, <1>9
  <2>2. /\ AddCard(a, n, T) \in World
        /\ AddCard(a, n, T).objs = Put1(a.objs, n, Zoned(Obj(a, n), T))
        /\ AddCard(a, n, T).zones = More(a.zones, T, n)
        /\ AddCard(a, n, T).onTop = a.onTop /\ AddCard(a, n, T).lastDrawn = a.lastDrawn
        /\ AddCard(a, n, T).queue = a.queue
    BY <1>7, <2>1, AddFacts
  <2> QED BY <1>7, <1>9, <1>10, <2>2
<1>12. /\ Len(Put1(s, n, g)) = Len(s)
       /\ \A x \in 1..Len(s) : Put1(s, n, g)[x] = IF x = n THEN g ELSE s[x]
  <2>1. PICK q \in Seq(Thing), m \in Nat : q = s /\ m = n /\ m \in 1..Len(q)
    BY <1>4, <1>8
  <2>2. /\ Put1(q, m, g) \in Seq(Thing) /\ Len(Put1(q, m, g)) = Len(q)
        /\ \A x \in 1..Len(q) : Put1(q, m, g)[x] = IF x = m THEN g ELSE q[x]
    <3>1. m \in 1..Len(q)
      BY <2>1
    <3> QED BY <3>1, Marked
  <2> QED BY <2>1, <2>2
<1>13. Len(v.objs) = n /\ Obj(v, n) = g /\ \A x \in 1..Len(c) : Obj(v, x) = c[x]
  <2>1. PICK q : q = Put1(s, n, g)
    OBVIOUS
  <2>2. Len(q) = n /\ q[n] = g /\ \A x \in 1..Len(c) : q[x] = c[x]
    <3>1. \A x \in 1..Len(c) : x \in 1..Len(s) /\ x # n
      BY <1>2, <1>4, <1>8
    <3> QED BY <1>4, <1>8, <1>12, <2>1, <3>1
  <2>3. v.objs = q
    BY <1>11, <2>1
  <2> QED BY <2>2, <2>3 DEF Obj
<1>14. Obj(v, Made(u)) = Zoned(NewObject(t, FALSE), T)
  BY <1>1, <1>8, <1>10, <1>13
<1>15. \A x \in Objects(u) : Obj(v, x) = Obj(u, x)
  BY <1>2, <1>13 DEF Obj
<1> QED
  BY <1>8, <1>11, <1>13, <1>14, <1>15 DEF Brought

LEMMA BroughtFacts ==
  ASSUME NEW u, Sound(u), NEW t \in Tokens, NEW T \in Zone, T[1] = "temp", NEW v, Brought(u, v, t, T)
  PROVE  /\ Made(u) \in Nat /\ Made(u) # 0 /\ Made(u) \notin Objects(u) /\ Made(u) \in Objects(v)
         /\ \A x : x \in Objects(v) <=> x \in Objects(u) \/ x = Made(u)
         /\ Obj(v, Made(u)).card = t /\ Obj(v, Made(u)).zone = T /\ Obj(v, Made(u)).previousZone = None
         /\ Obj(v, Made(u)).previous = 0 /\ Obj(v, Made(u)).next = 0 /\ Current(v, Made(u))
         /\ ~ Obj(v, Made(u)).token
         /\ \A x \in Objects(u) : Current(v, x) <=> Current(u, x)
         /\ v.zones[T] = Append(u.zones[T], Made(u)) /\ ~ Contains(u.zones[T], Made(u))
         /\ \A y \in Zone : y # T => v.zones[y] = u.zones[y]
         /\ Once(v) /\ \A y \in Zone : \A x : Lies(v, x, y) <=> Lies(u, x, y) \/ (x = Made(u) /\ y = T)
<1>0. u \in World /\ Placed(u) /\ Once(u) /\ v \in World /\ Len(v.objs) = Made(u)
  BY DEF Sound, Brought
<1>1. /\ Made(u) \in Nat /\ Made(u) # 0 /\ Made(u) \notin Objects(u) /\ Made(u) \in Objects(v)
      /\ \A x : x \in Objects(v) <=> x \in Objects(u) \/ x = Made(u)
  BY <1>0, OldAndNew
<1>2. PICK n \in Nat : n = Made(u) /\ n \notin Objects(u)
  BY <1>1
<1>3. PICK k \in Thing : k = NewObject(t, FALSE)
  BY NewThing DEF AnyCard
<1>4. /\ k.card = t /\ k.token = FALSE /\ k.live = TRUE /\ k.next = 0 /\ k.previous = 0 /\ k.previousZone = None
  BY <1>3 DEF NewObject
<1>5. PICK g : g = Zoned(k, T)
  OBVIOUS
<1>6. /\ g.card = k.card /\ g.token = k.token /\ g.zone = T /\ g.previous = k.previous /\ g.next = k.next
      /\ g.live = k.live /\ g.previousZone = k.previousZone
  <2>1. T \in Place
    BY ZoneFacts
  <2>2. /\ SameCard(k, Zoned(k, T)) /\ Zoned(k, T).zone = T
        /\ Zoned(k, T).previous = k.previous /\ Zoned(k, T).next = k.next
        /\ Zoned(k, T).live = k.live /\ Zoned(k, T).previousZone = k.previousZone
    BY <2>1, ThingsEdited
  <2> QED BY <1>5, <2>2 DEF SameCard
<1>7. Obj(v, n) = g
  BY <1>2, <1>3, <1>5 DEF Brought
<1>8. /\ Obj(v, n).card = t /\ Obj(v, n).zone = T /\ Obj(v, n).previousZone = None
      /\ Obj(v, n).previous = 0 /\ Obj(v, n).next = 0 /\ Current(v, n) /\ ~ Obj(v, n).token
  BY <1>4, <1>6, <1>7 DEF Current
<1>9. \A x \in Objects(u) : Current(v, x) <=> Current(u, x)
  BY DEF Brought, Current
<1>10. ~ Contains(u.zones[T], n)
  BY <1>0, <1>2 DEF Placed, Lies
<1>11. PICK a : a = Append(u.zones[T], n)
  OBVIOUS
<1>12. PICK s \in Seq(Nat) : s = u.zones[T] /\ NoTwice(s)
  BY <1>0, Fields DEF Once
<1>13. NoTwice(a) /\ \A y : Contains(a, y) <=> Contains(u.zones[T], y) \/ y = n
  BY <1>10, <1>11, <1>12, Added
<1>14. v.zones[T] = a /\ \A y \in Zone : y # T => v.zones[y] = u.zones[y]
  <2>1. v.zones = More(u.zones, T, n)
    BY <1>2 DEF Brought
  <2>2. v.zones = [u.zones EXCEPT ![T] = a]
    BY <1>11, <2>1 DEF More
  <2>3. u.zones \in [Zone -> Seq(Nat)]
    BY <1>0, Fields
  <2> QED BY <2>2, <2>3
<1>15. Once(v)
  BY <1>0, <1>13, <1>14 DEF Once
<1>16. \A y \in Zone : \A x : Lies(v, x, y) <=> Lies(u, x, y) \/ (x = n /\ y = T)
  <2>1. TAKE y \in Zone
  <2>2. CASE y = T
    BY <1>13, <1>14, <2>2 DEF Lies
  <2>3. CASE y # T
    BY <1>14, <2>3 DEF Lies
  <2> QED BY <2>2, <2>3
<1> QED
  BY <1>1, <1>2, <1>8, <1>9, <1>10, <1>11, <1>14, <1>15, <1>16

LEMMA BroughtKeeps ==
  ASSUME NEW u, AllWell(u), NEW t \in Tokens, NEW T \in Zone, T[1] = "temp", NEW v, Brought(u, v, t, T)
  PROVE  Sound(v) /\ OldThings(u, v) /\ TokensTold(v, 0) /\ Flagged(v, {t})
<1>0. /\ u \in World /\ Placed(u) /\ Once(u) /\ Found(u) /\ LinkedOn(u) /\ LinkedBack(u) /\ InOrder(u)
      /\ Held(u) /\ FromElsewhere(u) /\ TokensOnly(u) /\ Told(u) /\ Sound(u)
      /\ v \in World /\ v.queue = u.queue /\ Len(v.objs) = Made(u)
  BY DEF AllWell, Sound, Brought
<1>1. PICK n \in Nat : n = Made(u)
  BY <1>0, OldAndNew
<1>2. /\ n # 0 /\ n \notin Objects(u) /\ n \in Objects(v)
      /\ \A x : x \in Objects(v) <=> x \in Objects(u) \/ x = n
  BY <1>0, <1>1, OldAndNew
<1>3. /\ Obj(v, n).card = t /\ Obj(v, n).zone = T /\ Obj(v, n).previousZone = None
      /\ Obj(v, n).previous = 0 /\ Obj(v, n).next = 0 /\ Current(v, n) /\ ~ Obj(v, n).token
      /\ \A x \in Objects(u) : Current(v, x) <=> Current(u, x)
      /\ Once(v) /\ \A y \in Zone : \A x : Lies(v, x, y) <=> Lies(u, x, y) \/ (x = n /\ y = T)
  BY <1>0, <1>1, BroughtFacts
<1>4. \A x \in Objects(u) : Obj(v, x) = Obj(u, x)
  BY DEF Brought
<1>5. Placed(v)
  <2>1. ASSUME NEW y \in Zone, NEW x, Lies(v, x, y)
        PROVE  x \in Objects(v) /\ Current(v, x) /\ Obj(v, x).zone = y
    <3>1. CASE x = n /\ y = T
      BY <1>2, <1>3, <3>1
    <3>2. CASE Lies(u, x, y)
      <4>1. x \in Objects(u) /\ Current(u, x) /\ Obj(u, x).zone = y
        BY <1>0, <3>2 DEF Placed
      <4> QED BY <1>2, <1>3, <1>4, <4>1
    <3> QED BY <1>3, <2>1, <3>1, <3>2
  <2> QED BY <2>1 DEF Placed
<1>6. Found(v)
  <2>1. ASSUME NEW x \in Objects(v), Current(v, x)
        PROVE  Obj(v, x).zone \in Zone /\ Lies(v, x, Obj(v, x).zone)
    <3>1. CASE x = n
      BY <1>3, <3>1
    <3>2. CASE x \in Objects(u)
      <4>1. Obj(u, x).zone \in Zone /\ Lies(u, x, Obj(u, x).zone)
        BY <1>0, <1>3, <2>1, <3>2 DEF Found
      <4> QED BY <1>3, <1>4, <3>2, <4>1
    <3> QED BY <1>2, <3>1, <3>2
  <2> QED BY <2>1 DEF Found
<1>7. LinkedOn(v)
  <2>1. ASSUME NEW x \in Objects(v), Obj(v, x).live, Obj(v, x).next # 0
        PROVE  /\ Obj(v, x).next \in Objects(v) /\ Obj(v, Obj(v, x).next).live
               /\ Obj(v, Obj(v, x).next).previous = x /\ Obj(v, Obj(v, x).next).card = Obj(v, x).card
    <3>1. x \in Objects(u) /\ Obj(v, x) = Obj(u, x)
      BY <1>2, <1>3, <1>4, <2>1
    <3>2. PICK m : m = Obj(u, x).next
      OBVIOUS
    <3>3. m \in Objects(u) /\ Obj(u, m).live /\ Obj(u, m).previous = x /\ Obj(u, m).card = Obj(u, x).card
      BY <1>0, <2>1, <3>1, <3>2 DEF LinkedOn
    <3> QED BY <1>2, <1>4, <3>1, <3>2, <3>3
  <2> QED BY <2>1 DEF LinkedOn
<1>8. LinkedBack(v)
  <2>1. ASSUME NEW x \in Objects(v), Obj(v, x).live, Obj(v, x).previous # 0
        PROVE  /\ Obj(v, x).previous \in Objects(v) /\ Obj(v, Obj(v, x).previous).live
               /\ Obj(v, Obj(v, x).previous).next = x
    <3>1. x \in Objects(u) /\ Obj(v, x) = Obj(u, x)
      BY <1>2, <1>3, <1>4, <2>1
    <3>2. PICK m : m = Obj(u, x).previous
      OBVIOUS
    <3>3. m \in Objects(u) /\ Obj(u, m).live /\ Obj(u, m).next = x
      BY <1>0, <2>1, <3>1, <3>2 DEF LinkedBack
    <3> QED BY <1>2, <1>4, <3>1, <3>2, <3>3
  <2> QED BY <2>1 DEF LinkedBack
<1>9. InOrder(v)
  <2>1. PICK m \in Nat : Len(u.objs) = m /\ Len(v.objs) = m + 1 /\ n = m + 1
    BY <1>0, <1>1, Fields DEF Made
  <2>2. ASSUME NEW x \in Objects(v)
        PROVE  Obj(v, x).previous < x /\ Obj(v, x).next <= m + 1
    <3>1. CASE x = n
      BY <1>3, <2>1, <3>1
    <3>2. CASE x \in Objects(u)
      <4>1. Obj(u, x).previous < x /\ Obj(u, x).next <= m
        BY <1>0, <2>1, <3>2 DEF InOrder
      <4>2. Obj(u, x).next \in Nat
        BY <1>0, <3>2, Fields DEF Thing
      <4> QED BY <1>4, <2>1, <3>2, <4>1, <4>2
    <3> QED BY <1>2, <3>1, <3>2
  <2> QED BY <2>1, <2>2 DEF InOrder
<1>10. t \notin Cards
  BY ZonesAssumption
<1>11. Held(v)
  <2>1. ASSUME NEW c \in Cards
        PROVE  \E x \in Objects(v) : Is1(v, c, x)
    <3>1. PICK x \in Objects(u) : Is1(u, c, x)
      BY <1>0 DEF Held
    <3>2. Is1(v, c, x)
      BY <1>2, <1>3, <1>4, <1>10, <3>1 DEF Is1
    <3> QED BY <1>2, <3>2
  <2> QED BY <2>1 DEF Held
<1>12. FromElsewhere(v)
  <2>1. "none" # "temp" /\ None[1] = "none"
    BY ZoneFacts
  <2> QED BY <1>0, <1>2, <1>3, <1>4, <2>1 DEF FromElsewhere
<1>13. TokensOnly(v)
  BY <1>0, <1>2, <1>3, <1>4 DEF TokensOnly
<1>14. Told(v)
  <2>1. \A e : Honest(u, e) => Honest(v, e)
    BY <1>2, <1>4 DEF Honest
  <2> QED BY <1>0, <2>1 DEF Told
<1>15. OldThings(u, v)
  BY <1>2, <1>4 DEF OldThings
<1>16. TokensTold(v, 0)
  <2>1. \A x \in Objects(v) : Departed(v, x) => x \in Objects(u) /\ Departed(u, x)
    BY <1>2, <1>3, <1>4 DEF Departed, Goner
  <2> QED BY <1>0, <2>1 DEF AllWell, TokensTold
<1>17. Flagged(v, {t})
  BY <1>2, <1>3, <1>4 DEF AllWell, Flagged
<1>18. Sound(v)
  BY <1>0, <1>3, <1>5, <1>6, <1>7, <1>8, <1>9, <1>11, <1>12, <1>13, <1>14 DEF Sound
<1> QED
  BY <1>15, <1>16, <1>17, <1>18

(* A token is marked as one.                                               *)
Marked1(y, x) == [y EXCEPT !.objs[x].token = TRUE]

LEMMA Marked1Facts ==
  ASSUME NEW y \in World, NEW x \in Objects(y), NEW v, v = Marked1(y, x)
  PROVE  /\ v \in World /\ Objects(v) = Objects(y) /\ Len(v.objs) = Len(y.objs)
         /\ v.zones = y.zones /\ v.onTop = y.onTop /\ v.queue = y.queue /\ v.lastDrawn = y.lastDrawn
         /\ \A o \in Objects(y) :
              /\ Obj(v, o).card = Obj(y, o).card /\ Obj(v, o).zone = Obj(y, o).zone
              /\ Obj(v, o).previous = Obj(y, o).previous /\ Obj(v, o).next = Obj(y, o).next
              /\ Obj(v, o).previousZone = Obj(y, o).previousZone /\ Obj(v, o).live = Obj(y, o).live
              /\ Obj(v, o).token <=> Obj(y, o).token \/ o = x
<1>1. PICK c \in Seq(Thing) : c = y.objs /\ x \in 1..Len(c) /\ Objects(y) = 1..Len(c) /\ Obj(y, x) = c[x]
  BY Fields DEF Objects, Obj
<1>2. PICK g \in Thing : g = Obj(y, x)
  BY Fields
<1>3. PICK k : k = [g EXCEPT !.token = TRUE]
  OBVIOUS
<1>4. /\ k \in Thing /\ k.card = g.card /\ k.zone = g.zone /\ k.previous = g.previous /\ k.next = g.next
      /\ k.previousZone = g.previousZone /\ k.live = g.live /\ k.token
  BY <1>3 DEF Thing
<1>5. PICK s : s = Put1(c, x, k)
  OBVIOUS
<1>6. s \in Seq(Thing) /\ Len(s) = Len(c) /\ \A o \in 1..Len(c) : s[o] = IF o = x THEN k ELSE c[o]
  <2>1. x \in 1..Len(c) /\ k \in Thing
    BY <1>1, <1>4
  <2>2. /\ Put1(c, x, k) \in Seq(Thing) /\ Len(Put1(c, x, k)) = Len(c)
        /\ \A o \in 1..Len(c) : Put1(c, x, k)[o] = IF o = x THEN k ELSE c[o]
    BY <2>1, Marked
  <2> QED BY <1>5, <2>2
<1>7. v = [y EXCEPT !.objs = s]
  BY <1>1, <1>2, <1>3, <1>5 DEF Marked1, World, Put1
<1>8. /\ v \in World /\ v.objs = s /\ v.zones = y.zones /\ v.onTop = y.onTop
      /\ v.lastDrawn = y.lastDrawn /\ v.queue = y.queue
  BY <1>6, <1>7 DEF World
<1>9. Objects(v) = Objects(y) /\ Len(v.objs) = Len(y.objs)
  BY <1>1, <1>6, <1>8 DEF Objects
<1>10. \A o \in Objects(y) : Obj(v, o) = IF o = x THEN k ELSE Obj(y, o)
  BY <1>1, <1>6, <1>8 DEF Obj
<1>11. ASSUME NEW o \in Objects(y)
       PROVE  /\ Obj(v, o).card = Obj(y, o).card /\ Obj(v, o).zone = Obj(y, o).zone
              /\ Obj(v, o).previous = Obj(y, o).previous /\ Obj(v, o).next = Obj(y, o).next
              /\ Obj(v, o).previousZone = Obj(y, o).previousZone /\ Obj(v, o).live = Obj(y, o).live
              /\ Obj(v, o).token <=> Obj(y, o).token \/ o = x
  <2>1. CASE o = x
    BY <1>2, <1>4, <1>10, <2>1
  <2>2. CASE o # x
    BY <1>10, <2>2
  <2> QED BY <2>1, <2>2
<1> QED
  BY <1>8, <1>9, <1>11

LEMMA Marked1Keeps ==
  ASSUME NEW y, Sound(y), Tidy(y), TokensTold(y, 0), NEW x \in Objects(y), Obj(y, x).card \in Tokens,
         \A o \in Objects(y) : Current(y, o) /\ Obj(y, o).card = Obj(y, x).card => o = x,
         Flagged(y, {Obj(y, x).card}), NEW v, v = Marked1(y, x)
  PROVE  AllWell(v) /\ OldThings(y, v) /\ v.lastDrawn = y.lastDrawn
<1>0. /\ y \in World /\ Placed(y) /\ Once(y) /\ Found(y) /\ LinkedOn(y) /\ LinkedBack(y) /\ InOrder(y)
      /\ Held(y) /\ FromElsewhere(y) /\ TokensOnly(y) /\ Told(y)
  BY DEF Sound
<1>1. /\ v \in World /\ Objects(v) = Objects(y) /\ Len(v.objs) = Len(y.objs)
      /\ v.zones = y.zones /\ v.onTop = y.onTop /\ v.queue = y.queue /\ v.lastDrawn = y.lastDrawn
      /\ \A o \in Objects(y) :
           /\ Obj(v, o).card = Obj(y, o).card /\ Obj(v, o).zone = Obj(y, o).zone
           /\ Obj(v, o).previous = Obj(y, o).previous /\ Obj(v, o).next = Obj(y, o).next
           /\ Obj(v, o).previousZone = Obj(y, o).previousZone /\ Obj(v, o).live = Obj(y, o).live
           /\ Obj(v, o).token <=> Obj(y, o).token \/ o = x
  BY <1>0, Marked1Facts
<1>2. /\ \A o \in Objects(y) : Current(v, o) <=> Current(y, o)
      /\ \A o, n : Lies(v, o, n) <=> Lies(y, o, n)
  BY <1>1 DEF Current, Lies
<1>3. Placed(v)
  BY <1>0, <1>1, <1>2 DEF Placed
<1>4. Found(v)
  BY <1>0, <1>1, <1>2 DEF Found
<1>5. Once(v)
  BY <1>0, <1>1 DEF Once
<1>6. LinkedOn(v)
  BY <1>0, <1>1 DEF LinkedOn
<1>7. LinkedBack(v)
  BY <1>0, <1>1 DEF LinkedBack
<1>8. InOrder(v)
  BY <1>0, <1>1 DEF InOrder
<1>9. Held(v)
  <2>1. \A c : \A o \in Objects(y) : Is1(y, c, o) => Is1(v, c, o)
    BY <1>1, <1>2 DEF Is1
  <2> QED BY <1>0, <1>1, <2>1 DEF Held
<1>10. FromElsewhere(v)
  BY <1>0, <1>1 DEF FromElsewhere
<1>11. TokensOnly(v)
  BY <1>0, <1>1 DEF TokensOnly
<1>12. Told(v)
  <2>1. \A e : Honest(y, e) => Honest(v, e)
    BY <1>1 DEF Honest
  <2> QED BY <1>0, <1>1, <2>1 DEF Told
<1>13. Sound(v)
  BY <1>1, <1>3, <1>4, <1>5, <1>6, <1>7, <1>8, <1>9, <1>10, <1>11, <1>12 DEF Sound
<1>14. OldThings(y, v)
  BY <1>1 DEF OldThings
<1>15. Tidy(v)
  BY <1>1, <1>14, TidyQuiet DEF Quiet
<1>16. TokensTold(v, 0)
  <2>1. \A o \in Objects(v) : Departed(v, o) => o \in Objects(y) /\ Departed(y, o)
    BY <1>1, <1>2 DEF Departed
  <2> QED BY <1>1, <2>1 DEF TokensTold
<1>17. Flagged(v, {})
  <2>1. ASSUME NEW o \in Objects(v), Current(v, o), Obj(v, o).card \in Tokens
        PROVE  Obj(v, o).token
    <3>1. o \in Objects(y) /\ Current(y, o) /\ Obj(y, o).card \in Tokens
      BY <1>1, <1>2, <2>1
    <3>2. CASE Obj(y, o).card = Obj(y, x).card
      BY <1>1, <3>1, <3>2
    <3>3. CASE Obj(y, o).card # Obj(y, x).card
      BY <1>1, <3>1, <3>3 DEF Flagged
    <3> QED BY <3>2, <3>3
  <2> QED BY <2>1 DEF Flagged
<1> QED
  BY <1>1, <1>13, <1>14, <1>15, <1>16, <1>17 DEF AllWell

LEMMA MakeTokenKeeps ==
  ASSUME IInv, NEW t \in Tokens, NEW p \in Player, MakeToken(t, p)
  PROVE  IInv'
<1>1. PICK T \in Zone, I \in Zone : /\ T = Z("temp", p) /\ I = Z("inPlay", p)
                                    /\ T[1] = "temp" /\ T[2] = p /\ I[1] = "inPlay"
  BY ZoneFacts
<1>2. PICK u : u = AddCard([w EXCEPT !.objs = Append(@, NewObject(t, FALSE))], Made(w), T)
  OBVIOUS
<1>3. PICK r : r = PutInZone(u, Made(w), T, I)
  OBVIOUS
<1>4. /\ w' = [r.u EXCEPT !.objs[r.ret].token = TRUE] /\ aim' = aim
      /\ \A o \in Objects(w) : Obj(w, o).card # t
      /\ sweeping = NoSweep /\ sweeping' = NoSweep /\ cleanup' \in BOOLEAN
  BY <1>1, <1>2, <1>3 DEF MakeToken, Act, Idle, IInv, Made
<1>5. AllWell(w) /\ Sound(w) /\ Tidy(w) /\ w \in World /\ Once(w) /\ Placed(w)
  BY DEF IInv, AllWell, Sound
<1>6. Brought(w, u, t, T)
  BY <1>2, <1>5, BroughtPut DEF Bring
<1>7. Sound(u) /\ OldThings(w, u) /\ TokensTold(u, 0) /\ Flagged(u, {t})
  BY <1>1, <1>5, <1>6, BroughtKeeps
<1>8. PICK n \in Nat : n = Made(w)
  <2>1. Made(w) \in Nat
    BY <1>5, Fields DEF Made
  <2> QED BY <2>1
<1>9. /\ n # 0 /\ n \notin Objects(w) /\ n \in Objects(u)
      /\ \A x : x \in Objects(u) <=> x \in Objects(w) \/ x = n
      /\ Obj(u, n).card = t /\ Obj(u, n).zone = T
      /\ u.zones[T] = Append(w.zones[T], n) /\ ~ Contains(w.zones[T], n)
      /\ \A y \in Zone : y # T => u.zones[y] = w.zones[y]
      /\ \A y \in Zone : \A x : Lies(u, x, y) <=> Lies(w, x, y) \/ (x = n /\ y = T)
  BY <1>1, <1>5, <1>6, <1>8, BroughtFacts, SMTT(60)
<1>10. Lies(u, n, T) /\ u \in World /\ Once(u) /\ Placed(u) /\ InOrder(u) /\ LinkedBack(u)
  BY <1>7, <1>9 DEF Sound
<1>11. PICK v, m : v = Now1(u, n, T, I) /\ m = Made(u)
  OBVIOUS
<1>12. Came(u, v, n, T, I) /\ Ret(u, n, T, I) = Made(u)
  <2>1. Kind(T, I) = "comes"
    BY <1>1 DEF Kind
  <2> QED BY <1>10, <1>11, <2>1, PutCases
<1>13. w' = Marked1(v, m)
  <2>1. r.u = v /\ r.ret = m
    BY <1>3, <1>8, <1>11, <1>12 DEF Now1, Ret
  <2> QED BY <1>4, <2>1 DEF Marked1
<1>14. Grown(u, v) /\ Sound(v) /\ v \in World
  <2>1. I[1] # "temp" /\ I[1] # "garbage"
    BY <1>1
  <2>2. Grown(u, v)
    BY <1>1, <1>7, <1>10, <1>12, <2>1, GrownCame
  <2> QED BY <2>2 DEF Grown, Sound
<1>15. Renewed(u, v, n, T, I) /\ Skips(u, v, n) /\ v.onTop = u.onTop /\ v.lastDrawn = u.lastDrawn
  BY <1>12 DEF Came
<1>16. /\ m \in Nat /\ m \notin Objects(u) /\ m \in Objects(v) /\ Len(v.objs) = m
       /\ \A x : x \in Objects(v) <=> x \in Objects(u) \/ x = m
  BY <1>10, <1>11, <1>14, <1>15, OldAndNew DEF Renewed
<1>17. Obj(v, m).card = t /\ Rezoned(u, v, n, T, m, I)
  BY <1>9, <1>11, <1>15 DEF Renewed
<1>18. Tidy(v)
  <2>1. T # I
    BY <1>1
  <2>2. /\ \A y \in Zone : y # T /\ y # I => v.zones[y] = u.zones[y]
        /\ v.zones[T] = RemoveFirst(u.zones[T], n)
    BY <1>10, <1>16, <1>17, <2>1, ZoneMoves
  <2>3. v.zones[T] = w.zones[T]
    <3>1. w.zones[T] \in Seq(Nat)
      BY <1>5, Fields
    <3>2. RemoveFirst(Append(w.zones[T], n), n) = w.zones[T]
      BY <1>9, <3>1, ComesAndGoes
    <3> QED BY <1>9, <2>2, <3>2
  <2>4. ASSUME NEW q \in Player
        PROVE  v.zones[Z("temp", q)] = w.zones[Z("temp", q)]
    <3>1. PICK y \in Zone : y = Z("temp", q) /\ y[1] = "temp"
      BY ZoneFacts
    <3>2. y # I
      BY <1>1, <3>1
    <3>3. y # T => v.zones[y] = w.zones[y]
      BY <1>9, <2>2, <3>2
    <3> QED BY <2>3, <3>1, <3>3
  <2>5. v.onTop = w.onTop
    BY <1>6, <1>15 DEF Brought
  <2>6. OldThings(w, v)
    BY <1>7, <1>14 DEF Grown, OldThings
  <2> QED BY <1>5, <2>4, <2>5, <2>6, TidyQuiet DEF Quiet
<1>19. \A o \in Objects(v) : Current(v, o) /\ Obj(v, o).card = t => o = m
  <2>1. ASSUME NEW o \in Objects(v), Current(v, o), Obj(v, o).card = t, o # m
        PROVE  FALSE
    <3>1. o \in Objects(u) /\ Obj(u, o).card = t
      BY <1>15, <1>16, <2>1 DEF Renewed
    <3>2. o # n
      BY <1>7, <1>10, <1>15, <2>1, <3>1, NoLonger
    <3>3. o \in Objects(w) /\ Obj(w, o).card = t
      BY <1>6, <1>9, <3>1, <3>2 DEF Brought
    <3> QED BY <1>4, <3>3
  <2> QED BY <2>1
<1>20. TokensTold(v, 0) /\ Flagged(v, {t})
  <2>1. 0 <= Len(u.queue)
    BY <1>10, Fields, LenProperties
  <2> QED BY <1>7, <1>14, <2>1 DEF Grown, StillTold
<1>21. AllWell(w') /\ OldThings(v, w') /\ w'.lastDrawn = v.lastDrawn
  BY <1>13, <1>14, <1>16, <1>17, <1>18, <1>19, <1>20, Marked1Keeps
<1>22. OldThings(w, w')
  BY <1>7, <1>14, <1>21 DEF Grown, OldThings
<1>23. DrawnIn(w')
  <2>1. w'.lastDrawn = w.lastDrawn
    BY <1>6, <1>15, <1>21 DEF Brought
  <2> QED BY <1>22, <2>1, StillSeen DEF IInv
<1> QED
  BY <1>4, <1>21, <1>22, <1>23, Acted

-----------------------------------------------------------------------------
(* The garbage is deleted.                                                 *)

(* What a card was: all of it is not yet deleted, and but for the card     *)
(* itself each is followed by another.                                     *)
LEMMA BeforeFacts ==
  ASSUME NEW u, Sound(u), NEW o \in Objects(u), Current(u, o)
  PROVE  /\ Before(u, o) \subseteq Objects(u) /\ o \in Before(u, o)
         /\ \A x \in Before(u, o) :
              /\ Obj(u, x).live
              /\ Obj(u, x).previous \in Before(u, o) \cup {0}
              /\ x = o \/ Obj(u, x).next \in Before(u, o)
<1>0. u \in World /\ LinkedBack(u) /\ InOrder(u) /\ \A x \in Objects(u) : Obj(u, x) \in Thing
  BY Fields DEF Sound
<1>1. PICK n \in Nat : n = Len(u.objs) /\ Objects(u) = 1..n
  BY <1>0, Fields DEF Objects
<1>2. o \in 1..n /\ 1..o \subseteq 1..n /\ o \in 1..o
  BY <1>1
<1> DEFINE Closed(S) == o \in S /\ \A x \in S : Obj(u, x).previous \in S \cup {0}
<1>3. PICK B : B = Before(u, o)
  OBVIOUS
<1>4. B = {x \in 1..o : \A S \in SUBSET (1..o) : Closed(S) => x \in S}
  BY <1>3 DEF Before
<1>5. o \in B
  BY <1>2, <1>4
<1>6. ASSUME NEW x \in B
      PROVE  Obj(u, x).previous \in B \cup {0}
  <2>1. PICK q : q = Obj(u, x).previous
    OBVIOUS
  <2>2. CASE q # 0
    <3>1. x \in 1..o /\ x \in Objects(u)
      BY <1>1, <1>2, <1>4
    <3>2. q \in Nat /\ q < x
      BY <1>0, <2>1, <3>1 DEF InOrder, Thing
    <3>3. q \in 1..o
      BY <1>2, <2>2, <3>1, <3>2
    <3>4. ASSUME NEW S \in SUBSET (1..o), Closed(S)
          PROVE  q \in S
      <4>1. x \in S
        BY <1>4, <3>4
      <4> QED BY <2>1, <2>2, <3>4, <4>1
    <3>5. q \in B
      BY <1>4, <3>3, <3>4
    <3> QED BY <2>1, <3>5
  <2> QED BY <2>1, <2>2
<1>7. PICK S : S = {y \in B : Obj(u, y).live /\ (y = o \/ Obj(u, y).next \in B)}
  OBVIOUS
<1>8. Closed(S)
  <2>1. o \in S
    BY <1>5, <1>7 DEF Current
  <2>2. ASSUME NEW x \in S
        PROVE  Obj(u, x).previous \in S \cup {0}
    <3>1. PICK q : q = Obj(u, x).previous
      OBVIOUS
    <3>2. x \in B /\ Obj(u, x).live /\ x \in Objects(u)
      BY <1>1, <1>2, <1>4, <1>7, <2>2
    <3>3. CASE q # 0
      <4>1. q \in B
        BY <1>6, <3>1, <3>2, <3>3
      <4>2. Obj(u, q).live /\ Obj(u, q).next = x
        BY <1>0, <3>1, <3>2, <3>3 DEF LinkedBack
      <4>3. q \in S
        BY <1>7, <3>2, <4>1, <4>2
      <4> QED BY <3>1, <4>3
    <3> QED BY <3>1, <3>3
  <2> QED BY <2>1, <2>2
<1>9. B \subseteq S
  <2>1. S \in SUBSET (1..o)
    BY <1>4, <1>7
  <2> QED BY <1>4, <1>8, <2>1
<1>10. B \subseteq Objects(u)
  BY <1>1, <1>2, <1>4
<1> HIDE DEF Closed
<1> QED
  BY <1>3, <1>5, <1>6, <1>7, <1>9, <1>10

(* What the next turn does to the objects and the zones.                   *)
Swept1(u, v, F) ==
  /\ v \in World /\ Objects(v) = Objects(u) /\ Len(v.objs) = Len(u.objs)
  /\ v.onTop = u.onTop /\ v.lastDrawn = u.lastDrawn /\ v.queue = u.queue
  /\ \A z \in Zone : v.zones[z] = IF z[1] = "garbage" THEN <<>> ELSE u.zones[z]
  /\ \A x \in Objects(u) :
       /\ Obj(v, x).card = Obj(u, x).card /\ Obj(v, x).token = Obj(u, x).token
       /\ Obj(v, x).previous = Obj(u, x).previous /\ Obj(v, x).next = Obj(u, x).next
       /\ Obj(v, x).zone = Obj(u, x).zone /\ Obj(v, x).previousZone = Obj(u, x).previousZone
       /\ Obj(v, x).live <=> Obj(u, x).live /\ x \notin F

LEMMA SweptPut ==
  ASSUME NEW u \in World, NEW F,
         NEW v, v = [u EXCEPT !.objs = [o \in Objects(u) |-> IF o \in F THEN [@[o] EXCEPT !.live = FALSE]
                                                            ELSE @[o]],
                              !.zones = [z \in Zone |-> IF z[1] = "garbage" THEN <<>> ELSE @[z]]]
  PROVE  Swept1(u, v, F)
<1>1. PICK n \in Nat : n = Len(u.objs) /\ Objects(u) = 1..n
  BY Fields DEF Objects
<1>2. \A x \in 1..n : u.objs[x] \in Thing
  BY <1>1, Fields DEF Obj
<1>3. PICK s : s = [o \in 1..n |-> IF o \in F THEN [u.objs[o] EXCEPT !.live = FALSE] ELSE u.objs[o]]
  OBVIOUS
<1>4. \A k \in Thing : /\ [k EXCEPT !.live = FALSE] \in Thing
                       /\ [k EXCEPT !.live = FALSE].card = k.card /\ [k EXCEPT !.live = FALSE].token = k.token
                       /\ [k EXCEPT !.live = FALSE].previous = k.previous
                       /\ [k EXCEPT !.live = FALSE].next = k.next /\ [k EXCEPT !.live = FALSE].zone = k.zone
                       /\ [k EXCEPT !.live = FALSE].previousZone = k.previousZone
                       /\ ~ [k EXCEPT !.live = FALSE].live
  BY DEF Thing
<1>5. \A x \in 1..n : s[x] \in Thing
  BY <1>2, <1>3, <1>4
<1>6. s \in [1..n -> Thing]
  BY <1>3, <1>5
<1>7. s \in Seq(Thing) /\ Len(s) = n
  BY <1>1, <1>6, Listed
<1>8. PICK zs : zs = [z \in Zone |-> IF z[1] = "garbage" THEN <<>> ELSE u.zones[z]]
  OBVIOUS
<1>9. zs \in [Zone -> Seq(Nat)]
  <2>1. u.zones \in [Zone -> Seq(Nat)] /\ <<>> \in Seq(Nat)
    BY Fields, EmptySeq
  <2> QED BY <1>8, <2>1
<1>10. v = Other(u, s, zs)
  BY <1>1, <1>3, <1>8 DEF Other, World
<1>11. /\ v \in World /\ v.objs = s /\ v.zones = zs /\ v.onTop = u.onTop
       /\ v.lastDrawn = u.lastDrawn /\ v.queue = u.queue
  <2>1. s \in Seq(Thing) /\ zs \in [Zone -> Seq(Nat)]
    BY <1>7, <1>9
  <2>2. /\ Other(u, s, zs) \in World /\ Other(u, s, zs).objs = s /\ Other(u, s, zs).zones = zs
        /\ Other(u, s, zs).onTop = u.onTop /\ Other(u, s, zs).lastDrawn = u.lastDrawn
        /\ Other(u, s, zs).queue = u.queue
    BY <2>1, OtherFacts
  <2> QED BY <1>10, <2>2
<1>12. Objects(v) = Objects(u) /\ Len(v.objs) = Len(u.objs)
  BY <1>1, <1>7, <1>11 DEF Objects
<1>13. \A z \in Zone : v.zones[z] = IF z[1] = "garbage" THEN <<>> ELSE u.zones[z]
  BY <1>8, <1>11
<1>14. ASSUME NEW x \in Objects(u)
       PROVE  /\ Obj(v, x).card = Obj(u, x).card /\ Obj(v, x).token = Obj(u, x).token
              /\ Obj(v, x).previous = Obj(u, x).previous /\ Obj(v, x).next = Obj(u, x).next
              /\ Obj(v, x).zone = Obj(u, x).zone /\ Obj(v, x).previousZone = Obj(u, x).previousZone
              /\ Obj(v, x).live <=> Obj(u, x).live /\ x \notin F
  <2>1. PICK k \in Thing : k = Obj(u, x) /\ k = u.objs[x]
    BY <1>1, <1>2 DEF Obj
  <2>2. CASE x \in F
    <3>1. Obj(v, x) = [k EXCEPT !.live = FALSE]
      BY <1>1, <1>3, <1>11, <2>1, <2>2 DEF Obj
    <3> QED BY <1>4, <2>1, <2>2, <3>1, ZenonT(60)
  <2>3. CASE x \notin F
    <3>1. Obj(v, x) = k
      BY <1>1, <1>3, <1>11, <2>1, <2>3 DEF Obj
    <3> QED BY <2>1, <2>3, <3>1
  <2> QED BY <2>2, <2>3
<1> QED
  BY <1>11, <1>12, <1>13, <1>14 DEF Swept1

LEMMA SweptKeeps ==
  ASSUME NEW u, AllWell(u), u.queue = <<>>, NEW F, F \subseteq Objects(u), NEW v, Swept1(u, v, F),
         \A x \in Objects(u) : Current(u, x) => (x \in F <=> Obj(u, x).zone[1] = "garbage"),
         \A x \in F : Obj(u, x).previous \in F \cup {0},
         \A x \in F : Obj(u, x).next # 0 => Obj(u, x).next \in F
  PROVE  AllWell(v) /\ OldThings(u, v) /\ v.lastDrawn = u.lastDrawn
<1>0. /\ u \in World /\ Placed(u) /\ Once(u) /\ Found(u) /\ LinkedOn(u) /\ LinkedBack(u) /\ InOrder(u)
      /\ Held(u) /\ FromElsewhere(u) /\ TokensOnly(u) /\ Told(u) /\ Sound(u) /\ Tidy(u)
  BY DEF AllWell, Sound
<1>1. /\ v \in World /\ Objects(v) = Objects(u) /\ Len(v.objs) = Len(u.objs)
      /\ v.onTop = u.onTop /\ v.lastDrawn = u.lastDrawn /\ v.queue = u.queue
      /\ \A z \in Zone : v.zones[z] = IF z[1] = "garbage" THEN <<>> ELSE u.zones[z]
      /\ \A x \in Objects(u) :
           /\ Obj(v, x).card = Obj(u, x).card /\ Obj(v, x).token = Obj(u, x).token
           /\ Obj(v, x).previous = Obj(u, x).previous /\ Obj(v, x).next = Obj(u, x).next
           /\ Obj(v, x).zone = Obj(u, x).zone /\ Obj(v, x).previousZone = Obj(u, x).previousZone
           /\ Obj(v, x).live <=> Obj(u, x).live /\ x \notin F
  BY DEF Swept1
<1>2. \A x \in Objects(u) : Current(v, x) <=> Current(u, x) /\ Obj(u, x).zone[1] # "garbage"
  BY <1>1 DEF Current
<1>3. \A z \in Zone : \A x : Lies(v, x, z) <=> Lies(u, x, z) /\ z[1] # "garbage"
  <2>1. TAKE z \in Zone
  <2>2. CASE z[1] = "garbage"
    <3>1. v.zones[z] = <<>>
      BY <1>1, <2>2
    <3>2. \A x : ~ Contains(<<>>, x)
      BY EmptySeq DEF Contains
    <3> QED BY <2>2, <3>1, <3>2 DEF Lies
  <2>3. CASE z[1] # "garbage"
    BY <1>1, <2>3 DEF Lies
  <2> QED BY <2>2, <2>3
<1>4. Placed(v)
  <2>1. ASSUME NEW z \in Zone, NEW x, Lies(v, x, z)
        PROVE  x \in Objects(v) /\ Current(v, x) /\ Obj(v, x).zone = z
    <3>1. x \in Objects(u) /\ Current(u, x) /\ Obj(u, x).zone = z /\ z[1] # "garbage"
      BY <1>0, <1>3, <2>1 DEF Placed
    <3> QED BY <1>1, <1>2, <3>1
  <2> QED BY <2>1 DEF Placed
<1>5. Found(v)
  <2>1. ASSUME NEW x \in Objects(v), Current(v, x)
        PROVE  Obj(v, x).zone \in Zone /\ Lies(v, x, Obj(v, x).zone)
    <3>1. x \in Objects(u) /\ Current(u, x) /\ Obj(u, x).zone[1] # "garbage" /\ Obj(v, x).zone = Obj(u, x).zone
      BY <1>1, <1>2, <2>1
    <3>2. Obj(u, x).zone \in Zone /\ Lies(u, x, Obj(u, x).zone)
      BY <1>0, <3>1 DEF Found
    <3> QED BY <1>3, <3>1, <3>2
  <2> QED BY <2>1 DEF Found
<1>6. Once(v)
  <2>1. NoTwice(<<>>)
    BY EmptySeq DEF NoTwice
  <2>2. \A z \in Zone : NoTwice(v.zones[z])
    <3>1. TAKE z \in Zone
    <3>2. CASE z[1] = "garbage"
      <4>1. v.zones[z] = <<>>
        BY <1>1, <3>2
      <4> QED BY <2>1, <4>1
    <3>3. CASE z[1] # "garbage"
      <4>1. v.zones[z] = u.zones[z]
        BY <1>1, <3>3
      <4> QED BY <1>0, <4>1 DEF Once
    <3> QED BY <3>2, <3>3
  <2> QED BY <2>2 DEF Once
<1>7. LinkedOn(v)
  <2>1. ASSUME NEW x \in Objects(v), Obj(v, x).live, Obj(v, x).next # 0
        PROVE  /\ Obj(v, x).next \in Objects(v) /\ Obj(v, Obj(v, x).next).live
               /\ Obj(v, Obj(v, x).next).previous = x /\ Obj(v, Obj(v, x).next).card = Obj(v, x).card
    <3>1. x \in Objects(u) /\ Obj(u, x).live /\ x \notin F /\ Obj(u, x).next # 0 /\ Obj(v, x).next = Obj(u, x).next
          /\ Obj(v, x).card = Obj(u, x).card
      BY <1>1, <2>1
    <3>2. PICK m : m = Obj(u, x).next
      OBVIOUS
    <3>3. m \in Objects(u) /\ Obj(u, m).live /\ Obj(u, m).previous = x /\ Obj(u, m).card = Obj(u, x).card
      BY <1>0, <3>1, <3>2 DEF LinkedOn
    <3>4. m \notin F
      <4>1. x # 0
        BY <1>0, <3>1, Fields DEF Objects
      <4> QED BY <3>1, <3>3, <4>1
    <3> QED BY <1>1, <3>1, <3>2, <3>3, <3>4
  <2> QED BY <2>1 DEF LinkedOn
<1>8. LinkedBack(v)
  <2>1. ASSUME NEW x \in Objects(v), Obj(v, x).live, Obj(v, x).previous # 0
        PROVE  /\ Obj(v, x).previous \in Objects(v) /\ Obj(v, Obj(v, x).previous).live
               /\ Obj(v, Obj(v, x).previous).next = x
    <3>1. x \in Objects(u) /\ Obj(u, x).live /\ x \notin F /\ Obj(u, x).previous # 0
          /\ Obj(v, x).previous = Obj(u, x).previous
      BY <1>1, <2>1
    <3>2. PICK m : m = Obj(u, x).previous
      OBVIOUS
    <3>3. m \in Objects(u) /\ Obj(u, m).live /\ Obj(u, m).next = x
      BY <1>0, <3>1, <3>2 DEF LinkedBack
    <3>4. m \notin F
      <4>1. x # 0
        BY <1>0, <3>1, Fields DEF Objects
      <4> QED BY <3>1, <3>3, <4>1
    <3> QED BY <1>1, <3>1, <3>2, <3>3, <3>4
  <2> QED BY <2>1 DEF LinkedBack
<1>9. InOrder(v)
  BY <1>0, <1>1 DEF InOrder
<1>10. Held(v)
  <2>1. ASSUME NEW c \in Cards
        PROVE  \E x \in Objects(v) : Is1(v, c, x)
    <3>1. PICK x \in Objects(u) : Is1(u, c, x)
      BY <1>0 DEF Held
    <3>2. Obj(u, x).zone[1] # "garbage"
      <4>1. c \notin Tokens
        BY ZonesAssumption
      <4> QED BY <1>0, <3>1, <4>1 DEF TokensOnly, Is1
    <3>3. Is1(v, c, x)
      BY <1>1, <1>2, <3>1, <3>2 DEF Is1
    <3> QED BY <1>1, <3>3
  <2> QED BY <2>1 DEF Held
<1>11. FromElsewhere(v)
  BY <1>0, <1>1 DEF FromElsewhere
<1>12. TokensOnly(v)
  BY <1>0, <1>1 DEF TokensOnly
<1>13. Told(v)
  <2>1. Len(v.queue) = 0
    BY <1>1, EmptySeq
  <2>2. 1..Len(v.queue) = {}
    BY <2>1
  <2> QED BY <2>2 DEF Told
<1>14. Sound(v)
  BY <1>1, <1>4, <1>5, <1>6, <1>7, <1>8, <1>9, <1>10, <1>11, <1>12, <1>13 DEF Sound
<1>15. OldThings(u, v)
  BY <1>1 DEF OldThings
<1>16. Tidy(v)
  <2>1. \A p \in Player : v.zones[Z("temp", p)] = u.zones[Z("temp", p)]
    <3>1. TAKE p \in Player
    <3>2. PICK y \in Zone : y = Z("temp", p) /\ y[1] = "temp"
      BY ZoneFacts
    <3>3. v.zones[y] = u.zones[y]
      BY <1>1, <3>2
    <3> QED BY <3>2, <3>3
  <2> QED BY <1>0, <1>1, <1>15, <2>1, TidyQuiet DEF Quiet
<1>17. TokensTold(v, 0)
  <2>1. \A x \in Objects(v) : Departed(v, x) => x \in Objects(u) /\ Departed(u, x)
    BY <1>1, <1>2 DEF Departed
  <2> QED BY <1>1, <2>1 DEF AllWell, TokensTold
<1>18. Flagged(v, {})
  BY <1>1, <1>2 DEF AllWell, Flagged
<1> QED
  BY <1>1, <1>14, <1>15, <1>16, <1>17, <1>18 DEF AllWell

LEMMA NextTurnKeeps ==
  ASSUME IInv, NextTurn
  PROVE  IInv'
<1>1. PICK trash : trash = {o \in Objects(w) : \E p \in Player : Contains(w.zones[Z("garbage", p)], o)}
  OBVIOUS
<1>2. PICK F : F = UNION {Before(w, o) : o \in trash}
  OBVIOUS
<1>3. /\ w' = [w EXCEPT !.objs = [o \in Objects(w) |-> IF o \in F THEN [@[o] EXCEPT !.live = FALSE]
                                                      ELSE @[o]],
                        !.zones = [z \in Zone |-> IF z[1] = "garbage" THEN <<>> ELSE @[z]]]
      /\ aim' = aim /\ cleanup' \in BOOLEAN /\ sweeping = NoSweep /\ sweeping' = NoSweep
      /\ w.queue = <<>>
  BY <1>1, <1>2 DEF NextTurn, Idle
<1>4. AllWell(w) /\ Sound(w) /\ w \in World /\ Placed(w) /\ Found(w) /\ Tidy(w)
  BY DEF IInv, AllWell, Sound
<1>5. Swept1(w, w', F)
  BY <1>3, <1>4, SweptPut
<1>6. \A o \in Objects(w) : o \in trash <=> Current(w, o) /\ Obj(w, o).zone[1] = "garbage"
  <2>1. ASSUME NEW o \in Objects(w), o \in trash
        PROVE  Current(w, o) /\ Obj(w, o).zone[1] = "garbage"
    <3>1. PICK p \in Player : Contains(w.zones[Z("garbage", p)], o)
      BY <1>1, <2>1
    <3>2. PICK z \in Zone : z = Z("garbage", p) /\ z[1] = "garbage"
      BY ZoneFacts
    <3> QED BY <1>4, <3>1, <3>2 DEF Placed, Lies
  <2>2. ASSUME NEW o \in Objects(w), Current(w, o), Obj(w, o).zone[1] = "garbage"
        PROVE  o \in trash
    <3>1. PICK z \in Zone : z = Obj(w, o).zone /\ Lies(w, o, z) /\ z[1] = "garbage"
      BY <1>4, <2>2 DEF Found
    <3>2. z[2] \in Player /\ z = Z("garbage", z[2])
      BY <3>1, ZoneFacts
    <3> QED BY <1>1, <3>1, <3>2 DEF Lies
  <2> QED BY <2>1, <2>2
<1>7. trash \subseteq Objects(w)
  BY <1>1
<1>8. \A o \in trash :
        /\ Before(w, o) \subseteq Objects(w) /\ o \in Before(w, o)
        /\ \A x \in Before(w, o) : /\ Obj(w, x).previous \in Before(w, o) \cup {0}
                                   /\ x = o \/ Obj(w, x).next \in Before(w, o)
  BY <1>4, <1>6, <1>7, BeforeFacts
<1>9. F \subseteq Objects(w) /\ trash \subseteq F
  BY <1>2, <1>8
<1>10. \A x \in F : Obj(w, x).previous \in F \cup {0}
  BY <1>2, <1>8
<1>11. \A x \in F : x \in trash \/ Obj(w, x).next \in F
  BY <1>2, <1>8
<1>12. \A x \in F : Obj(w, x).next # 0 => Obj(w, x).next \in F
  BY <1>6, <1>7, <1>11 DEF Current
<1>13. \A x \in Objects(w) : Current(w, x) => (x \in F <=> Obj(w, x).zone[1] = "garbage")
  <2>1. \A x \in F : x # 0
    BY <1>4, <1>9, Fields DEF Objects
  <2> QED BY <1>6, <1>9, <1>11, <2>1 DEF Current
<1>14. AllWell(w') /\ OldThings(w, w') /\ w'.lastDrawn = w.lastDrawn
  BY <1>3, <1>4, <1>5, <1>9, <1>10, <1>12, <1>13, SweptKeeps
<1>15. DrawnIn(w')
  BY <1>14, StillSeen DEF IInv
<1> QED
  BY <1>3, <1>14, <1>15, Acted

-----------------------------------------------------------------------------
(* Shuffling a library.                                                    *)

(* The same objects in the same zones, in whatever order.                  *)
LEMMA SameLies ==
  ASSUME NEW u, Sound(u), NEW v \in World, v.objs = u.objs, v.queue = u.queue, v.lastDrawn = u.lastDrawn,
         Once(v), \A y \in Zone : \A x : Lies(v, x, y) <=> Lies(u, x, y)
  PROVE  Grown(u, v)
<1>0. /\ u \in World /\ Placed(u) /\ Once(u) /\ Found(u) /\ LinkedOn(u) /\ LinkedBack(u) /\ InOrder(u)
      /\ Held(u) /\ FromElsewhere(u) /\ TokensOnly(u) /\ Told(u)
  BY DEF Sound
<1>1. (\A x : Obj(v, x) = Obj(u, x)) /\ Objects(v) = Objects(u)
  BY DEF Obj, Objects
<1>2. \A x : Current(v, x) <=> Current(u, x)
  BY <1>1 DEF Current
<1>3. \A c, x : Is1(v, c, x) <=> Is1(u, c, x)
  BY <1>1, <1>2 DEF Is1
<1>4. Placed(v)
  BY <1>0, <1>1, <1>2 DEF Placed
<1>5. Found(v)
  BY <1>0, <1>1, <1>2 DEF Found
<1>6. LinkedOn(v)
  BY <1>0, <1>1 DEF LinkedOn
<1>7. LinkedBack(v) /\ InOrder(v)
  BY <1>0, <1>1 DEF LinkedBack, InOrder
<1>8. Held(v)
  BY <1>0, <1>1, <1>3 DEF Held
<1>9. FromElsewhere(v) /\ TokensOnly(v)
  BY <1>0, <1>1 DEF FromElsewhere, TokensOnly
<1>10. Told(v)
  <2>1. \A e : Honest(u, e) => Honest(v, e)
    BY <1>1 DEF Honest
  <2> QED BY <1>0, <2>1 DEF Told
<1>11. Sound(v)
  BY <1>4, <1>5, <1>6, <1>7, <1>8, <1>9, <1>10 DEF Sound
<1>12. OldThings(u, v)
  BY <1>1 DEF OldThings
<1>13. OldNews(u, v)
  <2>1. Len(u.queue) \in Nat
    BY <1>0, Fields, LenProperties
  <2> QED BY <2>1 DEF OldNews
<1>14. StillTold(u, v)
  <2>1. \A x : Departed(v, x) <=> Departed(u, x)
    BY <1>1, <1>2 DEF Departed
  <2>2. \A k : TokensTold(u, k) => TokensTold(v, k)
    BY <1>1, <2>1 DEF TokensTold
  <2>3. \A S : Flagged(u, S) => Flagged(v, S)
    BY <1>1, <1>2 DEF Flagged
  <2> QED BY <2>2, <2>3 DEF StillTold
<1> QED
  BY <1>11, <1>12, <1>13, <1>14 DEF Grown

(* An order of the cards of a sequence: they are the same cards.           *)
LEMMA Reordered ==
  ASSUME NEW s \in Seq(Nat), NEW q \in Orders(ToSet(s))
  PROVE  q \in Seq(Nat) /\ NoTwice(q) /\ \A x : Contains(q, x) <=> Contains(s, x)
<1>1. PICK S, m : S = ToSet(s) /\ m = Len(s)
  OBVIOUS
<1>2. m \in Nat /\ s \in [1..m -> Nat] /\ S = {s[i] : i \in 1..m}
  BY <1>1, LenProperties DEF ToSet
<1>3. IsFiniteSet(S)
  <2>1. s \in Surjection(1..m, S)
    BY <1>2 DEF Surjection
  <2>2. IsFiniteSet(1..m)
    BY <1>2, FS_Interval
  <2> QED BY <2>1, <2>2, FS_Surjection
<1>4. PICK n \in Nat : n = Cardinality(S)
  BY <1>3, FS_CardinalityType
<1>5. q \in [1..n -> S] /\ \A i, j \in 1..n : q[i] = q[j] => i = j
  BY <1>1, <1>4 DEF Orders
<1>6. q \in Seq(S) /\ Len(q) = n
  BY <1>5, Listed
<1>7. q \in Seq(Nat)
  <2>1. S \subseteq Nat
    BY <1>2
  <2> QED BY <1>6, <2>1, SeqMonotonic
<1>8. q \in Surjection(1..n, S)
  <2>1. q \in Injection(1..n, S)
    BY <1>5 DEF Injection, IsInjective
  <2>2. Cardinality(1..n) = n
    BY <1>4, FS_Interval
  <2> QED BY <1>3, <1>4, <2>1, <2>2, FS_Injection
<1>9. \A x : Contains(q, x) <=> x \in S
  BY <1>5, <1>6, <1>8 DEF Contains, Surjection
<1>10. \A x : Contains(s, x) <=> x \in S
  BY <1>1, <1>2 DEF Contains
<1> QED
  BY <1>5, <1>6, <1>7, <1>9, <1>10 DEF NoTwice

LEMMA LibraryReordered ==
  ASSUME NEW u, Sound(u), Tidy(u), NEW p \in Player, NEW lib \in Orders(ToSet(u.zones[Z("library", p)])),
         NEW v, v = [u EXCEPT !.zones[Z("library", p)] = lib]
  PROVE  Grown(u, v) /\ Tidy(v) /\ v.onTop = u.onTop
<1>0. u \in World /\ Once(u)
  BY DEF Sound
<1>1. PICK z \in Zone : z = Z("library", p) /\ z[1] = "library"
  BY ZoneFacts
<1>2. PICK s \in Seq(Nat) : s = u.zones[z]
  BY <1>0, Fields
<1>3. lib \in Seq(Nat) /\ NoTwice(lib) /\ \A x : Contains(lib, x) <=> Contains(s, x)
  BY <1>1, <1>2, Reordered
<1>4. PICK zs : zs = [u.zones EXCEPT ![z] = lib]
  OBVIOUS
<1>5. zs \in [Zone -> Seq(Nat)] /\ zs[z] = lib /\ \A y \in Zone : y # z => zs[y] = u.zones[y]
  <2>1. u.zones \in [Zone -> Seq(Nat)]
    BY <1>0, Fields
  <2> QED BY <1>3, <1>4, <2>1
<1>6. v = [u EXCEPT !.zones = zs]
  BY <1>0, <1>1, <1>4 DEF World
<1>7. /\ v \in World /\ v.objs = u.objs /\ v.zones = zs /\ v.onTop = u.onTop
      /\ v.lastDrawn = u.lastDrawn /\ v.queue = u.queue
  BY <1>0, <1>5, <1>6 DEF World
<1>8. Once(v)
  BY <1>0, <1>3, <1>5, <1>7 DEF Once
<1>9. \A y \in Zone : \A x : Lies(v, x, y) <=> Lies(u, x, y)
  <2>1. TAKE y \in Zone
  <2>2. CASE y = z
    BY <1>2, <1>3, <1>5, <1>7, <2>2 DEF Lies
  <2>3. CASE y # z
    BY <1>5, <1>7, <2>3 DEF Lies
  <2> QED BY <2>2, <2>3
<1>10. Grown(u, v)
  BY <1>7, <1>8, <1>9, SameLies
<1>11. \A q \in Player : v.zones[Z("temp", q)] = u.zones[Z("temp", q)]
  <2>1. TAKE q \in Player
  <2>2. PICK y \in Zone : y = Z("temp", q) /\ y[1] = "temp"
    BY ZoneFacts
  <2>3. v.zones[y] = u.zones[y]
    BY <1>1, <1>5, <1>7, <2>2
  <2> QED BY <2>2, <2>3
<1>12. OldThings(u, v) /\ Quiet(u, v)
  BY <1>7, <1>10, <1>11 DEF Grown, Quiet
<1>13. Tidy(v)
  BY <1>12, TidyQuiet
<1> QED
  BY <1>7, <1>10, <1>13

(* What is put on top, one after another: the first k have left temp.      *)
Stage(u, v, p, k) ==
  /\ Grown(u, v) /\ v.onTop = u.onTop
  /\ \A x : Lies(v, x, Z("temp", p)) <=> \E i \in 1..Len(u.onTop[p]) : i > k /\ u.onTop[p][i] = x
  /\ \A q \in Player : q # p => v.zones[Z("temp", q)] = u.zones[Z("temp", q)]

LEMMA StageFirst ==
  ASSUME NEW u, Sound(u), Tidy(u), NEW p \in Player
  PROVE  /\ Stage(u, u, p, 0) /\ NoTwice(u.onTop[p]) /\ u.onTop[p] \in Seq(Nat)
         /\ Len(u.onTop[p]) \in Nat
<1>0. u \in World /\ Once(u)
  BY DEF Sound
<1>1. PICK T \in Zone : T = Z("temp", p)
  BY ZoneFacts
<1>2. PICK s \in Seq(Nat) : s = u.zones[T] /\ s = u.onTop[p] /\ NoTwice(s) /\ Len(s) \in Nat
  <2>1. u.zones[T] = u.onTop[p] /\ NoTwice(u.zones[T])
    BY <1>0, <1>1 DEF Tidy, Waits, Once
  <2>2. u.zones[T] \in Seq(Nat)
    BY <1>0, Fields
  <2> QED BY <2>1, <2>2, LenProperties
<1>3. \A x : Lies(u, x, T) <=> \E i \in 1..Len(s) : i > 0 /\ s[i] = x
  BY <1>2 DEF Lies, Contains
<1>4. Grown(u, u)
  BY GrownNot
<1> QED
  BY <1>1, <1>2, <1>3, <1>4 DEF Stage

LEMMA StageNext ==
  ASSUME NEW u, Sound(u), NEW p \in Player, NoTwice(u.onTop[p]), NEW k \in Nat, NEW v, Stage(u, v, p, k),
         k + 1 \in 1..Len(u.onTop[p]),
         NEW y, y = Now1(v, u.onTop[p][k + 1], Z("temp", p), Z("library", p))
  PROVE  Stage(u, y, p, k + 1)
<1>1. PICK T \in Zone, L \in Zone : /\ T = Z("temp", p) /\ T[1] = "temp"
                                    /\ L = Z("library", p) /\ L[1] = "library"
  BY ZoneFacts
<1>2. PICK s, o : s = u.onTop[p] /\ o = s[k + 1]
  OBVIOUS
<1>3. /\ Grown(u, v) /\ v.onTop = u.onTop
      /\ \A x : Lies(v, x, T) <=> \E i \in 1..Len(s) : i > k /\ s[i] = x
      /\ \A q \in Player : q # p => v.zones[Z("temp", q)] = u.zones[Z("temp", q)]
  BY <1>1, <1>2 DEF Stage
<1>4. k + 1 \in 1..Len(s) /\ NoTwice(s) /\ k + 1 > k
  BY <1>2
<1>5. Lies(v, o, T)
  BY <1>2, <1>3, <1>4
<1>6. Sound(v) /\ v \in World /\ Once(v) /\ Placed(v) /\ InOrder(v) /\ LinkedBack(v)
  BY <1>3 DEF Grown, Sound
<1>7. Kind(T, L) = "comes"
  BY <1>1 DEF Kind
<1>8. Came(v, y, o, T, L)
  BY <1>1, <1>2, <1>5, <1>6, <1>7, PutCases
<1>9. Grown(u, y)
  <2>1. Grown(v, y)
    BY <1>1, <1>5, <1>6, <1>8, GrownCame
  <2> QED BY <1>3, <2>1, GrownTwice
<1>10. PICK m \in Nat : m = Made(v) /\ m \notin Objects(v)
  BY <1>5, <1>6, LyingThings
<1>11. Rezoned(v, y, o, T, m, L) /\ y.onTop = v.onTop
  BY <1>8, <1>10 DEF Came, Renewed
<1>12. T # L
  BY <1>1
<1>13. /\ \A z \in Zone : \A x : Lies(y, x, z) <=> \/ Lies(v, x, z) /\ ~ (x = o /\ z = T)
                                                   \/ x = m /\ z = L
       /\ \A z \in Zone : z # T /\ z # L => y.zones[z] = v.zones[z]
  BY <1>5, <1>6, <1>10, <1>11, ZoneMoves
<1>14. \A x : Lies(y, x, T) <=> Lies(v, x, T) /\ x # o
  BY <1>12, <1>13
<1>15. ASSUME NEW x
       PROVE  (\E i \in 1..Len(s) : i > k /\ s[i] = x) /\ x # o <=> \E i \in 1..Len(s) : i > k + 1 /\ s[i] = x
  <2>1. ASSUME NEW i \in 1..Len(s), i > k, s[i] = x, x # o
        PROVE  i > k + 1
    BY <1>2, <2>1
  <2>2. ASSUME NEW i \in 1..Len(s), i > k + 1, s[i] = x
        PROVE  i > k /\ x # o
    <3>1. i # k + 1
      BY <2>2
    <3>2. s[i] # s[k + 1]
      BY <1>4, <2>2, <3>1 DEF NoTwice
    <3> QED BY <1>2, <2>2, <3>2
  <2> QED BY <2>1, <2>2
<1>16. \A x : Lies(y, x, T) <=> \E i \in 1..Len(s) : i > k + 1 /\ s[i] = x
  BY <1>3, <1>14, <1>15
<1>17. ASSUME NEW q \in Player, q # p
       PROVE  y.zones[Z("temp", q)] = u.zones[Z("temp", q)]
  <2>1. PICK z \in Zone : z = Z("temp", q) /\ z[1] = "temp" /\ z[2] = q
    BY ZoneFacts
  <2>2. z # T /\ z # L
    <3>1. T[2] = p
      BY <1>1, ZoneFacts
    <3> QED BY <1>1, <1>17, <2>1, <3>1
  <2> QED BY <1>3, <1>13, <1>17, <2>1, <2>2
<1> QED
  BY <1>1, <1>2, <1>3, <1>9, <1>11, <1>16, <1>17 DEF Stage

(* All of it, step by step.                                                *)
Stepwise(a, s, T, L, f) ==
  f = [n \in 0..Len(s) |-> IF n = 0 THEN a ELSE PutInZone(f[n - 1], s[n], T, L).u]

LEMMA StepsExist ==
  ASSUME NEW s, Len(s) \in Nat, NEW a, NEW T, NEW L
  PROVE  \E f : Stepwise(a, s, T, L, f)
<1> DEFINE Upto(m, f) == f = [n \in 0..m |-> IF n = 0 THEN a ELSE PutInZone(f[n - 1], s[n], T, L).u]
           M == {m \in Nat : \E f : Upto(m, f)}
<1>1. 0 \in M
  <2> DEFINE f == [n \in 0..0 |-> a]
  <2>1. f = [n \in 0..0 |-> IF n = 0 THEN a ELSE PutInZone(f[n - 1], s[n], T, L).u]
    OBVIOUS
  <2> HIDE DEF f
  <2> QED BY <2>1
<1>2. ASSUME NEW m \in Nat, m \in M
      PROVE  m + 1 \in M
  <2>1. PICK g : Upto(m, g)
    BY <1>2
  <2>2. PICK y : y = PutInZone(g[m], s[m + 1], T, L).u
    OBVIOUS
  <2> DEFINE f == [n \in 0..m + 1 |-> IF n = m + 1 THEN y ELSE g[n]]
  <2>3. ASSUME NEW n \in 0..m + 1
        PROVE  f[n] = IF n = 0 THEN a ELSE PutInZone(f[n - 1], s[n], T, L).u
    <3>1. CASE n = m + 1
      <4>1. n # 0 /\ n - 1 = m /\ m \in 0..m + 1 /\ m # m + 1
        BY <3>1
      <4>2. f[n] = y /\ f[n - 1] = g[m]
        BY <3>1, <4>1
      <4> QED BY <2>2, <3>1, <4>1, <4>2
    <3>2. CASE n # m + 1
      <4>1. n \in 0..m /\ f[n] = g[n] /\ (n # 0 => n - 1 \in 0..m + 1 /\ n - 1 # m + 1)
        BY <3>2
      <4>2. n # 0 => f[n - 1] = g[n - 1]
        BY <4>1
      <4>3. g[n] = IF n = 0 THEN a ELSE PutInZone(g[n - 1], s[n], T, L).u
        BY <2>1, <4>1
      <4> QED BY <4>1, <4>2, <4>3
    <3> QED BY <3>1, <3>2
  <2>4. DOMAIN f = 0..m + 1 /\ f = [n \in 0..m + 1 |-> f[n]]
    OBVIOUS
  <2> HIDE DEF f
  <2>5. Upto(m + 1, f)
    BY <2>3, <2>4
  <2> QED BY <2>5, SMTT(60)
<1>3. Nat \subseteq M
  <2> HIDE DEF M
  <2> QED BY <1>1, <1>2, CountUp
<1> QED
  BY <1>3 DEF Stepwise

LEMMA ShuffledKeeps ==
  ASSUME NEW u, AllWell(u), NEW p \in Player, NEW f,
         Stepwise(u, u.onTop[p], Z("temp", p), Z("library", p), f),
         NEW v, v = [f[Len(u.onTop[p])] EXCEPT !.onTop[p] = <<>>]
  PROVE  AllWell(v) /\ OldThings(u, v) /\ v.lastDrawn = u.lastDrawn
<1>0. Sound(u) /\ Tidy(u) /\ TokensTold(u, 0) /\ Flagged(u, {}) /\ u \in World
  BY DEF AllWell, Sound
<1>1. PICK s : s = u.onTop[p]
  OBVIOUS
<1>2. Stage(u, u, p, 0) /\ NoTwice(s) /\ s \in Seq(Nat) /\ Len(s) \in Nat
  BY <1>0, <1>1, StageFirst
<1>3. \A n \in 0..Len(s) : f[n] = IF n = 0 THEN u ELSE Now1(f[n - 1], s[n], Z("temp", p), Z("library", p))
  BY <1>1 DEF Stepwise, Now1
<1>4. PICK M : M = {k \in Nat : k <= Len(s) => Stage(u, f[k], p, k)}
  OBVIOUS
<1>5. 0 \in M
  <2>1. f[0] = u
    BY <1>2, <1>3
  <2> QED BY <1>2, <1>4, <2>1
<1>6. \A k \in Nat : k \in M => k + 1 \in M
  <2>1. ASSUME NEW k \in Nat, k \in M, k + 1 <= Len(s)
        PROVE  Stage(u, f[k + 1], p, k + 1)
    <3>1. Stage(u, f[k], p, k)
      BY <1>2, <1>4, <2>1
    <3>2. k + 1 \in 0..Len(s) /\ k + 1 \in 1..Len(s) /\ k + 1 # 0 /\ (k + 1) - 1 = k
      BY <1>2, <2>1
    <3>3. f[k + 1] = Now1(f[k], s[k + 1], Z("temp", p), Z("library", p))
      BY <1>3, <3>2
    <3> QED BY <1>0, <1>1, <1>2, <3>1, <3>2, <3>3, StageNext
  <2> QED BY <1>4, <2>1
<1>7. PICK y : y = f[Len(s)] /\ Stage(u, y, p, Len(s))
  <2>1. Len(s) \in M
    BY <1>2, <1>5, <1>6, CountUp
  <2> QED BY <1>2, <1>4, <2>1
<1>8. PICK T \in Zone : T = Z("temp", p)
  BY ZoneFacts
<1>9. /\ Grown(u, y) /\ y.onTop = u.onTop
      /\ \A x : Lies(y, x, T) <=> \E i \in 1..Len(s) : i > Len(s) /\ s[i] = x
      /\ \A q \in Player : q # p => y.zones[Z("temp", q)] = u.zones[Z("temp", q)]
  BY <1>1, <1>7, <1>8 DEF Stage
<1>10. Sound(y) /\ y \in World /\ OldThings(u, y) /\ y.lastDrawn = u.lastDrawn
  BY <1>9 DEF Grown, Sound
<1>11. y.zones[T] = <<>>
  <2>1. PICK z \in Seq(Nat) : z = y.zones[T]
    BY <1>10, Fields
  <2>2. \A x : ~ Contains(z, x)
    BY <1>2, <1>9, <2>1 DEF Lies
  <2>3. ASSUME z # <<>> PROVE FALSE
    <3>1. 1 \in 1..Len(z)
      BY <2>3, EmptySeq
    <3>2. Contains(z, z[1])
      BY <3>1 DEF Contains
    <3> QED BY <2>2, <3>2
  <2> QED BY <2>1, <2>3
<1>12. PICK t : t = [y.onTop EXCEPT ![p] = <<>>]
  OBVIOUS
<1>13. t \in [Player -> Seq(Nat)] /\ t[p] = <<>> /\ \A q \in Player : q # p => t[q] = y.onTop[q]
  <2>1. y.onTop \in [Player -> Seq(Nat)] /\ <<>> \in Seq(Nat)
    BY <1>10, Fields, EmptySeq
  <2> QED BY <1>12, <2>1
<1>14. v = [y EXCEPT !.onTop = t]
  BY <1>1, <1>7, <1>10, <1>12 DEF World
<1>15. /\ v \in World /\ v.objs = y.objs /\ v.zones = y.zones /\ v.onTop = t
       /\ v.lastDrawn = y.lastDrawn /\ v.queue = y.queue
  BY <1>10, <1>13, <1>14 DEF World
<1>16. Grown(y, v)
  <2>1. Once(v)
    BY <1>10, <1>15 DEF Sound, Once
  <2>2. \A z \in Zone : \A x : Lies(v, x, z) <=> Lies(y, x, z)
    BY <1>15 DEF Lies
  <2> QED BY <1>10, <1>15, <2>1, <2>2, SameLies
<1>17. Grown(u, v)
  BY <1>0, <1>9, <1>16, GrownTwice
<1>18. Waits(v)
  <2>1. ASSUME NEW q \in Player
        PROVE  v.zones[Z("temp", q)] = v.onTop[q]
    <3>1. CASE q = p
      BY <1>8, <1>11, <1>13, <1>15, <3>1
    <3>2. CASE q # p
      <4>1. u.zones[Z("temp", q)] = u.onTop[q]
        BY <1>0 DEF Tidy, Waits
      <4> QED BY <1>9, <1>13, <1>15, <3>2, <4>1
    <3> QED BY <3>1, <3>2
  <2> QED BY <2>1 DEF Waits
<1>19. NoTokenWaits(v)
  <2>1. ASSUME NEW q \in Player, NEW i \in 1..Len(v.onTop[q])
        PROVE  v.onTop[q][i] \in Objects(v) /\ Obj(v, v.onTop[q][i]).card \in Cards
    <3>1. CASE q = p
      <4>1. v.onTop[q] = <<>>
        BY <1>13, <1>15, <3>1
      <4>2. Len(v.onTop[q]) = 0
        BY <4>1, EmptySeq
      <4>3. 1..Len(v.onTop[q]) = {}
        BY <4>2
      <4> QED BY <4>3
    <3>2. CASE q # p
      <4>1. v.onTop[q] = u.onTop[q]
        BY <1>9, <1>13, <1>15, <3>2
      <4>2. PICK x : x = u.onTop[q][i]
        OBVIOUS
      <4>3. x \in Objects(u) /\ Obj(u, x).card \in Cards
        BY <1>0, <4>1, <4>2 DEF Tidy, NoTokenWaits
      <4> QED BY <1>17, <4>1, <4>2, <4>3 DEF Grown, OldThings
    <3> QED BY <3>1, <3>2
  <2> QED BY <2>1 DEF NoTokenWaits
<1>20. AllWell(v)
  BY <1>17, <1>18, <1>19, GrownWell DEF Tidy
<1> QED
  BY <1>17, <1>20 DEF Grown

LEMMA StepsChosen ==
  ASSUME NEW s, Len(s) \in Nat, NEW a, NEW T, NEW L
  PROVE  Stepwise(a, s, T, L, CHOOSE g : g = [n \in 0..Len(s) |-> IF n = 0 THEN a ELSE PutInZone(g[n - 1], s[n], T, L).u])
<1>1. \E f : Stepwise(a, s, T, L, f)
  BY StepsExist
<1>2. \E g : g = [n \in 0..Len(s) |-> IF n = 0 THEN a ELSE PutInZone(g[n - 1], s[n], T, L).u]
  BY <1>1 DEF Stepwise
<1> QED
  BY <1>2 DEF Stepwise

LEMMA ShuffleKeeps ==
  ASSUME IInv, NEW p \in Player, NEW lib \in Libraries(p), Shuffle(p, lib)
  PROVE  IInv'
<1>1. PICK u : u = [w EXCEPT !.zones[Z("library", p)] = lib]
  OBVIOUS
<1>2. PICK f : f = CHOOSE g : g = [n \in 0..Len(w.onTop[p]) |->
                      IF n = 0 THEN [w EXCEPT !.zones[Z("library", p)] = lib]
                      ELSE PutInZone(g[n - 1], w.onTop[p][n], Z("temp", p), Z("library", p)).u]
  OBVIOUS
<1>3. w' = [f[Len(w.onTop[p])] EXCEPT !.onTop[p] = <<>>]
  BY <1>2 DEF Shuffle
<1>4. /\ aim' = aim
      /\ sweeping = NoSweep /\ sweeping' = NoSweep /\ cleanup' \in BOOLEAN
  <2>1. Shuffle(p, lib) => aim' = aim /\ sweeping = NoSweep /\ sweeping' = sweeping /\ cleanup' = cleanup
    BY DEF Shuffle, Act, Idle
  <2> QED BY <2>1 DEF IInv
<1>5. AllWell(w) /\ Sound(w) /\ Tidy(w) /\ w \in World
  BY DEF IInv, AllWell, Sound
<1>6. Grown(w, u) /\ Tidy(u) /\ u.onTop = w.onTop
  <2>1. lib \in Orders(ToSet(w.zones[Z("library", p)]))
    BY DEF Libraries
  <2> QED BY <1>1, <1>5, <2>1, LibraryReordered
<1>7. AllWell(u)
  BY <1>5, <1>6, GrownWell
<1>8. Stepwise(u, u.onTop[p], Z("temp", p), Z("library", p), f)
  <2>1. Len(w.onTop[p]) \in Nat
    BY <1>5, StageFirst
  <2>2. Stepwise([w EXCEPT !.zones[Z("library", p)] = lib], w.onTop[p], Z("temp", p), Z("library", p), f)
    BY <1>2, <2>1, StepsChosen, SMTT(20), ZenonT(60)
  <2> QED BY <1>1, <1>6, <2>2
<1>9. PICK v : v = [f[Len(u.onTop[p])] EXCEPT !.onTop[p] = <<>>]
  OBVIOUS
<1>10. AllWell(v) /\ OldThings(u, v) /\ v.lastDrawn = u.lastDrawn
  BY <1>7, <1>8, <1>9, ShuffledKeeps
<1>11. v = w'
  BY <1>3, <1>6, <1>9
<1>12. OldThings(w, w') /\ w'.lastDrawn = w.lastDrawn /\ AllWell(w')
  <2>1. OldThings(w, v) /\ v.lastDrawn = w.lastDrawn
    BY <1>6, <1>10 DEF Grown, OldThings
  <2> QED BY <1>10, <1>11, <2>1
<1>13. DrawnIn(w')
  BY <1>12, StillSeen DEF IInv
<1> QED
  BY <1>4, <1>12, <1>13, Acted

-----------------------------------------------------------------------------
(* The beginning.                                                          *)

(* The sequence of a set has each member once.                             *)
LEMMA SetListed ==
  ASSUME NEW S, IsFiniteSet(S)
  PROVE  /\ Cardinality(S) \in Nat /\ SetToSeq(S) \in [1..Cardinality(S) -> S]
         /\ SetToSeq(S) \in Seq(S) /\ Len(SetToSeq(S)) = Cardinality(S)
         /\ NoTwice(SetToSeq(S)) /\ \A x : Contains(SetToSeq(S), x) <=> x \in S
<1>1. PICK n \in Nat : n = Cardinality(S) /\ ExistsBijection(1..n, S)
  BY FS_CardinalityType
<1>2. PICK g \in [1..n -> S] : IsInjective(g)
  BY <1>1 DEF ExistsBijection, Bijection, Injection
<1>3. PICK f : f = SetToSeq(S)
  OBVIOUS
<1>4. f \in [1..n -> S] /\ IsInjective(f)
  <2>1. f = CHOOSE h \in [1..n -> S] : IsInjective(h)
    BY <1>1, <1>3 DEF SetToSeq
  <2> QED BY <1>2, <2>1
<1>5. f \in Seq(S) /\ Len(f) = n
  BY <1>4, Listed
<1>6. NoTwice(f)
  BY <1>4, <1>5 DEF IsInjective, NoTwice
<1>7. \A x \in S : \E i \in 1..n : f[i] = x
  <2>1. IsFiniteSet(1..n) /\ Cardinality(1..n) = n
    BY FS_Interval
  <2>2. f \in Injection(1..n, S)
    BY <1>4 DEF Injection
  <2>3. f \in Surjection(1..n, S)
    BY <1>1, <2>1, <2>2, FS_Injection
  <2> QED BY <2>3 DEF Surjection
<1>8. \A x : Contains(f, x) <=> x \in S
  <2>1. \A x : Contains(f, x) <=> \E i \in 1..n : f[i] = x
    BY <1>5 DEF Contains
  <2> QED BY <1>4, <1>7, <2>1
<1> QED
  BY <1>1, <1>3, <1>4, <1>5, <1>6, <1>8

(* A card of the deck.                                                     *)
Dealt(c, z) == [NewObject(c, FALSE) EXCEPT !.zone = z]

LEMMA DealtFacts ==
  ASSUME NEW c \in AnyCard, NEW z \in Zone
  PROVE  /\ Dealt(c, z) \in Thing /\ Dealt(c, z).card = c /\ Dealt(c, z).zone = z
         /\ Dealt(c, z).previous = 0 /\ Dealt(c, z).next = 0 /\ Dealt(c, z).live /\ ~ Dealt(c, z).token
<1>1. PICK b \in BOOLEAN : b = FALSE
  OBVIOUS
<1>2. PICK k \in Thing : /\ k = NewObject(c, b) /\ k.card = c /\ k.token = b /\ k.live = TRUE
                         /\ k.next = 0 /\ k.previous = 0
  BY NewThing
<1>3. Dealt(c, z) = Zoned(k, z)
  BY <1>1, <1>2 DEF Dealt, Zoned
<1>4. z \in Place
  BY ZoneFacts
<1>5. /\ Zoned(k, z) \in Thing /\ SameCard(k, Zoned(k, z)) /\ Zoned(k, z).zone = z
      /\ Zoned(k, z).previous = k.previous /\ Zoned(k, z).next = k.next /\ Zoned(k, z).live = k.live
  BY <1>4, ThingsEdited
<1> QED
  BY <1>1, <1>2, <1>3, <1>5 DEF SameCard

LEMMA StartFacts ==
  ASSUME NEW start \in Starts, NEW u, u = Start(start)
  PROVE  AllWell(u) /\ DrawnIn(u)
<1>1. PICK n \in Nat, d \in Seq(Cards) :
         /\ d = SetToSeq(Cards) /\ d \in [1..n -> Cards] /\ Len(d) = n
         /\ (\A i, j \in 1..n : d[i] = d[j] => i = j) /\ \A c \in Cards : \E i \in 1..n : d[i] = c
  <2>1. IsFiniteSet(Cards)
    BY ZonesAssumption, FS_Subset
  <2>2. PICK d, n : d = SetToSeq(Cards) /\ n = Cardinality(Cards)
    OBVIOUS
  <2>3. n \in Nat /\ d \in [1..n -> Cards] /\ Len(d) = n /\ NoTwice(d) /\ d \in Seq(Cards)
        /\ \A x : Contains(d, x) <=> x \in Cards
    BY <2>1, <2>2, SetListed
  <2>4. \A c \in Cards : \E i \in 1..n : d[i] = c
    BY <2>3 DEF Contains
  <2>5. \A i, j \in 1..n : d[i] = d[j] => i = j
    BY <2>3 DEF NoTwice
  <2> QED BY <2>2, <2>3, <2>4, <2>5
<1>2. PICK H \in [Cards -> Zone] :
         \A c \in Cards : /\ H[c] = Z(start[c], Owner[c])
                          /\ H[c][1] \in {"library", "hand", "inPlay", "graveyard"}
  <2>1. \A c \in Cards : /\ start[c] \in {"library", "hand", "inPlay", "graveyard"}
                         /\ Owner[c] \in Player
    BY ZonesAssumption
  <2>2. \A c \in Cards : Z(start[c], Owner[c]) \in Zone /\ Z(start[c], Owner[c])[1] = start[c]
    BY <2>1, ZoneFacts
  <2>3. PICK H : H = [c \in Cards |-> Z(start[c], Owner[c])]
    OBVIOUS
  <2>4. H \in [Cards -> Zone] /\ \A c \in Cards : H[c] = Z(start[c], Owner[c]) /\ H[c][1] = start[c]
    BY <2>2, <2>3
  <2> QED BY <2>1, <2>4
<1>3. PICK os : os = [i \in DOMAIN d |-> [NewObject(d[i], FALSE) EXCEPT !.zone = Z(start[d[i]], Owner[d[i]])]]
  OBVIOUS
<1>4. PICK zs : zs = [z \in Zone |-> SetToSeq({i \in DOMAIN d : Z(start[d[i]], Owner[d[i]]) = z})]
  OBVIOUS
<1>5. u = [objs |-> os, zones |-> zs, onTop |-> [p \in Player |-> <<>>],
           lastDrawn |-> [p \in Player |-> 0], queue |-> <<>>]
  BY <1>1, <1>3, <1>4 DEF Start
<1>6. os \in Seq(Thing) /\ Len(os) = n /\ \A i \in 1..n : os[i] = Dealt(d[i], H[d[i]])
  <2>1. \A i \in 1..n : os[i] = Dealt(d[i], Z(start[d[i]], Owner[d[i]]))
    BY <1>1, <1>3 DEF Dealt
  <2>2. \A i \in 1..n : os[i] = Dealt(d[i], H[d[i]])
    BY <1>1, <1>2, <2>1
  <2>3. \A i \in 1..n : d[i] \in AnyCard /\ H[d[i]] \in Zone
    BY <1>1, <1>2 DEF AnyCard
  <2>4. \A i \in 1..n : os[i] \in Thing
    BY <2>2, <2>3, DealtFacts
  <2>5. os \in [1..n -> Thing]
    BY <1>1, <1>3, <2>4
  <2> QED BY <2>2, <2>5, Listed
<1>7. \A i \in 1..n : /\ os[i].card = d[i] /\ os[i].zone = H[d[i]] /\ os[i].previous = 0
                      /\ os[i].next = 0 /\ os[i].live /\ ~ os[i].token
  <2>1. \A i \in 1..n : d[i] \in AnyCard /\ H[d[i]] \in Zone
    BY <1>1, <1>2 DEF AnyCard
  <2> QED BY <1>6, <2>1, DealtFacts
<1>8. \A z \in Zone : /\ zs[z] \in Seq(Nat) /\ NoTwice(zs[z])
                      /\ \A x : Contains(zs[z], x) <=> x \in 1..n /\ H[d[x]] = z
  <2>1. ASSUME NEW z \in Zone
        PROVE  /\ zs[z] \in Seq(Nat) /\ NoTwice(zs[z])
               /\ \A x : Contains(zs[z], x) <=> x \in 1..n /\ H[d[x]] = z
    <3>1. PICK S : S = {i \in DOMAIN d : Z(start[d[i]], Owner[d[i]]) = z}
      OBVIOUS
    <3>2. \A x : x \in S <=> x \in 1..n /\ H[d[x]] = z
      BY <1>1, <1>2, <3>1
    <3>3. IsFiniteSet(S)
      <4>1. S \in SUBSET (1..n)
        BY <3>2
      <4>2. IsFiniteSet(1..n)
        BY FS_Interval
      <4> QED BY <4>1, <4>2, FS_Subset
    <3>4. SetToSeq(S) \in Seq(S) /\ NoTwice(SetToSeq(S)) /\ \A x : Contains(SetToSeq(S), x) <=> x \in S
      BY <3>3, SetListed
    <3>5. zs[z] = SetToSeq(S)
      BY <1>4, <3>1
    <3>6. Seq(S) \subseteq Seq(Nat)
      BY <3>2
    <3> QED BY <3>2, <3>4, <3>5, <3>6
  <2> QED BY <2>1
<1>9. zs \in [Zone -> Seq(Nat)]
  BY <1>4, <1>8
<1>10. u.objs = os /\ u.zones = zs /\ u.queue = <<>> /\ Objects(u) = 1..n /\ \A x : Obj(u, x) = os[x]
  BY <1>5, <1>6 DEF Objects, Obj
<1>11. \A p \in Player : u.onTop[p] = <<>> /\ u.lastDrawn[p] = 0
  BY <1>5
<1>12. u \in World
  <2>1. <<>> \in Seq(Nat) /\ <<>> \in Seq(News)
    BY EmptySeq
  <2> QED BY <1>5, <1>6, <1>9, <2>1 DEF World
<1>13. \A x \in Objects(u) : Current(u, x) /\ Obj(u, x).card \in Cards
  BY <1>1, <1>7, <1>10 DEF Current
<1>14. \A x, z : z \in Zone => (Lies(u, x, z) <=> x \in 1..n /\ H[d[x]] = z)
  BY <1>8, <1>10 DEF Lies
<1>15. Placed(u) /\ Found(u)
  <2>1. \A x \in 1..n : H[d[x]] \in Zone
    BY <1>1, <1>2
  <2>2. Placed(u)
    BY <1>7, <1>10, <1>13, <1>14 DEF Placed
  <2>3. Found(u)
    BY <1>7, <1>10, <1>14, <2>1 DEF Found
  <2> QED BY <2>2, <2>3
<1>16. Once(u)
  BY <1>8, <1>10 DEF Once
<1>17. LinkedOn(u) /\ LinkedBack(u) /\ InOrder(u)
  <2>1. \A x \in Objects(u) : Obj(u, x).next = 0 /\ Obj(u, x).previous = 0
    BY <1>7, <1>10
  <2>2. \A x \in Objects(u) : x \in Nat /\ 0 < x /\ 0 <= Len(u.objs)
    BY <1>6, <1>10
  <2> QED BY <2>1, <2>2 DEF LinkedOn, LinkedBack, InOrder
<1>18. Held(u)
  <2>1. ASSUME NEW c \in Cards
        PROVE  \E x \in Objects(u) : Is1(u, c, x)
    <3>1. PICK x \in 1..n : d[x] = c
      BY <1>1
    <3>2. Obj(u, x).card = c /\ \A y \in Objects(u) : Obj(u, y).card = c => y = x
      BY <1>1, <1>7, <1>10, <3>1
    <3> QED BY <1>10, <1>13, <3>1, <3>2 DEF Is1
  <2> QED BY <2>1 DEF Held
<1>19. FromElsewhere(u) /\ TokensOnly(u)
  <2>1. \A x \in Objects(u) : /\ Obj(u, x).zone[1] \in {"library", "hand", "inPlay", "graveyard"}
                              /\ ~ Obj(u, x).token
    BY <1>1, <1>2, <1>7, <1>10
  <2> QED BY <2>1 DEF FromElsewhere, TokensOnly
<1>20. Told(u)
  <2>1. Len(u.queue) = 0
    BY <1>10, EmptySeq
  <2>2. \A i : i \notin 1..0
    OBVIOUS
  <2> QED BY <2>1, <2>2 DEF Told
<1>21. Sound(u)
  BY <1>12, <1>15, <1>16, <1>17, <1>18, <1>19, <1>20 DEF Sound
<1>22. Tidy(u)
  <2>1. ASSUME NEW p \in Player
        PROVE  u.zones[Z("temp", p)] = u.onTop[p]
    <3>1. PICK T \in Zone : T = Z("temp", p) /\ T[1] = "temp"
      BY ZoneFacts
    <3>2. \A x : ~ Contains(zs[T], x)
      <4>1. \A x \in 1..n : H[d[x]][1] # "temp"
        BY <1>1, <1>2
      <4> QED BY <1>8, <3>1, <4>1
    <3>3. PICK z \in Seq(Nat) : z = zs[T]
      BY <1>8, <3>1
    <3>4. ASSUME z # <<>> PROVE FALSE
      <4>1. 1 \in 1..Len(z)
        BY <3>4, EmptySeq
      <4> QED BY <3>2, <3>3, <4>1 DEF Contains
    <3> QED BY <1>10, <1>11, <3>1, <3>3, <3>4
  <2>2. ASSUME NEW p \in Player, NEW i \in 1..Len(u.onTop[p])
        PROVE  FALSE
    <3>1. Len(u.onTop[p]) = 0
      BY <1>11, EmptySeq
    <3>2. i \in 1..0
      BY <3>1, <2>2
    <3> QED BY <3>2
  <2> QED BY <2>1, <2>2 DEF Tidy, Waits, NoTokenWaits
<1>23. TokensTold(u, 0) /\ Flagged(u, {})
  <2>1. \A x \in Objects(u) : Obj(u, x).card \notin Tokens
    BY <1>13, ZonesAssumption
  <2> QED BY <2>1 DEF TokensTold, Departed, Flagged
<1> QED
  BY <1>11, <1>21, <1>22, <1>23 DEF AllWell, DrawnIn

LEMMA InitKeeps == Init => IInv
<1> SUFFICES ASSUME Init PROVE IInv
  OBVIOUS
<1>1. AllWell(w) /\ DrawnIn(w)
  BY StartFacts DEF Init
<1>2. AimedAt(w, aim)
  BY AimedAtNone DEF Init
<1>3. Sweeps(sweeping) /\ InBounds(w, sweeping) /\ cleanup \in BOOLEAN
  BY DEF Init, Sweeps, InBounds, NoSweep
<1> QED
  BY <1>1, <1>2, <1>3 DEF IInv

-----------------------------------------------------------------------------
(* The theorems.                                                           *)

(* Whatever the game does keeps the inductive invariant: moves, the rules  *)
(* that hear of them, and gameStateBasedEffects() while cards leave.       *)
LEMMA Inductive == IInv /\ [Next]_vars => IInv'
<1> SUFFICES ASSUME IInv, [Next]_vars PROVE IInv'
  OBVIOUS
<1>1. CASE HandleEvent
  BY <1>1, HandleEventKeeps
<1>2. CASE EnterCleanup
  BY <1>2, EnterCleanupKeeps
<1>3. CASE NextTurn
  BY <1>3, NextTurnKeeps
<1>4. CASE Begin
  BY <1>4, BeginKeeps
<1>5. CASE StateOf
  BY <1>5, StateOfKeeps
<1>6. CASE EndOf
  BY <1>6, EndOfKeeps
<1>7. CASE EndNext
  BY <1>7, EndNextKeeps
<1>8. CASE Passed
  BY <1>8, PassedKeeps
<1>9. ASSUME NEW p \in Player, Draw(p) PROVE IInv'
  BY <1>9, DrawKeeps
<1>10. ASSUME NEW p \in Player, Ring(p) PROVE IInv'
  BY <1>10, RingKeeps
<1>11. ASSUME NEW p \in Player, NEW lib \in Libraries(p), Shuffle(p, lib) PROVE IInv'
  BY <1>11, ShuffleKeeps
<1>12. ASSUME NEW t \in Tokens, NEW p \in Player, MakeToken(t, p) PROVE IInv'
  BY <1>12, MakeTokenKeeps
<1>13. ASSUME NEW o \in Objects(w), Resolve(o) PROVE IInv'
  BY <1>13, ResolveKeeps
<1>14. ASSUME NEW o \in Objects(w), Aim(o) PROVE IInv'
  BY <1>14, AimKeeps
<1>15. ASSUME NEW o \in Objects(w), Hurt(o) PROVE IInv'
  BY <1>15, HurtKeeps
<1>16. ASSUME NEW o \in Objects(w), NEW t \in {0} \cup Objects(w), Cast(o, t) PROVE IInv'
  BY <1>16, CastKeeps
<1>17. ASSUME NEW o \in Objects(w), NEW name \in {"library", "hand", "graveyard"}, Move(o, name)
       PROVE  IInv'
  BY <1>17, MoveKeeps
<1>18. ASSUME NEW o \in Objects(w), NEW p \in Player, NEW unearthed \in BOOLEAN,
              MoveIntoPlay(o, p, unearthed)
       PROVE  IInv'
  BY <1>18, MoveIntoPlayKeeps
<1>19. ASSUME NEW o1 \in Objects(w), NEW o2 \in Objects(w), DieTogether(o1, o2) PROVE IInv'
  BY <1>19, DieTogetherKeeps
<1>20. CASE UNCHANGED vars
  <2>1. w' = w /\ aim' = aim /\ cleanup' = cleanup /\ sweeping' = sweeping
    BY <1>20 DEF vars
  <2> QED BY <2>1 DEF IInv
<1> QED
  BY <1>1, <1>2, <1>3, <1>4, <1>5, <1>6, <1>7, <1>8, <1>9, <1>10, <1>11, <1>12, <1>13, <1>14, <1>15,
     <1>16, <1>17, <1>18, <1>19, <1>20 DEF Next

(* The zones and the objects are always in order: MTGPlayerCards::         *)
(* putInZone(), whoever calls it, leaves next and previous inverse, each   *)
(* zone without a card twice, and every waiting event honest.              *)
THEOREM Invariant == Spec => []IInv
<1>1. Init => IInv
  BY InitKeeps
<1>2. IInv /\ [Next]_vars => IInv'
  BY Inductive
<1> QED
  BY <1>1, <1>2, PTL DEF Spec

(* A sequence without repetition of the first n numbers is no longer.      *)
LEMMA NoLonger1 ==
  ASSUME NEW n \in Nat, NEW s \in Seq(Nat), NoTwice(s), \A x : Contains(s, x) => x \in 1..n
  PROVE  s \in Seq(1..n) /\ Len(s) <= n
<1>1. PICK m \in Nat : m = Len(s)
  BY LenProperties
<1>2. s \in [1..m -> 1..n]
  <2>1. \A i \in 1..m : s[i] \in 1..n
    BY <1>1 DEF Contains
  <2>2. s \in [1..m -> Nat]
    BY <1>1, SeqDef, LenProperties
  <2> QED BY <2>1, <2>2
<1>3. s \in Seq(1..n)
  BY <1>2, Listed
<1>4. s \in Injection(1..m, 1..n)
  BY <1>1, <1>2 DEF Injection, IsInjective, NoTwice
<1>5. /\ IsFiniteSet(1..n) /\ Cardinality(1..n) = n /\ Cardinality(1..m) = m
  BY FS_Interval
<1>6. Cardinality(1..m) <= Cardinality(1..n)
  BY <1>4, <1>5, FS_Injection
<1> QED
  BY <1>1, <1>3, <1>5, <1>6

(* Where the card of an object lies.                                       *)
LEMMA TypeCorrect == IInv => TypeOK
<1> SUFFICES ASSUME IInv PROVE TypeOK
  OBVIOUS
<1>1. Sound(w) /\ w \in World /\ Placed(w) /\ Once(w) /\ InOrder(w)
  BY DEF IInv, AllWell, Sound
<1>2. Len(w.objs) \in Nat /\ Objects(w) = 1..Len(w.objs)
  BY <1>1, Fields DEF Objects
<1>3. ASSUME NEW o \in Objects(w)
      PROVE  /\ Obj(w, o).zone \in Zone \cup {None}
             /\ {Obj(w, o).previous, Obj(w, o).next} \subseteq {0} \cup Objects(w)
  <2>1. Obj(w, o) \in Thing
    BY <1>1, Fields
  <2>2. Obj(w, o).zone \in Place /\ Obj(w, o).previous \in Nat /\ Obj(w, o).next \in Nat
    BY <2>1 DEF Thing
  <2>3. Obj(w, o).previous < o /\ Obj(w, o).next <= Len(w.objs)
    BY <1>1 DEF InOrder
  <2> QED BY <1>2, <2>2, <2>3 DEF Place
<1>4. ASSUME NEW z \in Zone
      PROVE  w.zones[z] \in Seq(Objects(w))
  <2>1. w.zones[z] \in Seq(Nat) /\ NoTwice(w.zones[z])
    BY <1>1, Fields DEF Once
  <2>2. \A x : Contains(w.zones[z], x) => x \in 1..Len(w.objs)
    BY <1>1, <1>2 DEF Placed, Lies
  <2> QED BY <1>2, <2>1, <2>2, NoLonger1
<1>5. aim \in {0} \cup Objects(w) /\ cleanup \in BOOLEAN
  BY DEF IInv, AimedAt
<1> QED
  BY <1>3, <1>4, <1>5 DEF TypeOK

LEMMA OneEach == IInv => OneObject
<1> SUFFICES ASSUME IInv, NEW c \in Cards,
                    NEW there, there = [pl \in Zone \X Objects(w) |-> w.zones[pl[1]][pl[2]]],
                    NEW P, P = {pl \in Zone \X Objects(w) :
                                  pl[2] \in DOMAIN w.zones[pl[1]] /\ Obj(w, w.zones[pl[1]][pl[2]]).card = c}
             PROVE  Cardinality(P) = 1 /\ \A pl \in P : Obj(w, w.zones[pl[1]][pl[2]]).zone = pl[1]
  BY DEF OneObject
<1>1. Sound(w) /\ w \in World /\ Placed(w) /\ Once(w) /\ Found(w) /\ Held(w)
  BY DEF IInv, AllWell, Sound
<1>2. \A z \in Zone : /\ w.zones[z] \in Seq(Nat) /\ NoTwice(w.zones[z])
                      /\ Len(w.zones[z]) \in Nat /\ Len(w.zones[z]) <= Len(w.objs)
  <2>1. ASSUME NEW z \in Zone
        PROVE  /\ w.zones[z] \in Seq(Nat) /\ NoTwice(w.zones[z])
               /\ Len(w.zones[z]) \in Nat /\ Len(w.zones[z]) <= Len(w.objs)
    <3>1. w.zones[z] \in Seq(Nat) /\ NoTwice(w.zones[z]) /\ Len(w.objs) \in Nat
      BY <1>1, Fields DEF Once
    <3>2. \A x : Contains(w.zones[z], x) => x \in 1..Len(w.objs)
      BY <1>1 DEF Placed, Lies, Objects
    <3> QED BY <3>1, <3>2, NoLonger1, LenProperties
  <2> QED BY <2>1
<1>3. \A z \in Zone : DOMAIN w.zones[z] = 1..Len(w.zones[z])
  BY <1>2, LenProperties
<1>4. ASSUME NEW z \in Zone, NEW i \in DOMAIN w.zones[z]
      PROVE  /\ i \in 1..Len(w.zones[z]) /\ Lies(w, w.zones[z][i], z)
             /\ w.zones[z][i] \in Objects(w) /\ Current(w, w.zones[z][i])
             /\ Obj(w, w.zones[z][i]).zone = z
  <2>1. i \in 1..Len(w.zones[z]) /\ Contains(w.zones[z], w.zones[z][i])
    BY <1>3 DEF Contains
  <2> QED BY <1>1, <2>1 DEF Placed, Lies
<1>5. PICK x \in Objects(w) : Is1(w, c, x)
  BY <1>1 DEF Held
<1>6. PICK zx \in Zone : zx = Obj(w, x).zone /\ Lies(w, x, zx)
  BY <1>1, <1>5 DEF Found, Is1
<1>7. PICK ix \in 1..Len(w.zones[zx]) : w.zones[zx][ix] = x
  BY <1>6 DEF Lies, Contains
<1>8. ix \in Objects(w) /\ ix \in DOMAIN w.zones[zx]
  <2>1. Len(w.objs) \in Nat
    BY <1>1, Fields
  <2> QED BY <1>2, <1>3, <1>6, <1>7, <2>1 DEF Objects
<1>9. <<zx, ix>> \in P
  BY <1>5, <1>7, <1>8 DEF Is1
<1>10. ASSUME NEW pl \in P
       PROVE  pl = <<zx, ix>> /\ Obj(w, w.zones[pl[1]][pl[2]]).zone = pl[1]
  <2>1. PICK z \in Zone, i \in Objects(w) : pl = <<z, i>> /\ i \in DOMAIN w.zones[z] /\ Obj(w, w.zones[z][i]).card = c
    OBVIOUS
  <2>2. /\ i \in 1..Len(w.zones[z]) /\ w.zones[z][i] \in Objects(w) /\ Current(w, w.zones[z][i])
        /\ Obj(w, w.zones[z][i]).zone = z
    BY <1>4, <2>1
  <2>3. w.zones[z][i] = x
    BY <1>5, <2>1, <2>2 DEF Is1
  <2>4. z = zx
    BY <1>6, <2>2, <2>3
  <2>5. i = ix
    BY <1>2, <1>7, <2>2, <2>3, <2>4 DEF NoTwice
  <2> QED BY <2>1, <2>2, <2>4, <2>5
<1>11. P = {<<zx, ix>>}
  BY <1>9, <1>10
<1> QED
  BY <1>10, <1>11, FS_Singleton

(* No card is lost or doubled, whatever moves it, however many events wait *)
(* and whether or not it passes through temp: every card of a deck is in   *)
(* one zone, once, the zone its object is told to be in; and in temp there *)
(* is what putInZone() put into placeOnTop and shuffleLibrary() has not    *)
(* put on top yet, and nothing else.                                       *)
THEOREM CardsStayInPlace == Spec => []CardsInPlace
<1>1. IInv => CardsInPlace
  <2>1. IInv => OnlyTopCardsWait
    BY DEF IInv, AllWell, Tidy, Waits, OnlyTopCardsWait
  <2> QED BY <2>1, TypeCorrect, OneEach DEF CardsInPlace
<1> QED
  BY <1>1, Invariant, PTL

LEMMA LinksMeet == IInv => ChainsMeet
<1> SUFFICES ASSUME IInv, NEW o \in Objects(w), Obj(w, o).live
             PROVE  /\ Obj(w, o).next = 0 => InZone(o)
                    /\ Obj(w, o).next # 0 =>
                         /\ Obj(w, Obj(w, o).next).live /\ Obj(w, Obj(w, o).next).previous = o
                         /\ Obj(w, Obj(w, o).next).card = Obj(w, o).card
                    /\ Obj(w, o).previous # 0 =>
                         Obj(w, Obj(w, o).previous).live /\ Obj(w, Obj(w, o).previous).next = o
  BY DEF ChainsMeet
<1>1. Found(w) /\ LinkedOn(w) /\ LinkedBack(w)
  BY DEF IInv, AllWell, Sound
<1>2. Obj(w, o).next = 0 => InZone(o)
  BY <1>1 DEF Found, Current, Lies, InZone
<1> QED
  BY <1>1, <1>2 DEF LinkedOn, LinkedBack

LEMMA TempIsHidden == IInv => EventsHideTemp
<1> SUFFICES ASSUME IInv, NEW i \in DOMAIN w.queue
             PROVE  /\ "temp" \notin {w.queue[i].from[1], w.queue[i].to[1]} /\ Obj(w, w.queue[i].card).live
                    /\ w.queue[i].from = None => Obj(w, w.queue[i].card).card \in Tokens
  BY DEF EventsHideTemp
<1>1. i \in 1..Len(w.queue)
  <2>1. w.queue \in Seq(News)
    BY Fields DEF IInv, AllWell, Sound
  <2> QED BY <2>1, LenProperties
<1>2. Honest(w, w.queue[i])
  BY <1>1 DEF IInv, AllWell, Sound, Told
<1> QED
  BY <1>2 DEF Honest

(* Whoever holds an object finds the card: next leads from all it was to   *)
(* what it is, previous leads back the same way, and no event that waits   *)
(* tells of temp or of an object that PassThrough() deleted.               *)
THEOREM ThePastIsKept == Spec => []PastIsKept
<1>1. IInv => PastIsKept
  BY LinksMeet, TempIsHidden DEF PastIsKept
<1> QED
  BY <1>1, Invariant, PTL

(* MTGTokensCleanup: when no event waits, a token is in play or in the     *)
(* garbage, even if it persists or was moved after the event was sent.     *)
THEOREM TokensCeaseToExist == Spec => []TokensCease
<1>1. IInv => TokensCease
  <2> SUFFICES ASSUME IInv, w.queue = <<>>, NEW t \in Tokens, NEW o \in Now(t)
               PROVE  Obj(w, o).zone[1] \in {"inPlay", "garbage"}
    BY DEF TokensCease
  <2>1. AllWell(w) /\ Placed(w) /\ Found(w) /\ Waits(w) /\ NoTokenWaits(w)
    BY DEF IInv, AllWell, Sound, Tidy
  <2>2. o \in Objects(w) /\ Current(w, o) /\ Obj(w, o).card = t
    BY DEF Now, Current
  <2>3. PICK z \in Zone : z = Obj(w, o).zone /\ Lies(w, o, z)
    BY <2>1, <2>2 DEF Found
  <2>4. ~ Goner(z)
    BY <2>1, <2>2, <2>3, NoneDeparted DEF Departed
  <2>5. z[1] # "temp"
    <3>1. SUFFICES ASSUME z[1] = "temp" PROVE FALSE
      OBVIOUS
    <3>2. PICK p \in Player : z = Z("temp", p)
      BY <3>1, ZoneFacts
    <3>3. PICK i \in 1..Len(w.onTop[p]) : w.onTop[p][i] = o
      BY <2>1, <2>3, <3>2 DEF Waits, Lies, Contains
    <3>4. Obj(w, o).card \in Cards
      BY <2>1, <3>3 DEF NoTokenWaits
    <3> QED BY <2>2, <3>4, ZonesAssumption
  <2> QED BY <2>3, <2>4, <2>5 DEF Goner
<1> QED
  BY <1>1, Invariant, PTL

(* The loops of gameStateBasedEffects() stay within the cards in play,     *)
(* whatever leaves or comes back between two of their steps.               *)
THEOREM TheSweepIsInBounds == Spec => []SweepInBounds
<1>1. IInv => SweepInBounds
  BY DEF IInv, InBounds, SweepInBounds, Battlefield
<1> QED
  BY <1>1, Invariant, PTL
=============================================================================
