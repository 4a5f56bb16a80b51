--------------------------- MODULE PictureService ---------------------------
(***************************************************************************)
(* What the retriever of card pictures promises to the screens that draw   *)
(* them: a picture is asked for only if it is not kept and not already on  *)
(* its way, pictures are loaded one at a time, each load is kept at most   *)
(* once and never takes the place of a picture that is kept, and a picture *)
(* asked for is either loaded or given up because later ones were asked    *)
(* for.                                                                    *)
(***************************************************************************)
EXTENDS Naturals, FiniteSets

CONSTANTS
  Pictures,     \* the pictures of cards
  MaxWaiting    \* how many may wait to be loaded

VARIABLES
  request,  \* how far the request for each picture has come
  kept      \* what is known of each picture

vars == <<request, kept>>

TypeOK ==
  /\ request \in [Pictures -> {"none", "waiting", "loading", "loaded"}]
  /\ kept \in [Pictures -> {"absent", "hit", "miss"}]

Init ==
  /\ request = [p \in Pictures |-> "none"]
  /\ kept = [p \in Pictures |-> "absent"]

Waiting == {p \in Pictures : request[p] = "waiting"}

(* A picture that is neither kept nor on its way is asked for; when too    *)
(* many wait, some other one is given up.                                  *)
Ask(p) ==
  /\ request[p] = "none" /\ kept[p] = "absent"
  /\ \/ /\ Cardinality(Waiting) < MaxWaiting
        /\ request' = [request EXCEPT ![p] = "waiting"]
     \/ /\ Cardinality(Waiting) = MaxWaiting
        /\ \E q \in Waiting : request' = [request EXCEPT ![p] = "waiting", ![q] = "none"]
  /\ UNCHANGED kept

Begin(p) ==
  /\ request[p] = "waiting"
  /\ \A q \in Pictures : request[q] \notin {"loading", "loaded"}
  /\ request' = [request EXCEPT ![p] = "loading"]
  /\ UNCHANGED kept

(* The load ends: with the picture, with the knowledge that there is none, *)
(* or with nothing learnt.                                                 *)
Load(p) ==
  /\ request[p] = "loading" /\ kept[p] = "absent"
  /\ request' = [request EXCEPT ![p] = "loaded"]
  /\ \E found \in {"absent", "hit", "miss"} : kept' = [kept EXCEPT ![p] = found]

End(p) ==
  /\ request[p] = "loaded"
  /\ request' = [request EXCEPT ![p] = "none"]
  /\ UNCHANGED kept

Forget(p) ==
  /\ kept[p] # "absent"
  /\ kept' = [kept EXCEPT ![p] = "absent"]
  /\ UNCHANGED request

Next == \E p \in Pictures : Ask(p) \/ Begin(p) \/ Load(p) \/ End(p) \/ Forget(p)

Spec == Init /\ [][Next]_vars
=============================================================================
