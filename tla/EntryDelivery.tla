---------------------------- MODULE EntryDelivery ----------------------------
(***************************************************************************)
(* What the write fan-out promises, without its streams, promises, health  *)
(* record or registry: each destination settles the entries it takes one   *)
(* at a time, in the order they were logged, and exactly once.  Raw output *)
(* on stdout stands in only for a dead destination, while none is live,    *)
(* and a destination is passed over only once it is dead.                  *)
(***************************************************************************)
EXTENDS Integers, Sequences

CONSTANT Dest

VARIABLES
  result,  \* per destination, what became of each logged entry
  live,    \* destinations that came up
  dead     \* destinations that did not

deliveryVars == <<result, live, dead>>

Results  == {"accepted", "dropped", "skipped", "rescued"}
Outcomes == {"notTaken", "pending"} \cup Results

TypeOK ==
  /\ result \in [Dest -> Seq(Outcomes)]
  /\ live \subseteq Dest
  /\ dead \subseteq Dest

Init ==
  /\ result = [d \in Dest |-> <<>>]
  /\ live = {}
  /\ dead = {}

\* An entry is logged; takers are the destinations whose level accepts it.
Accept(takers) ==
  /\ result' = [d \in Dest |->
                  Append(result[d], IF d \in takers THEN "pending" ELSE "notTaken")]
  /\ UNCHANGED <<live, dead>>

ComeUp(d) ==
  /\ d \notin live \cup dead
  /\ live' = live \cup {d}
  /\ UNCHANGED <<result, dead>>

Die(d) ==
  /\ d \notin live \cup dead
  /\ dead' = dead \cup {d}
  /\ UNCHANGED <<result, live>>

\* The oldest pending entry of d gets its final result.
Settle(d, e, r) ==
  /\ result[d][e] = "pending"
  /\ \A f \in 1..(e - 1) : result[d][f] # "pending"
  /\ r = "skipped" => d \in dead
  /\ r = "rescued" => d \in dead /\ live = {}
  /\ result' = [result EXCEPT ![d][e] = r]
  /\ UNCHANGED <<live, dead>>

SettleNext(d) == \E e \in DOMAIN result[d] : \E r \in Results : Settle(d, e, r)

Next ==
  \/ \E takers \in SUBSET Dest : Accept(takers)
  \/ \E d \in Dest : ComeUp(d) \/ Die(d) \/ SettleNext(d)

Spec == Init /\ [][Next]_deliveryVars

\* Nothing accepted stays pending.
FairSpec == Spec /\ \A d \in Dest : WF_deliveryVars(SettleNext(d))
==============================================================================
