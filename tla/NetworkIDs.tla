----------------------------- MODULE NetworkIDs -----------------------------
(***************************************************************************)
(* What the network ID registry promises its callers, without sequence,    *)
(* anchor, shards or allocators: identifiers are drawn once and for one    *)
(* key, a key's claim is one of its own and is never exchanged, and the    *)
(* callers that ask for a key are told its claim.  Only keys whose claims  *)
(* were destroyed may be claimed, and answered, again.                     *)
(***************************************************************************)
EXTENDS Naturals

CONSTANTS
    Keys,     \* what is to be identified
    MaxID     \* the largest identifier

VARIABLES
    drawn,    \* per key: the identifiers ever set aside for it
    claim,    \* per key: its persistent claim, 0 for none
    told,     \* per key: the identifiers callers were told
    lost      \* the keys whose claim store was destroyed

vars == <<drawn, claim, told, lost>>

Init ==
    /\ drawn = [k \in Keys |-> {}] /\ told = [k \in Keys |-> {}]
    /\ claim = [k \in Keys |-> 0] /\ lost = {}

Used == UNION {drawn[k] : k \in Keys}

\* Set aside one unused identifier for each key of K.
Draw(K) ==
    /\ \E f \in [K -> 1..MaxID] :
        /\ \A k \in K : f[k] \notin Used /\ \A l \in K : f[k] = f[l] => k = l
        /\ drawn' = [k \in Keys |-> IF k \in K THEN drawn[k] \union {f[k]} ELSE drawn[k]]
    /\ UNCHANGED <<claim, told, lost>>

\* Claim for each key of K, all without a claim, an identifier of its own.
Claim(K) ==
    /\ \A k \in Keys : IF k \in K THEN claim[k] = 0 /\ claim'[k] \in drawn[k]
                                  ELSE claim'[k] = claim[k]
    /\ claim' \in [Keys -> 0..MaxID]
    /\ UNCHANGED <<drawn, told, lost>>

\* Tell a caller about the keys of K.
Tell(K) ==
    /\ \A k \in Keys : \E i \in drawn[k] \union {0} :
        /\ i # 0 <=> k \in K
        /\ k \in K /\ k \notin lost => i = claim[k]
        /\ told'[k] = IF k \in K THEN told[k] \union {i} ELSE told[k]
    /\ told' \in [Keys -> SUBSET (1..MaxID)]
    /\ UNCHANGED <<drawn, claim, lost>>

\* The store of the claims of K is destroyed.
Lose(K) ==
    /\ claim' = [k \in Keys |-> IF k \in K THEN 0 ELSE claim[k]]
    /\ lost' = lost \union K
    /\ UNCHANGED <<drawn, told>>

Next == \E K \in SUBSET Keys : Draw(K) \/ Claim(K) \/ Tell(K) \/ Lose(K)

Spec == Init /\ [][Next]_vars
=============================================================================
