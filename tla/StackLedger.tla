---------------------------- MODULE StackLedger ----------------------------
(***************************************************************************)
(* What the engine promises about one stack, whatever its operations are   *)
(* and however they end: a ledger from URNs to the ids of objects at the   *)
(* provider, committed in one step.                                        *)
(*   - An object is deleted only while the ledger names it.                *)
(*   - A URN keeps its id for as long as the ledger has it.                *)
(*   - A URN enters the ledger with the id of an object created since the  *)
(*     last commit, and an id that has left the ledger never returns.      *)
(***************************************************************************)
CONSTANTS Urn, Id, None

VARIABLES
  ledger,  \* [Urn -> Id \cup {None}]
  used,    \* ids the provider has assigned
  live,    \* objects that exist
  fresh,   \* objects created since the last commit and still in hand
  outside  \* objects touched from outside the engine

lvars == <<ledger, used, live, fresh, outside>>

LedgerOK == [Urn -> Id \cup {None}]
Named(l) == {l[u] : u \in Urn} \ {None}
Empty == [u \in Urn |-> None]

Init ==
  /\ ledger = Empty
  /\ used = {}
  /\ live = {}
  /\ fresh = {}
  /\ outside = {}

(* A new object, in hand or already abandoned by the run that asked for it. *)
Create(i) ==
  /\ i \notin used
  /\ used' = used \cup {i}
  /\ live' = live \cup {i}
  /\ fresh' \in {fresh, fresh \cup {i}}
  /\ UNCHANGED <<ledger, outside>>

Delete(i) ==
  /\ i \in Named(ledger)
  /\ live' = live \ {i}
  /\ UNCHANGED <<ledger, used, fresh, outside>>

(* New objects slip out of hand.                                           *)
LetGo ==
  /\ fresh' \subseteq fresh
  /\ UNCHANGED <<ledger, used, live, outside>>

Commit(new) ==
  /\ \A u \in Urn :
       \/ new[u] \in {None, ledger[u]}
       \/ ledger[u] = None /\ new[u] \in fresh
  /\ ledger' = new
  /\ fresh' = {}
  /\ UNCHANGED <<used, live, outside>>

(* The ledger is destroyed by a crash while it is written.                 *)
Lose ==
  /\ ledger' = Empty
  /\ fresh' = {}
  /\ UNCHANGED <<used, live, outside>>

Meddle(i) ==
  /\ i \in live
  /\ live' \in {live, live \ {i}}
  /\ outside' = outside \cup {i}
  /\ UNCHANGED <<ledger, used, fresh>>

Next ==
  \/ \E i \in Id : Create(i) \/ Delete(i) \/ Meddle(i)
  \/ LetGo
  \/ \E new \in LedgerOK : Commit(new)
  \/ Lose

Spec == Init /\ [][Next]_lvars
=============================================================================
