----------------------------- MODULE RemoteLedger -----------------------------
(***************************************************************************)
(* What a reconciler promises about the objects it keeps in NPM, without   *)
(* caches, queues, retries or program counters.  The operator              *)
(*   - creates an object only on behalf of a resource that exists;         *)
(*   - records in a resource only an object that was created for it;       *)
(*   - removes an object only for its own resource, and not while that     *)
(*     resource records it and is there to stay;                           *)
(*   - lets a resource go only when the object it records is gone, or when *)
(*     the request to delete that very object failed or could not be made. *)
(* Users and administrators act as they please, and `turns' counts their   *)
(* acts, so that a removal by one of them is not taken for the operator's. *)
(* An object may remain unrecorded: a creation and its recording are two   *)
(* steps, and what comes between them may stop the operator.               *)
(***************************************************************************)
EXTENDS Naturals

CONSTANTS Keys, Ids, NoId, Nobody,
          MayDisown   \* a resource may come to regard its own object as
                      \* somebody else's, and then leaves it alone

VARIABLES present,   \* resources that exist
          leaving,   \* resources being deleted
          held,      \* held[k]: the object resource k records, or NoId
          alive,     \* objects that exist in NPM
          owner,     \* owner[i]: the resource object i was created for
          abandoned, \* objects whose deletion was tried in vain
          turns      \* acts of users and administrators

ledgerVars == <<present, leaving, held, alive, owner, abandoned, turns>>

Init ==
  /\ present = {}
  /\ leaving = {}
  /\ held = [k \in Keys |-> NoId]
  /\ alive = {}
  /\ owner = [i \in Ids |-> Nobody]
  /\ abandoned = {}
  /\ turns = 0
-----------------------------------------------------------------------------
(* Users and administrators                                                 *)

Appear(k) ==
  /\ k \notin present
  /\ present' = present \cup {k}
  /\ UNCHANGED <<leaving, held, alive, owner>>

Edit == UNCHANGED <<present, leaving, held, alive, owner>>

Mark(k) ==
  /\ k \in present
  /\ leaving' = leaving \cup {k}
  /\ UNCHANGED <<present, held, alive, owner>>

\* A resource that has no finalizer disappears at once.
Withdraw(k) ==
  /\ k \in present
  /\ held[k] = NoId
  /\ present' = present \ {k}
  /\ UNCHANGED <<leaving, held, alive, owner>>

\* An object that administrators make belongs to nobody.
Outside(i) ==
  /\ \/ alive' = alive \ {i}
     \/ owner[i] = Nobody /\ alive' = alive \cup {i}
  /\ UNCHANGED <<present, leaving, held, owner>>

Others ==
  /\ \/ \E k \in Keys : Appear(k) \/ Mark(k) \/ Withdraw(k)
     \/ \E i \in Ids : Outside(i)
     \/ Edit
  /\ turns' = turns + 1
  /\ UNCHANGED abandoned
-----------------------------------------------------------------------------
(* The operator                                                             *)

Create(k, i) ==
  /\ k \in present
  /\ owner[i] = Nobody
  /\ i \notin alive
  /\ alive' = alive \cup {i}
  /\ owner' = [owner EXCEPT ![i] = k]
  /\ UNCHANGED <<present, leaving, held, abandoned>>

Record(k, i) ==
  /\ k \in present
  /\ owner[i] = k
  /\ held' = [held EXCEPT ![k] = i]
  /\ UNCHANGED <<present, leaving, alive, owner, abandoned>>

Disown(k) ==
  /\ MayDisown
  /\ held' = [held EXCEPT ![k] = NoId]
  /\ UNCHANGED <<present, leaving, alive, owner, abandoned>>

Removable(i) ==
  /\ owner[i] \in Keys
  /\ held[owner[i]] = i => owner[i] \in leaving

Remove(i) ==
  /\ Removable(i)
  /\ alive' = alive \ {i}
  /\ UNCHANGED <<present, leaving, held, owner, abandoned>>

Abandon(i) ==
  /\ Removable(i)
  /\ abandoned' = abandoned \cup {i}
  /\ UNCHANGED <<present, leaving, held, alive, owner>>

Leave(k) ==
  /\ k \in leaving
  /\ held[k] \notin alive \ abandoned
  /\ present' = present \ {k}
  /\ leaving' = leaving \ {k}
  /\ held' = [held EXCEPT ![k] = NoId]
  /\ UNCHANGED <<alive, owner, abandoned>>

Operator ==
  /\ \/ \E k \in Keys : Leave(k) \/ Disown(k)
     \/ \E k \in Keys, i \in Ids : Create(k, i) \/ Record(k, i)
     \/ \E i \in Ids : Remove(i) \/ Abandon(i)
  /\ UNCHANGED turns

Next == Others \/ Operator

Spec == Init /\ [][Next]_ledgerVars
===============================================================================
