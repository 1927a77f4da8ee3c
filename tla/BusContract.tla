------------------------------- MODULE BusContract -------------------------------
(***************************************************************************)
(* What EventBus promises for the events posted to it, without queues,     *)
(* threads, nested calls or locks.  Every event is dispatched at most      *)
(* once, or dropped before.  Its dispatch concerns the subscriptions its   *)
(* type had when the dispatch began, whatever becomes of them meanwhile:   *)
(* it calls them one at a time, in the order in which they were made, each *)
(* at most once; it passes over nobody but whose guard has been given up,  *)
(* and leaves nobody out but when a callback fails.                        *)
(***************************************************************************)
EXTENDS Naturals, Sequences

CONSTANTS Types, Events, Subs

VARIABLES
    posted,     \* the types of the events posted so far
    fate,       \* the life of every event
    members,    \* the subscriptions of every type
    made,       \* the number of subscriptions made so far
    mute,       \* subscriptions whose guard has been given up
    due,        \* per event, the subscriptions its dispatch has still to reach
    called      \* per event, the subscription whose callback runs, if any

eventVars    == <<posted, fate>>
audienceVars == <<members, made, mute>>
dispatchVars == <<due, called>>
contractVars == <<eventVars, audienceVars, dispatchVars>>

Fate == {"new", "waiting", "dispatching", "done", "dropped"}

ContractInit ==
    /\ posted = <<>>
    /\ fate = [e \in Events |-> "new"]
    /\ members = [ty \in Types |-> {}]
    /\ made = 0 /\ mute = {}
    /\ due = [e \in Events |-> {}]
    /\ called = [e \in Events |-> {}]

Post(ty) ==
    /\ posted' = Append(posted, ty)
    /\ fate[Len(posted')] = "new"
    /\ fate' = [fate EXCEPT ![Len(posted')] = "waiting"]
    /\ UNCHANGED <<audienceVars, dispatchVars>>

\* Only events whose dispatch has not begun are dropped.
Drop(gone) ==
    /\ gone # {}
    /\ fate' = [e \in Events |-> IF e \in gone THEN "dropped" ELSE fate[e]]
    /\ UNCHANGED <<posted, audienceVars, dispatchVars>>

\* A subscription is made, perhaps with a guard that is given up already.
Subscribe(ty) ==
    /\ made' = made + 1
    /\ members' = [members EXCEPT ![ty] = @ \cup {made'}]
    /\ mute' \in {mute, mute \cup {made'}}
    /\ UNCHANGED <<eventVars, dispatchVars>>

\* Who unsubscribes is not taken out of a dispatch that has begun.
Unsubscribe ==
    /\ members' # members /\ members' \in [Types -> SUBSET Subs]
    /\ \A ty \in Types : members'[ty] \subseteq members[ty]
    /\ UNCHANGED <<eventVars, made, mute, dispatchVars>>

\* A guard that has been given up does not come back.
GiveUp ==
    /\ mute' # mute /\ mute' \subseteq Subs
    /\ mute \subseteq mute'
    /\ UNCHANGED <<eventVars, members, made, dispatchVars>>

Begin(e) ==
    /\ fate[e] = "waiting"
    /\ fate' = [fate EXCEPT ![e] = "dispatching"]
    /\ due' = [due EXCEPT ![e] = members[posted[e]]]
    /\ UNCHANGED <<posted, audienceVars, called>>

\* The dispatch of e comes to subscription r, and to no one before it.
Reach(e, r) ==
    /\ called[e] = {}
    /\ \A s \in due[e] : r <= s
    /\ due' = [due EXCEPT ![e] = @ \ {r}]

Invoke(e, r) ==
    /\ Reach(e, r)
    /\ called' = [called EXCEPT ![e] = {r}]
    /\ UNCHANGED <<eventVars, audienceVars>>

PassOver(e, r) ==
    /\ r \in mute /\ Reach(e, r)
    /\ UNCHANGED <<eventVars, audienceVars, called>>

\* The callback returns; or it fails, and whoever comes behind it is not called.
End(e) ==
    /\ called[e] # {}
    /\ called' = [called EXCEPT ![e] = {}]
    /\ due' \in {due, [due EXCEPT ![e] = {}]}
    /\ UNCHANGED <<eventVars, audienceVars>>

Finish(e) ==
    /\ fate[e] = "dispatching" /\ called[e] = {} /\ due[e] = {}
    /\ fate' = [fate EXCEPT ![e] = "done"]
    /\ UNCHANGED <<posted, audienceVars, dispatchVars>>

ContractNext ==
    \/ \E ty \in Types : Post(ty) \/ Subscribe(ty)
    \/ \E gone \in SUBSET {e \in Events : fate[e] = "waiting"} : Drop(gone)
    \/ Unsubscribe \/ GiveUp
    \/ \E e \in Events : Begin(e) \/ End(e) \/ Finish(e)
    \/ \E e \in Events : \E r \in due[e] : Invoke(e, r) \/ PassOver(e, r)

ContractSpec == ContractInit /\ [][ContractNext]_contractVars
================================================================================
