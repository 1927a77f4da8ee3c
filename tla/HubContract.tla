------------------------------ MODULE HubContract -------------------------------
(***************************************************************************)
(* What a ModuleHub promises the modules it owns.  They come up one by one *)
(* in registration order and go down in the reverse order.  The thread a   *)
(* module owns exists only between the moment the last module is up and    *)
(* the moment the first one goes down, and a module that went down never   *)
(* comes up again.                                                         *)
(***************************************************************************)
EXTENDS Naturals

CONSTANT Modules    \* natural numbers, in registration order

VARIABLES
    awake,          \* the modules that are up
    owners,         \* the modules whose private thread exists
    retired         \* the modules that will not come up (again)

contractVars == <<awake, owners, retired>>

ContractInit == awake = {} /\ owners = {} /\ retired = {}

\* The next module comes up, when those before it are up.
ComesUp(m) ==
    /\ m \notin awake \cup retired /\ owners = {}
    /\ \A n \in Modules : n < m => n \in awake
    /\ awake' = awake \cup {m}
    /\ UNCHANGED <<owners, retired>>

ThreadBegins(m) ==
    /\ m \in awake \ owners /\ retired = {}
    /\ owners' = owners \cup {m}
    /\ UNCHANGED <<awake, retired>>

ThreadEnds(m) ==
    /\ m \in owners
    /\ owners' = owners \ {m}
    /\ UNCHANGED <<awake, retired>>

\* Only the last module goes down, and only when no thread is left.
GoesDown(m) ==
    /\ m \in awake /\ owners = {}
    /\ \A n \in awake : n <= m
    /\ awake' = awake \ {m}
    /\ retired' = retired \cup {m}
    /\ UNCHANGED owners

\* A module that never came up is put away.
Retires(m) ==
    /\ m \notin awake \cup retired /\ owners = {}
    /\ retired' = retired \cup {m}
    /\ UNCHANGED <<awake, owners>>

ContractNext ==
    \E m \in Modules :
        ComesUp(m) \/ ThreadBegins(m) \/ ThreadEnds(m) \/ GoesDown(m) \/ Retires(m)

ContractSpec == ContractInit /\ [][ContractNext]_contractVars
================================================================================
