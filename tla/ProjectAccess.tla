----------------------------- MODULE ProjectAccess -----------------------------
(***************************************************************************)
(* What the leases of a project promise to those who change its stacks:    *)
(* deploys work beside each other, one on an environment; a removal works  *)
(* alone; and a record is there before and after what it names.            *)
(***************************************************************************)
CONSTANTS Environments, Deploys, Removals

VARIABLES
    target,         \* the environment each deploy is to
    working,        \* the deploys at work
    removing,       \* the removal that destroys and forgets
    project,        \* the project is on record
    stacks,         \* the stacks on record, each named by its deploy
    up              \* those that exist

access  == <<working, removing>>
records == <<project, stacks, up>>
vars    == <<target, access, records>>

Init ==
    /\ target \in [Deploys -> Environments]
    /\ working = {} /\ removing = {}
    /\ project = FALSE /\ stacks = {} /\ up = {}

\* A deploy begins, or goes on after its build.
Begin(d) ==
    /\ removing = {} /\ \A c \in working : target[c] # target[d]
    /\ working' = working \cup {d}
    /\ UNCHANGED <<target, removing, records>>

BeginRemoval(r) ==
    /\ working = {} /\ removing = {}
    /\ removing' = {r}
    /\ UNCHANGED <<target, working, records>>

\* It ends, pauses, fails, or loses what it holds.
Stop(a) ==
    /\ working' = working \ {a} /\ removing' = removing \ {a}
    /\ UNCHANGED <<target, records>>

RecordProject(d) ==
    /\ d \in working
    /\ project' = TRUE
    /\ UNCHANGED <<target, access, stacks, up>>

RecordStack(d) ==
    /\ d \in working /\ project
    /\ stacks' = stacks \cup {d}
    /\ UNCHANGED <<target, access, project, up>>

Make(d) ==
    /\ d \in working \cap stacks
    /\ up' = up \cup {d}
    /\ UNCHANGED <<target, access, project, stacks>>

Destroy(s) ==
    /\ removing # {}
    /\ up' = up \ {s}
    /\ UNCHANGED <<target, access, project, stacks>>

ForgetStack(s) ==
    /\ removing # {} /\ s \notin up
    /\ stacks' = stacks \ {s}
    /\ UNCHANGED <<target, access, project, up>>

\* The last of a removal.
ForgetProject(r) ==
    /\ r \in removing /\ stacks = {}
    /\ project' = FALSE
    /\ removing' = removing \ {r}
    /\ UNCHANGED <<target, working, stacks, up>>

Next ==
    \/ \E d \in Deploys :
         \/ Begin(d) \/ RecordProject(d) \/ RecordStack(d) \/ Make(d)
         \/ Destroy(d) \/ ForgetStack(d)
    \/ \E r \in Removals : BeginRemoval(r) \/ ForgetProject(r)
    \/ \E a \in Deploys \cup Removals : Stop(a)

Spec == Init /\ [][Next]_vars
==============================================================================
