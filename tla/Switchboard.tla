------------------------------ MODULE Switchboard ------------------------------
(***************************************************************************)
(* The switchboard of a box: the table it routes requests by, the cutovers *)
(* that replace the table and drain what it no longer routes, and the      *)
(* rollouts that ask for them and stop what they retired.                  *)
(* platform/vps/box/switchboard/board.go, cutover.go and ledger.go;        *)
(* platform/vps/provider/release/rollout.go.                               *)
(*                                                                         *)
(* Goroutines of the board interleave: a request reads the table, counts   *)
(* itself and looks at the table again in three steps, a cutover retires,  *)
(* loads, registers its drain and hears of it in others.  A rollout is a   *)
(* process of its own, one at a time under the lease of its environment,   *)
(* that may die or lose touch while the cutover it asked for goes on in    *)
(* the box.  Runs of other environments load the same file at any time.    *)
(* A rollout here has one app.                                             *)
(***************************************************************************)
CONSTANTS
    Requests,   \* requests to the box
    Rollouts,   \* rollouts of one environment
    Keys,       \* its route keys: an app, or a deployment's own hostname
    Upstreams,  \* the containers its releases run in
    First,      \* the one every key is routed to at first
    Nothing     \* no upstream

ASSUME SwitchboardAssumption ==
    /\ First \in Upstreams /\ Nothing \notin Upstreams
    /\ Requests \cap Rollouts = {}

VARIABLES
    file,       \* the routing table on the box's disk
    table,      \* the one the board serves
    stopped,    \* the upstreams whose container is stopped or removed
    at,         \* what each request and each rollout is at
    box,        \* what the cutover a rollout asked for is at
    key,        \* the route key of a request or of a rollout
    on,         \* the upstream of a request, as it read the table
    stale,      \* the requests whose table was replaced since they read it
    cut,        \* the requests whose call was cut
    target,     \* the upstream a rollout rolls out
    prior,      \* the one its key was routed to when it composed
    wait,       \* the drain of a rollout's cutover: "none", "open" or "quiet"
    told,       \* the cutovers that told their drain
    unrouted,   \* history: those whose retiree no table routed since they loaded
    asked       \* the upstream the rollout at work asks to be idle, to stop it

requests == <<on, stale, cut>>
rollouts == <<target, prior, asked>>
cutovers == <<box, wait, told>>
board    == <<table, unrouted>>
vars     == <<file, board, stopped, at, key, requests, rollouts, cutovers>>

Routed(t) == {t[k] : k \in Keys}

At(x, s)   == at[x] = s
Goto(x, s) == at' = [at EXCEPT ![x] = s]

RequestPhases == {"idle", "read", "taken", "placed"}
CutoverPhases == {"none", "retired", "loaded", "draining"}
RolloutPhases == {"idle", "gating", "composed", "waiting", "failed", "restored", "told",
                  "discarding", "asking", "reading", "stopping", "ended"}

Init ==
    /\ file = [k \in Keys |-> First] /\ table = file
    /\ stopped = Upstreams \ {First}
    /\ at = [x \in Requests \cup Rollouts |-> "idle"]
    /\ key \in [Requests \cup Rollouts -> Keys]
    /\ on = [r \in Requests |-> Nothing] /\ stale = {} /\ cut = {}
    /\ target = [c \in Rollouts |-> Nothing] /\ prior = [c \in Rollouts |-> Nothing]
    /\ box = [c \in Rollouts |-> "none"] /\ wait = [c \in Rollouts |-> "none"]
    /\ told = {} /\ unrouted = {} /\ asked = Nothing

-----------------------------------------------------------------------------
(***************************************************************************)
(* Requests: forwarding, and the ledger of calls in flight.                *)
(***************************************************************************)
\* ledger.flights: the calls counted on an upstream.
InFlight(u) == {r \in Requests : at[r] \in {"taken", "placed"} /\ on[r] = u}

Retiree(c) == IF prior[c] = target[c] THEN Nothing ELSE prior[c]

\* ledger.drop: the last call on an upstream makes the drains of it quiet.
Drop(r) ==
    /\ wait' = [c \in Rollouts |->
                   IF /\ wait[c] = "open" /\ Retiree(c) = on[r]
                      /\ InFlight(on[r]) = {r}
                   THEN "quiet" ELSE wait[c]]
    /\ cut' = cut \ {r} /\ stale' = stale \ {r}
    /\ on' = [on EXCEPT ![r] = Nothing]
    /\ Goto(r, "idle")

\* It reads the table.
ReadTable(r) ==
    /\ r \in Requests /\ At(r, "idle") /\ Goto(r, "read")
    /\ on' = [on EXCEPT ![r] = table[key[r]]]
    /\ UNCHANGED <<file, board, stopped, key, stale, cut, rollouts, cutovers>>

\* ledger.take
Take(r) ==
    /\ r \in Requests /\ At(r, "read") /\ Goto(r, "taken")
    /\ UNCHANGED <<file, board, stopped, key, requests, rollouts, cutovers>>

\* Mutant: the table is not read again.
CheckUnread(r) ==
    /\ r \in Requests /\ At(r, "taken") /\ Goto(r, "placed")
    /\ UNCHANGED <<file, board, stopped, key, requests, rollouts, cutovers>>

\* The table is still the one it read, or it hangs up and reads again.
Check(r) ==
    /\ r \in Requests /\ At(r, "taken")
    /\ \/ r \notin stale /\ Goto(r, "placed") /\ UNCHANGED <<requests, wait>>
       \/ r \in stale /\ Drop(r)
    /\ UNCHANGED <<file, board, stopped, key, rollouts, box, told>>

\* It was answered, cut, or its client went away.  The next one may come.
End(r) ==
    /\ r \in Requests /\ At(r, "placed") /\ Drop(r)
    /\ UNCHANGED <<file, board, stopped, key, rollouts, box, told>>

-----------------------------------------------------------------------------
(***************************************************************************)
(* The board: loads and cutovers.                                          *)
(***************************************************************************)
\* Load, under its lock: the file as it is now.
Load(cs) ==
    /\ table' = file
    /\ stale' = stale \cup {r \in Requests : at[r] # "idle"}
    /\ unrouted' = {c \in unrouted \cup cs : Retiree(c) \notin Routed(file)}
    /\ UNCHANGED <<on, cut>>

\* A run of another environment loads the file.
LoadByOthers ==
    /\ Load({})
    /\ UNCHANGED <<file, stopped, at, key, rollouts, cutovers>>

\* Mutant: it cuts what is routed again.
CutRouted(u) == cut' = cut \cup InFlight(u)

\* cutUnrouted, under the lock of loads.
CutUnrouted(u) ==
    cut' = IF u \in Routed(table) THEN cut ELSE cut \cup InFlight(u)

\* The cutovers that run now and retire an upstream.
Draining(u) == {c \in Rollouts : box[c] # "none" /\ Retiree(c) = u}

Boxed(c, s) == c \in Rollouts /\ box[c] = s
BoxTo(c, s) == box' = [box EXCEPT ![c] = s]

\* Mutant: what waits for the drain outlives the cutover.
EndsWaiting(c, s) ==
    /\ BoxTo(c, "none") /\ UNCHANGED wait
    /\ at' = [at EXCEPT ![c] = IF @ = "waiting" THEN s ELSE @]

\* What a cutover ends in, for the rollout that still waits for it.
Ends(c, s) ==
    /\ BoxTo(c, "none")
    /\ wait' = [wait EXCEPT ![c] = "none"]
    /\ at' = [at EXCEPT ![c] = IF @ = "waiting" THEN s ELSE @]

CutoverLoads(c) ==
    /\ Boxed(c, "retired") /\ BoxTo(c, "loaded")
    /\ Load({c})
    /\ UNCHANGED <<file, stopped, at, key, rollouts, wait, told>>

\* The file cannot be read.
LoadFails(c) ==
    /\ Boxed(c, "retired") /\ Ends(c, "failed")
    /\ UNCHANGED <<file, board, stopped, key, requests, rollouts, told>>

\* Mutant: a drain waits for a call that already ended.
QuietUnchecked(c) ==
    /\ Boxed(c, "loaded") /\ Retiree(c) # Nothing /\ BoxTo(c, "draining")
    /\ wait' = [wait EXCEPT ![c] = "open"]
    /\ UNCHANGED <<file, board, stopped, at, key, requests, rollouts, told>>

\* ledger.quiet: at once when nothing is in flight.
Quiet(c) ==
    /\ Boxed(c, "loaded") /\ Retiree(c) # Nothing /\ BoxTo(c, "draining")
    /\ wait' = [wait EXCEPT ![c] = IF InFlight(Retiree(c)) = {} THEN "quiet" ELSE "open"]
    /\ UNCHANGED <<file, board, stopped, at, key, requests, rollouts, told>>

\* Nothing is retired, so nothing is drained and the rollout is done.
RetiresNothing(c) ==
    /\ Boxed(c, "loaded") /\ Retiree(c) = Nothing /\ Ends(c, "ended")
    /\ UNCHANGED <<file, board, stopped, key, requests, rollouts, told>>

Tells(c) ==
    /\ CutUnrouted(Retiree(c))
    /\ told' = told \cup {c}
    /\ Ends(c, "told")
    /\ UNCHANGED <<file, board, stopped, key, on, stale, rollouts>>

Drained(c) == Boxed(c, "draining") /\ wait[c] = "quiet" /\ Tells(c)

\* Mutant: the window closes and what is in flight goes on.
ExpiresUncut(c) ==
    /\ Boxed(c, "draining") /\ told' = told \cup {c} /\ Ends(c, "told")
    /\ UNCHANGED <<file, board, stopped, key, requests, rollouts>>

\* The window of the drain closes, whether or not it is quiet by now.
Expires(c) == Boxed(c, "draining") /\ Tells(c)

\* The control connection ends, and the cutover with it.
CutShort(c) ==
    /\ Boxed(c, "draining") /\ Ends(c, "failed")
    /\ UNCHANGED <<file, board, stopped, key, requests, rollouts, told>>

-----------------------------------------------------------------------------
(***************************************************************************)
(* Rollouts.                                                               *)
(***************************************************************************)
BoardUnchanged == UNCHANGED <<board, key, requests, cutovers>>

\* One rollout at a time, by the lease of the environment: that one which
\* lost it, and stops or discards in a context of its own for up to
\* UnwindWindow, ends before the next begins is assumed.
Working == {c \in Rollouts : at[c] \notin {"idle", "ended"}}

\* Its container runs before its gate is asked.
Start(c) ==
    /\ c \in Rollouts /\ At(c, "idle") /\ Working = {}
    /\ \E u \in Upstreams :
           target' = [target EXCEPT ![c] = u] /\ stopped' = stopped \ {u}
    /\ Goto(c, "gating")
    /\ UNCHANGED <<file, prior, asked>> /\ BoardUnchanged

\* The gate fails, or the promotion is no longer the active one.
GateFails(c) ==
    /\ c \in Rollouts /\ At(c, "gating") /\ Goto(c, "discarding")
    /\ UNCHANGED <<file, stopped, rollouts>> /\ BoardUnchanged

\* Compose writes the table over the one it read.
Compose(c) ==
    /\ c \in Rollouts /\ At(c, "gating") /\ Goto(c, "composed")
    /\ prior' = [prior EXCEPT ![c] = file[key[c]]]
    /\ file' = [file EXCEPT ![key[c]] = target[c]]
    /\ UNCHANGED <<stopped, target, asked>> /\ BoardUnchanged

\* cutover.back: the route goes back to what it was, if it is still ours.
PutBack(c) ==
    file' = IF file[key[c]] = target[c] THEN [file EXCEPT ![key[c]] = prior[c]] ELSE file

\* The front proxy does not take the table up.  The file is put back, which
\* fails too when another run wrote it in between.
NotTakenUp(c) ==
    /\ c \in Rollouts /\ At(c, "composed") /\ Goto(c, "discarding")
    /\ PutBack(c) \/ UNCHANGED file
    /\ UNCHANGED <<stopped, rollouts>> /\ BoardUnchanged

\* Cutover counts what it retires before it loads.
Retires(c) ==
    /\ c \in Rollouts /\ At(c, "composed") /\ Goto(c, "waiting")
    /\ BoxTo(c, "retired")
    /\ UNCHANGED <<file, board, stopped, key, requests, rollouts, wait, told>>

\* The rollout does not hear how the write went, or how the cutover goes.
LosesTouch(c) ==
    /\ c \in Rollouts /\ at[c] \in {"composed", "waiting"} /\ Goto(c, "failed")
    /\ UNCHANGED <<file, stopped, rollouts>> /\ BoardUnchanged

\* restorePrevious, when a cutover failed: the file, and when that changed
\* the board.
RestoreFile(c) ==
    /\ c \in Rollouts /\ At(c, "failed") /\ PutBack(c)
    /\ Goto(c, IF file' = file THEN "discarding" ELSE "restored")
    /\ UNCHANGED <<stopped, rollouts>> /\ BoardUnchanged

\* Its cutover, which retires nothing.  When it fails what may be live is left
\* running.
RestoreBoard(c) ==
    /\ c \in Rollouts /\ At(c, "restored")
    /\ \/ Load({}) /\ Goto(c, "discarding")
       \/ UNCHANGED <<board, requests>> /\ Goto(c, "ended")
    /\ UNCHANGED <<file, stopped, key, rollouts, cutovers>>

\* Whom idleUpstreams is asked about: stopRetired asks for what was retired,
\* discard for what was rolled out.
Unneeded(c) == IF At(c, "told") THEN Retiree(c) ELSE target[c]

\* Mutant: an upstream is idle when no drain of it runs, routed or not.
AskIdleOfDrains(c) ==
    /\ c \in Rollouts /\ at[c] \in {"told", "discarding"}
    /\ asked' = Unneeded(c)
    /\ Goto(c, "asking")
    /\ UNCHANGED <<file, stopped, target, prior>> /\ BoardUnchanged

\* Idle reads the table first.
AskIdle(c) ==
    /\ c \in Rollouts /\ at[c] \in {"told", "discarding"}
    /\ asked' = Unneeded(c)
    /\ Goto(c, IF Unneeded(c) \in Routed(table) THEN "ended" ELSE "asking")
    /\ UNCHANGED <<file, stopped, target, prior>> /\ BoardUnchanged

\* Then the drains that run.
AnswerIdle(c) ==
    /\ c \in Rollouts /\ At(c, "asking")
    /\ Goto(c, IF Draining(asked) = {} THEN "reading" ELSE "ended")
    /\ UNCHANGED <<file, stopped, rollouts>> /\ BoardUnchanged

\* idleUpstreams reads the file too.
ReadFile(c) ==
    /\ c \in Rollouts /\ At(c, "reading")
    /\ Goto(c, IF asked \in Routed(file) THEN "ended" ELSE "stopping")
    /\ UNCHANGED <<file, stopped, rollouts>> /\ BoardUnchanged

\* Retire or Remove
Stop(c) ==
    /\ c \in Rollouts /\ At(c, "stopping") /\ Goto(c, "ended")
    /\ stopped' = stopped \cup {asked}
    /\ UNCHANGED <<file, rollouts>> /\ BoardUnchanged

\* The rollout dies, or a step of it fails.  A cutover it asked for goes on.
Dies(c) ==
    /\ c \in Rollouts /\ at[c] \notin {"idle", "ended"} /\ Goto(c, "ended")
    /\ UNCHANGED <<file, stopped, rollouts>> /\ BoardUnchanged

-----------------------------------------------------------------------------
Requesting(r) == ReadTable(r) \/ Take(r) \/ Check(r) \/ End(r)

Boarding(c) ==
    \/ CutoverLoads(c) \/ LoadFails(c) \/ Quiet(c) \/ RetiresNothing(c)
    \/ Drained(c) \/ Expires(c) \/ CutShort(c)

Rolling(c) ==
    \/ Start(c) \/ GateFails(c) \/ Compose(c) \/ NotTakenUp(c) \/ Retires(c)
    \/ LosesTouch(c) \/ RestoreFile(c) \/ RestoreBoard(c)
    \/ AskIdle(c) \/ AnswerIdle(c) \/ ReadFile(c) \/ Stop(c) \/ Dies(c)

Next ==
    \/ \E r \in Requests : Requesting(r)
    \/ \E c \in Rollouts : Boarding(c) \/ Rolling(c)
    \/ LoadByOthers

Spec == Init /\ [][Next]_vars

\* A request that is counted ends, and the goroutine of a drain runs.  Neither the
\* window of a drain nor what cuts it short is assumed to.
Fairness ==
    /\ \A r \in Requests : WF_vars(Check(r) \/ End(r))
    /\ \A c \in Rollouts : WF_vars(Drained(c))

FairSpec == Spec /\ Fairness

-----------------------------------------------------------------------------
(***************************************************************************)
(* Properties.                                                             *)
(***************************************************************************)
\* Every variable holds a value of its kind; a request that was counted or
\* is about to be has an upstream, and only one that is can be cut or stale;
\* a drain waits only while its cutover drains.
TypeOK ==
    /\ file \in [Keys -> Upstreams] /\ table \in [Keys -> Upstreams]
    /\ stopped \subseteq Upstreams
    /\ at \in [Requests \cup Rollouts -> RequestPhases \cup RolloutPhases]
    /\ \A r \in Requests : at[r] \in RequestPhases
    /\ \A c \in Rollouts : at[c] \in RolloutPhases
    /\ key \in [Requests \cup Rollouts -> Keys]
    /\ on \in [Requests -> Upstreams \cup {Nothing}]
    /\ \A r \in Requests : (at[r] = "idle") <=> (on[r] = Nothing)
    /\ stale \subseteq Requests /\ cut \subseteq Requests
    /\ \A r \in stale \cup cut : at[r] # "idle"
    /\ target \in [Rollouts -> Upstreams \cup {Nothing}]
    /\ prior \in [Rollouts -> Upstreams \cup {Nothing}]
    /\ box \in [Rollouts -> CutoverPhases]
    /\ wait \in [Rollouts -> {"none", "open", "quiet"}]
    /\ \A c \in Rollouts : (box[c] = "draining") <=> (wait[c] # "none")
    /\ told \subseteq Rollouts /\ unrouted \subseteq Rollouts
    /\ asked \in Upstreams \cup {Nothing}

\* A drain that was told is over: while its upstream stays unrouted, every
\* request still on it was cut, and none that was late reaches it.
DrainedIsOver ==
    \A c \in told \cap unrouted, r \in Requests :
        At(r, "placed") /\ on[r] = Retiree(c) => r \in cut

\* A request is cut only once the table that placed it was replaced, however
\* many cutovers and rollbacks of its upstream overlap.
CutsOnlyReplaced == cut \subseteq stale

\* What the board or the file routes to runs, whatever fails.
RoutedRuns == (Routed(table) \cup Routed(file)) \cap stopped = {}

\* A rollout stops what it retired only when every request on it ended or was
\* cut at the end of its window.
StopsDrained ==
    \A c \in Rollouts : At(c, "stopping") /\ asked = Retiree(c) =>
        \A r \in Requests : At(r, "placed") /\ on[r] = asked => r \in cut

\* A drain that waits has a request in flight whose end it will hear of: the
\* last one never ends between the look and the registration.
DrainsHear ==
    \A c \in Rollouts : wait[c] = "open" => InFlight(Retiree(c)) # {}

\* A drain of what stays unrouted hears of the end of the last request: it
\* ends without its window.
DrainsEnd ==
    \A c \in Rollouts :
        box[c] = "draining" ~> box[c] # "draining" \/ c \notin unrouted
==============================================================================
