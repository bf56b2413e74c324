------------------------------ MODULE StatusTile ------------------------------
(***************************************************************************)
(* A status key of the Stream Deck (status.ts, visual.ts) and the broker's *)
(* status endpoint behind it (api.py, status.py).                          *)
(*                                                                         *)
(* The handlers of the key's events and the ticks of its interval timer    *)
(* are tasks that interleave at their awaits.  A handler works with the    *)
(* settings its event carried, a tick with those its timer was started     *)
(* with.  Time passes in seconds; timers fire on time.  What a token and   *)
(* its clock can do to a call is the subject of BrokerIdentity: here it    *)
(* fails or succeeds.                                                      *)
(***************************************************************************)
EXTENDS Integers, FiniteSets

CONSTANTS
  Task,         \* handlers and ticks under way at the same time
  Domain,       \* status domains a key can be set to
  NoDomain,     \* the settings have none
  REFRESH,      \* REFRESH_MS
  FETCH,        \* timeouts of the token and of the call, together
  STALE_AFTER,  \* stale_after_seconds of what a provider observes
  MaxLag,       \* how old an observation may be when the broker returns it
  Offset,       \* broker's clock minus the Mac's
  None

ASSUME TileConstants ==
  /\ NoDomain \notin Domain
  /\ FETCH \in Nat /\ REFRESH \in Nat /\ FETCH < REFRESH
  /\ STALE_AFTER \in Nat /\ MaxLag \in Nat /\ Offset \subseteq Int
  /\ None \notin [domain : Domain \cup {NoDomain}, left : 0 .. REFRESH]

VARIABLES
  offset,      \* broker's clock minus the Mac's
  visible,     \* the key is on the page that is shown
  settings,    \* the domain it is set to
  timer,       \* timers.get(id): the domain it was started with, and what is left; or None
  kind,        \* what a task is: "none", "appear", "settings", "press" or "tick"
  domain,      \* the domain it refreshes
  waited,      \* how long its fetch has lasted
  value,       \* what the broker has answered, or None
  shown,       \* the image: its domain, how long that has not been the one the key is set to,
               \* whether it is green and how old what it shows is; None before the first
  contested    \* the last handler that starts the timer began while another was under way

tileVars == <<offset, visible, settings, timer, kind, domain, waited, value, shown, contested>>

Setting == Domain \cup {NoDomain}
Free == {t \in Task : kind[t] = "none"}

\* Handlers that will start the timer, before and after their refresh.
Starting == {t \in Task : kind[t] \in {"appear", "settings", "refreshed"}}

\* Ages are counted as far as the properties need.
Longest == REFRESH + FETCH
Oldest == STALE_AFTER + offset + Longest
UpTo(limit, n) == IF n > limit THEN limit ELSE n

Init ==
  /\ offset \in Offset
  /\ visible = FALSE /\ settings \in Setting
  /\ timer = None
  /\ kind = [t \in Task |-> "none"]
  /\ domain = [t \in Task |-> NoDomain]
  /\ waited = [t \in Task |-> 0]
  /\ value = [t \in Task |-> None]
  /\ shown = None
  /\ contested = FALSE

-----------------------------------------------------------------------------
(***************************************************************************)
(* Tasks.                                                                  *)
(***************************************************************************)
Become(t, k, d) ==
  /\ kind' = [kind EXCEPT ![t] = k]
  /\ domain' = [domain EXCEPT ![t] = d]
  /\ waited' = [waited EXCEPT ![t] = 0]
  /\ value' = [value EXCEPT ![t] = None]

\* refresh up to its first await.
refresh(t, k, d) == t \in Free /\ Become(t, k, d)

ShowsDomain(d) == IF shown = None THEN FALSE ELSE shown.domain = d

\* setImage, after which a task is over or goes on to start the timer.
Paint(t, green, age) ==
  /\ shown' = [domain |-> domain[t], green |-> green, age |-> age,
               wrong |-> IF ShowsDomain(domain[t]) THEN shown.wrong ELSE 0]
  /\ Become(t, IF t \in Starting THEN "refreshed" ELSE "none",
               IF t \in Starting THEN domain[t] ELSE NoDomain)

\* An event of the key is handled.  A task is left for the timer.
Handle(t, k, d) ==
  /\ Cardinality(Free) > 1
  /\ refresh(t, k, d)
  /\ contested' = IF k = "press" THEN contested ELSE Starting # {}

onWillAppear(t) ==
  /\ ~visible /\ visible' = TRUE
  /\ Handle(t, "appear", settings)
  /\ UNCHANGED <<offset, settings, timer, shown>>

onWillDisappear ==
  /\ visible /\ visible' = FALSE
  /\ timer' = None
  /\ UNCHANGED <<offset, settings, kind, domain, waited, value, shown, contested>>

onDidReceiveSettings(t, d) ==
  /\ visible
  /\ settings' = d
  /\ Handle(t, "settings", d)
  /\ UNCHANGED <<offset, visible, timer, shown>>

onKeyDown(t) ==
  /\ visible
  /\ Handle(t, "press", settings)
  /\ UNCHANGED <<offset, visible, settings, timer, shown>>

\* The interval is over: a refresh with the settings of the timer.
TimerFires(t) ==
  /\ timer # None /\ timer.left = 0
  /\ refresh(t, "tick", timer.domain)
  /\ timer' = [timer EXCEPT !.left = REFRESH]
  /\ UNCHANGED <<offset, visible, settings, shown, contested>>

Refreshing(t) == kind[t] \in {"appear", "settings", "press", "tick"}

\* A key without a domain asks to be configured.
NotConfigured(t) ==
  /\ Refreshing(t) /\ domain[t] = NoDomain
  /\ Paint(t, FALSE, 0)
  /\ UNCHANGED <<offset, visible, settings, timer, contested>>

\* StatusAggregator.domain: the provider has observed something good, not long
\* ago; or something else, or it fails, or there is none, and it is not told
\* apart how old that is.
Observe(t) ==
  /\ Refreshing(t) /\ domain[t] # NoDomain /\ value[t] = None
  /\ \E answer \in [good : {TRUE}, age : 0 .. MaxLag] \cup {[good |-> FALSE, age |-> 0]} :
       value' = [value EXCEPT ![t] = answer]
  /\ UNCHANGED <<offset, visible, settings, timer, kind, domain, waited, shown, contested>>

\* Fault: an observation of any age is as good as new.
IsStale_never(v) == FALSE

\* observed_at is by the broker's clock, Date.now() by the Mac's.
IsStale(v) == v.age - offset > STALE_AFTER

\* statusVisual: green or not.
statusVisual(v) == ~IsStale(v) /\ v.good

StatusReturns(t) ==
  /\ Refreshing(t) /\ value[t] # None
  /\ LET green == statusVisual(value[t])
     IN Paint(t, green, IF green THEN value[t].age ELSE 0)
  /\ UNCHANGED <<offset, visible, settings, timer, contested>>

\* The issuer or the broker is unreachable, refuses, or takes too long.
RefreshFails(t) ==
  /\ Refreshing(t) /\ domain[t] # NoDomain
  /\ Paint(t, FALSE, 0)
  /\ UNCHANGED <<offset, visible, settings, timer, contested>>

\* Fault: a timer that is there is left alone.
startTimer_once(t) ==
  /\ kind[t] = "refreshed"
  /\ timer' = IF timer = None THEN [domain |-> domain[t], left |-> REFRESH] ELSE timer
  /\ Become(t, "none", NoDomain)
  /\ UNCHANGED <<offset, visible, settings, shown, contested>>

\* The old timer, if there is one, is replaced.
startTimer(t) ==
  /\ kind[t] = "refreshed"
  /\ timer' = [domain |-> domain[t], left |-> REFRESH]
  /\ Become(t, "none", NoDomain)
  /\ UNCHANGED <<offset, visible, settings, shown, contested>>

-----------------------------------------------------------------------------
\* A second passes: no fetch outlasts its timeouts, no timer and no handler
\* that only has to go on is late.
Second ==
  /\ \A t \in Task : Refreshing(t) => domain[t] # NoDomain /\ waited[t] < FETCH
  /\ \A t \in Task : kind[t] # "refreshed"
  /\ timer # None => timer.left > 0
  /\ timer' = IF timer = None THEN None ELSE [timer EXCEPT !.left = @ - 1]
  /\ waited' = [t \in Task |-> IF Refreshing(t) THEN waited[t] + 1 ELSE 0]
  /\ value' = [t \in Task |-> IF value[t] = None THEN None
                              ELSE [value[t] EXCEPT !.age = IF value[t].good THEN @ + 1 ELSE 0]]
  /\ shown' = IF shown = None THEN None
              ELSE [shown EXCEPT !.age = IF shown.green THEN UpTo(Oldest + 1, @ + 1) ELSE 0,
                                 !.wrong = IF shown.domain # settings THEN UpTo(Longest + 1, @ + 1) ELSE 0]
  /\ UNCHANGED <<offset, visible, settings, kind, domain, contested>>

Next ==
  \/ onWillDisappear
  \/ \E t \in Task :
       \/ onWillAppear(t) \/ onKeyDown(t) \/ TimerFires(t)
       \/ \E d \in Setting : onDidReceiveSettings(t, d)
       \/ NotConfigured(t) \/ Observe(t) \/ StatusReturns(t) \/ RefreshFails(t) \/ startTimer(t)
  \/ Second

Spec == Init /\ [][Next]_tileVars

-----------------------------------------------------------------------------
(***************************************************************************)
(* Properties.                                                             *)
(***************************************************************************)
\* The key is shown and no handler that starts its timer is under way.
Settled == visible /\ Starting = {}

\* Green means recently observed: what a settled key shows as healthy is never
\* older than its own limit, the error of the clocks, one interval and one
\* fetch, whichever refreshes fail or overtake each other ("hours-old state
\* showed as current").
GreenIsRecent ==
  Settled /\ shown.green => shown.age <= Oldest

\* A settled key whose handlers did not overlap shows the domain it is set to;
\* the late answer of an earlier refresh puts another one there for an
\* interval and a fetch at most.
WrongDomainHeals ==
  Settled /\ ~contested /\ shown.domain # settings => shown.wrong <= Longest
=============================================================================
