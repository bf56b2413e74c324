--------------------------- MODULE StatusTileProofs ---------------------------
(***************************************************************************)
(* Proofs about StatusTile, for any number of overlapping handlers and     *)
(* ticks, any domains, any interval, timeout and limit and any clocks.     *)
(*                                                                         *)
(* Both properties bound how long an image stays although it should go.    *)
(* The bound is that of the next repaint: either the timer is still        *)
(* running towards it, and the image has been there no longer than the     *)
(* timer has run, or a tick that will repaint is under way, and the image  *)
(* has been there for an interval and for as long as that tick has waited. *)
(***************************************************************************)
EXTENDS StatusTile, TLAPS

Timer == [domain : Setting, left : 0 .. REFRESH]
Answer == [good : BOOLEAN, age : Nat]
Image == [domain : Setting, green : BOOLEAN, age : Int, wrong : Nat]
Kind == {"none", "appear", "settings", "press", "tick", "refreshed"}

\* Every variable keeps its type; no fetch outlasts its timeouts.
TileTypeOK ==
  /\ offset \in Offset
  /\ visible \in BOOLEAN /\ contested \in BOOLEAN
  /\ settings \in Setting
  /\ timer \in Timer \cup {None}
  /\ kind \in [Task -> Kind]
  /\ domain \in [Task -> Setting]
  /\ waited \in [Task -> 0 .. FETCH]
  /\ value \in [Task -> Answer \cup {None}]
  /\ shown \in Image \cup {None}

\* The age at which a good observation stops being green.
Limit == STALE_AFTER + offset

\* A key on the page has a timer, or a handler that will start one; and who
\* starts a timer has painted before.
Kept ==
  /\ visible => Starting # {} \/ timer # None
  /\ timer # None \/ (\E t \in Task : kind[t] = "refreshed") => shown \in Image

\* The image is no older than the timer has run since it was painted, or than
\* an interval and a tick that is under way.
GreenDue ==
  \/ shown.age <= Limit + REFRESH - timer.left
  \/ \E t \in Task : kind[t] = "tick" /\ shown.age <= Limit + REFRESH + waited[t]

\* It has been wrong no longer than that, and the tick has the right domain.
WrongDue ==
  \/ shown.wrong <= REFRESH - timer.left
  \/ \E t \in Task : kind[t] = "tick" /\ domain[t] = settings /\ shown.wrong <= REFRESH + waited[t]

\* What is green while a timer runs is as old as its last repaint allows.
GreenInv ==
  /\ timer # None /\ shown.green => GreenDue
  /\ \A t \in Task : kind[t] = "refreshed" /\ shown.green => shown.age <= Limit

\* The handlers of a key that did not overlap work with its settings.
OwnSettings == ~contested => \A t \in Starting : domain[t] = settings

\* Once they have ended the timer does too, and a wrong image is as old as the
\* next tick allows.
WrongInv ==
  /\ Settled /\ ~contested =>
       /\ timer.domain = settings
       /\ shown.domain # settings => WrongDue
  /\ \A t \in Task : kind[t] = "refreshed" /\ ~contested /\ shown.domain # settings => shown.wrong = 0

IInv == TileTypeOK /\ Kept /\ GreenInv /\ OwnSettings /\ WrongInv

-----------------------------------------------------------------------------
\* What the assumptions make of the constants.
LEMMA ConstantTypes ==
  /\ REFRESH \in Nat /\ FETCH \in Nat /\ STALE_AFTER \in Nat /\ MaxLag \in Nat
  /\ Offset \subseteq Int /\ None \notin Timer /\ NoDomain \in Setting
BY TileConstants DEF Timer, Setting

\* A timer has at least nothing left, and a tick has waited for FETCH at most.
LEMMA DueIsBounded ==
  ASSUME TileTypeOK, timer \in Timer, shown \in Image
  PROVE  (GreenDue => shown.age <= Oldest) /\ (WrongDue => shown.wrong <= Longest)
<1>1. /\ timer.left \in Nat /\ shown.age \in Int /\ shown.wrong \in Nat /\ Limit \in Int
      /\ \A t \in Task : waited[t] \in Nat /\ waited[t] <= FETCH
  BY ConstantTypes DEF TileTypeOK, Timer, Image, Limit
<1> QED
  BY <1>1, ConstantTypes DEF GreenDue, WrongDue, Longest, Oldest, Limit, TileTypeOK

LEMMA SettledHasImage == TileTypeOK /\ Kept /\ Settled => timer \in Timer /\ shown \in Image
BY DEF TileTypeOK, Kept, Settled

\* No task runs at first.
LEMMA InitHolds == Init => IInv
<1> SUFFICES ASSUME Init PROVE IInv
  OBVIOUS
<1>1. TileTypeOK
  <2>1. visible \in BOOLEAN /\ contested \in BOOLEAN
    BY DEF Init
  <2>2. waited \in [Task -> 0 .. FETCH] /\ kind \in [Task -> Kind]
    BY ConstantTypes DEF Init, Kind
  <2> QED
    BY <2>1, <2>2, ConstantTypes DEF Init, TileTypeOK
<1>2. \A t \in Task : kind[t] = "none"
  BY DEF Init
<1> QED
  BY <1>1, <1>2 DEF Init, IInv, Kept, GreenInv, OwnSettings, WrongInv, Settled, Starting

-----------------------------------------------------------------------------
(***************************************************************************)
(* A task begins.                                                          *)
(***************************************************************************)
\* A task that was free is one of kind k now; the others go on.
Begun(t, k, d) ==
  /\ kind[t] = "none" /\ kind'[t] = k /\ domain'[t] = d /\ waited'[t] = 0
  /\ \A u \in Task \ {t} : kind'[u] = kind[u] /\ domain'[u] = domain[u] /\ waited'[u] = waited[u]

LEMMA RefreshBegins ==
  ASSUME TileTypeOK, NEW t \in Task, NEW k \in Kind, NEW d \in Setting, refresh(t, k, d)
  PROVE  /\ Begun(t, k, d)
         /\ kind' \in [Task -> Kind] /\ domain' \in [Task -> Setting]
         /\ waited' \in [Task -> 0 .. FETCH] /\ value' \in [Task -> Answer \cup {None}]
BY ConstantTypes DEF TileTypeOK, refresh, Become, Free, Begun

\* Ticks that were under way still are.
LEMMA DueStays ==
  ASSUME NEW t \in Task, NEW k, NEW d, Begun(t, k, d), UNCHANGED <<offset, timer, shown>>
  PROVE  /\ GreenDue => GreenDue'
         /\ WrongDue /\ settings' = settings => WrongDue'
BY DEF Begun, GreenDue, WrongDue, Limit

\* A handler that will start the timer, from the event that carries its
\* settings (onWillAppear, onDidReceiveSettings).
LEMMA HandlerKeeps ==
  ASSUME IInv, TileTypeOK', NEW t \in Task, NEW k \in {"appear", "settings"}, NEW d,
         Begun(t, k, d), settings' = d, UNCHANGED <<offset, timer, shown>>,
         contested' = (Starting # {})
  PROVE  IInv'
<1>1. t \in Starting'
  BY DEF Begun, Starting
<1>2. \A u \in Task : kind'[u] = "refreshed" => kind[u] = "refreshed" /\ u \in Starting
  BY DEF Begun, Starting
<1>3. Kept'
  BY <1>1, <1>2 DEF IInv, Kept
<1>4. GreenInv'
  BY <1>2, DueStays DEF IInv, GreenInv, Limit
<1>5. OwnSettings'
  BY DEF OwnSettings, Begun, Starting
<1>6. WrongInv'
  BY <1>1, <1>2 DEF WrongInv, Settled
<1> QED
  BY <1>3, <1>4, <1>5, <1>6 DEF IInv

\* A task that will not: a press or a tick.
LEMMA OtherBegins ==
  ASSUME NEW t \in Task, NEW k \in {"press", "tick"}, NEW d, Begun(t, k, d)
  PROVE  /\ Starting' = Starting
         /\ \A u \in Task : kind'[u] = "refreshed" <=> kind[u] = "refreshed"
         /\ \A u \in Starting : domain'[u] = domain[u]
BY DEF Begun, Starting

\* A press repaints sooner, or not at all (onKeyDown).
LEMMA PressKeeps ==
  ASSUME IInv, TileTypeOK', NEW t \in Task, NEW d, Begun(t, "press", d),
         UNCHANGED <<offset, visible, settings, timer, shown, contested>>
  PROVE  IInv'
<1>1. /\ Starting' = Starting
      /\ \A u \in Task : kind'[u] = "refreshed" <=> kind[u] = "refreshed"
      /\ \A u \in Starting : domain'[u] = domain[u]
  BY OtherBegins
<1>2. Kept' /\ OwnSettings'
  BY <1>1 DEF IInv, Kept, OwnSettings
<1>3. GreenInv'
  BY <1>1, DueStays DEF IInv, GreenInv, Limit
<1>4. WrongInv'
  BY <1>1, DueStays DEF IInv, WrongInv, Settled
<1> QED
  BY <1>2, <1>3, <1>4 DEF IInv

\* The tick takes over from the timer: what was no older than the interval is
\* no older than the interval and a tick that has not waited yet.
LEMMA TickKeeps ==
  ASSUME IInv, TileTypeOK', NEW t \in Task, TimerFires(t), Begun(t, "tick", timer.domain)
  PROVE  IInv'
<1>0. timer \in Timer /\ timer' \in Timer /\ timer'.domain = timer.domain /\ timer.left = 0
  BY ConstantTypes DEF IInv, TileTypeOK, TimerFires, Timer
<1>1. /\ Starting' = Starting
      /\ \A u \in Task : kind'[u] = "refreshed" <=> kind[u] = "refreshed"
      /\ \A u \in Starting : domain'[u] = domain[u]
  BY OtherBegins
<1>2. shown \in Image /\ shown' = shown /\ Limit \in Int /\ Limit' = Limit
  BY ConstantTypes DEF IInv, TileTypeOK, Kept, TimerFires, Limit
<1>3. Kept'
  BY <1>0, <1>1, <1>2, ConstantTypes DEF IInv, Kept, TimerFires
<1>4. OwnSettings'
  BY <1>1 DEF IInv, OwnSettings, TimerFires
<1>5. GreenInv'
  <2>1. GreenDue => GreenDue'
    BY <1>0, <1>2, ConstantTypes DEF GreenDue, Begun, Image
  <2> QED
    BY <1>0, <1>1, <1>2, <2>1 DEF IInv, GreenInv, TimerFires
<1>6. WrongInv'
  <2>1. timer.domain = settings /\ settings' = settings /\ WrongDue => WrongDue'
    BY <1>0, <1>2, ConstantTypes DEF WrongDue, Begun, Image
  <2> QED
    BY <1>0, <1>1, <1>2, <2>1 DEF IInv, WrongInv, Settled, TimerFires
<1> QED
  BY <1>3, <1>4, <1>5, <1>6 DEF IInv

-----------------------------------------------------------------------------
(***************************************************************************)
(* A task paints, or starts the timer.                                     *)
(***************************************************************************)
\* What a repaint does to the image.
LEMMA Repaint ==
  ASSUME TileTypeOK, NEW t \in Task, NEW green \in BOOLEAN, NEW age \in Int, Paint(t, green, age)
  PROVE  /\ shown' \in Image
         /\ shown'.domain = domain[t] /\ shown'.green = green /\ shown'.age = age
         /\ shown'.wrong = 0 \/ (shown \in Image /\ shown.domain = domain[t] /\ shown'.wrong = shown.wrong)
<1>1. domain[t] \in Setting
  BY DEF TileTypeOK
<1>2. ShowsDomain(domain[t]) => shown \in Image /\ shown.domain = domain[t] /\ shown.wrong \in Nat
  BY DEF TileTypeOK, ShowsDomain, Image
<1> QED
  BY <1>1, <1>2 DEF Paint, Image

\* What it does to the tasks: its own is over or goes on to start the timer.
LEMMA PaintTasks ==
  ASSUME TileTypeOK, NEW t \in Task, Refreshing(t), NEW green, NEW age, Paint(t, green, age)
  PROVE  /\ kind' \in [Task -> Kind] /\ domain' \in [Task -> Setting]
         /\ waited' \in [Task -> 0 .. FETCH] /\ value' \in [Task -> Answer \cup {None}]
         /\ Starting' = Starting
         /\ \A u \in Starting : domain'[u] = domain[u]
         /\ kind'[t] \in {"none", "refreshed"}
         /\ \A u \in Task \ {t} : kind'[u] = kind[u] /\ domain'[u] = domain[u] /\ waited'[u] = waited[u]
<1>1. kind' \in [Task -> Kind] /\ kind'[t] = IF t \in Starting THEN "refreshed" ELSE "none"
  BY DEF TileTypeOK, Paint, Become, Kind
<1>2. domain' \in [Task -> Setting] /\ domain'[t] = IF t \in Starting THEN domain[t] ELSE NoDomain
  BY ConstantTypes DEF TileTypeOK, Paint, Become
<1>3. waited' \in [Task -> 0 .. FETCH] /\ value' \in [Task -> Answer \cup {None}]
  BY ConstantTypes DEF TileTypeOK, Paint, Become
<1>4. \A u \in Task \ {t} : kind'[u] = kind[u] /\ domain'[u] = domain[u] /\ waited'[u] = waited[u]
  BY DEF TileTypeOK, Paint, Become
<1>5. Starting' = Starting
  BY <1>1, <1>4 DEF Starting
<1> QED
  BY <1>1, <1>2, <1>3, <1>4, <1>5 DEF Starting

\* A new image is within its limit when it is green, and when it is wrong it
\* has just become so or is the one that was wrong before (statusVisual,
\* setImage).
LEMMA PaintKeeps ==
  ASSUME IInv, NEW t \in Task, Refreshing(t), NEW green \in BOOLEAN, NEW age \in Int,
         green => age <= Limit, Paint(t, green, age),
         UNCHANGED <<offset, visible, settings, timer, contested>>
  PROVE  IInv'
<1> DEFINE others == \A u \in Task \ {t} : kind'[u] = kind[u] /\ domain'[u] = domain[u] /\ waited'[u] = waited[u]
<1>1. /\ shown' \in Image
      /\ shown'.domain = domain[t] /\ shown'.green = green /\ shown'.age = age
      /\ shown'.wrong = 0 \/ (shown \in Image /\ shown.domain = domain[t] /\ shown'.wrong = shown.wrong)
  BY Repaint DEF IInv
<1>2. /\ kind' \in [Task -> Kind] /\ domain' \in [Task -> Setting]
      /\ waited' \in [Task -> 0 .. FETCH] /\ value' \in [Task -> Answer \cup {None}]
      /\ Starting' = Starting
      /\ \A u \in Starting : domain'[u] = domain[u]
      /\ kind'[t] \in {"none", "refreshed"}
      /\ others
  BY PaintTasks DEF IInv
<1>3. TileTypeOK'
  BY <1>1, <1>2 DEF IInv, TileTypeOK
<1>4. Kept'
  BY <1>1, <1>2 DEF IInv, Kept
<1>5. OwnSettings'
  BY <1>2 DEF IInv, OwnSettings
<1>6. Limit' = Limit /\ Limit \in Int
  BY ConstantTypes DEF Limit, IInv, TileTypeOK
<1>7. GreenInv'
  <2>1. timer # None => REFRESH - timer.left \in Nat
    BY ConstantTypes DEF IInv, TileTypeOK, Timer
  <2>2. timer # None /\ green => GreenDue'
    BY <1>1, <1>6, <2>1, ConstantTypes DEF GreenDue, IInv, TileTypeOK, Timer
  <2> QED
    BY <1>1, <1>6, <2>2 DEF GreenInv
<1>8. WrongInv'
  <2>1. ASSUME Settled, ~contested, domain[t] # settings
        PROVE  WrongDue'
    <3>1. timer \in Timer
      BY <2>1, SettledHasImage DEF IInv
    <3>2. CASE shown'.wrong = 0
      BY <3>1, <3>2, ConstantTypes DEF WrongDue, Timer
    <3>3. CASE shown.domain = domain[t] /\ shown'.wrong = shown.wrong
      <4>1. WrongDue
        BY <2>1, <3>3 DEF IInv, WrongInv
      <4> QED
        BY <1>2, <2>1, <3>3, <4>1 DEF WrongDue
    <3> QED
      BY <1>1, <3>2, <3>3
  <2>2. ASSUME NEW u \in Task, kind'[u] = "refreshed", ~contested, domain[t] # settings
        PROVE  shown'.wrong = 0
    <3>1. u # t
      <4> SUFFICES ASSUME u = t PROVE FALSE
        OBVIOUS
      <4>1. t \in Starting
        BY <1>2, <2>2 DEF Starting
      <4> QED
        BY <2>2, <4>1 DEF IInv, OwnSettings
    <3>2. kind[u] = "refreshed"
      BY <1>2, <2>2, <3>1
    <3> QED
      BY <1>1, <2>2, <3>2 DEF IInv, WrongInv
  <2> QED
    BY <1>1, <1>2, <2>1, <2>2 DEF IInv, WrongInv, Settled
<1> QED
  BY <1>3, <1>4, <1>5, <1>7, <1>8 DEF IInv

\* No time has passed since the handler that starts the timer has painted.
LEMMA StartKeeps ==
  ASSUME IInv, NEW t \in Task, startTimer(t)
  PROVE  IInv'
<1>1. /\ kind' \in [Task -> Kind] /\ domain' \in [Task -> Setting]
      /\ waited' \in [Task -> 0 .. FETCH] /\ value' \in [Task -> Answer \cup {None}]
  BY ConstantTypes DEF IInv, TileTypeOK, startTimer, Become, Kind
<1>2. /\ kind'[t] = "none"
      /\ \A u \in Task \ {t} : kind'[u] = kind[u] /\ domain'[u] = domain[u] /\ waited'[u] = waited[u]
  BY DEF IInv, TileTypeOK, startTimer, Become
<1>3. /\ t \in Starting /\ domain[t] \in Setting
      /\ timer' \in Timer /\ timer'.domain = domain[t] /\ timer'.left = REFRESH
  BY ConstantTypes DEF IInv, TileTypeOK, startTimer, Timer, Starting
<1>4. shown \in Image /\ shown' = shown /\ Limit' = Limit /\ Limit \in Int /\ timer' # None
  BY <1>3, ConstantTypes DEF IInv, TileTypeOK, Kept, startTimer, Limit
<1>5. TileTypeOK'
  BY <1>1, <1>3, <1>4 DEF IInv, TileTypeOK, startTimer
<1>6. Kept' /\ OwnSettings'
  BY <1>2, <1>4 DEF IInv, Kept, OwnSettings, startTimer, Starting
<1>7. GreenInv'
  <2>1. shown.green => shown.age <= Limit
    BY DEF IInv, GreenInv, startTimer
  <2>2. shown.green => GreenDue'
    BY <1>3, <1>4, <2>1, ConstantTypes DEF GreenDue, Image
  <2> QED
    BY <1>4, <2>1, <2>2 DEF GreenInv
<1>8. WrongInv'
  <2>1. ~contested => domain[t] = settings
    BY <1>3 DEF IInv, OwnSettings
  <2>2. ~contested /\ shown.domain # settings => shown.wrong = 0
    BY DEF IInv, WrongInv, startTimer
  <2>3. ~contested /\ shown.domain # settings => WrongDue'
    BY <1>3, <1>4, <2>2, ConstantTypes DEF WrongDue
  <2> QED
    BY <1>3, <1>4, <2>1, <2>2, <2>3 DEF WrongInv, startTimer
<1> QED
  BY <1>5, <1>6, <1>7, <1>8 DEF IInv

-----------------------------------------------------------------------------
(***************************************************************************)
(* The other steps.                                                        *)
(***************************************************************************)
\* A second ages the image, the timer and the ticks alike, and does not pass
\* over a handler that has painted and not started its timer.
LEMMA SecondKeeps == IInv /\ Second => IInv'
<1> SUFFICES ASSUME IInv, Second PROVE IInv'
  OBVIOUS
<1>1. /\ offset \in Int /\ Limit \in Int /\ Limit' = Limit
      /\ Oldest \in Int /\ Longest \in Nat
  BY ConstantTypes DEF IInv, TileTypeOK, Limit, Oldest, Longest, Second
<1>2. \A t \in Task : kind[t] # "refreshed" /\ kind'[t] = kind[t]
  BY DEF Second
<1>3. Starting' = Starting
  BY <1>2 DEF Starting
<1>4. ASSUME timer # None
      PROVE  /\ timer \in Timer /\ timer' \in Timer /\ timer'.domain = timer.domain
             /\ timer'.left = timer.left - 1
  BY <1>4, ConstantTypes DEF IInv, TileTypeOK, Second, Timer
<1>5. ASSUME NEW t \in Task
      PROVE  /\ waited'[t] \in 0 .. FETCH
             /\ kind[t] = "tick" => waited'[t] = waited[t] + 1
  BY ConstantTypes DEF IInv, TileTypeOK, Second, Refreshing
<1>6. ASSUME shown \in Image
      PROVE  /\ shown' \in Image /\ shown'.domain = shown.domain /\ shown'.green = shown.green
             /\ shown.green => shown'.age <= shown.age + 1
             /\ shown.domain # settings => shown'.wrong <= shown.wrong + 1
  <2>1. CASE shown = None
    BY <1>6, <2>1 DEF Second, Image
  <2>2. CASE shown # None
    <3> DEFINE a == IF shown.green THEN UpTo(Oldest + 1, shown.age + 1) ELSE 0
               w == IF shown.domain # settings THEN UpTo(Longest + 1, shown.wrong + 1) ELSE 0
    <3>1. a \in Int /\ (shown.green => a <= shown.age + 1)
      BY <1>1, <1>6 DEF UpTo, Image
    <3>2. w \in Nat /\ (shown.domain # settings => w <= shown.wrong + 1)
      BY <1>1, <1>6 DEF UpTo, Image
    <3>3. shown' = [shown EXCEPT !.age = a, !.wrong = w]
      BY <2>2 DEF Second
    <3> HIDE DEF a, w
    <3> QED
      BY <1>6, <3>1, <3>2, <3>3 DEF Image
  <2> QED
    BY <2>1, <2>2
<1>7. TileTypeOK'
  <2>1. offset' \in Offset /\ settings' \in Setting /\ kind' \in [Task -> Kind] /\ domain' \in [Task -> Setting]
    BY DEF IInv, TileTypeOK, Second
  <2>2. visible' \in BOOLEAN /\ contested' \in BOOLEAN
    BY DEF IInv, TileTypeOK, Second
  <2>3. timer' \in Timer \cup {None}
    BY <1>4 DEF Second
  <2>4. waited' \in [Task -> 0 .. FETCH]
    BY <1>5 DEF Second
  <2>5. value' \in [Task -> Answer \cup {None}]
    <3> SUFFICES ASSUME NEW t \in Task PROVE value'[t] \in Answer \cup {None}
      BY DEF Second
    <3>1. value[t] \in Answer \cup {None}
      BY DEF IInv, TileTypeOK
    <3>2. value'[t] = IF value[t] = None THEN None
                      ELSE [value[t] EXCEPT !.age = IF value[t].good THEN @ + 1 ELSE 0]
      BY DEF Second
    <3> QED
      BY <3>1, <3>2 DEF Answer
  <2>6. shown' \in Image \cup {None}
    BY <1>6 DEF IInv, TileTypeOK, Second
  <2> QED
    BY <2>1, <2>2, <2>3, <2>4, <2>5, <2>6 DEF TileTypeOK
<1>8. Kept'
  BY <1>2, <1>3, <1>4, <1>6, ConstantTypes DEF IInv, Kept, Second
<1>9. OwnSettings'
  BY <1>3 DEF IInv, OwnSettings, Second
<1>10. GreenInv'
  <2>1. ASSUME timer' # None, shown'.green PROVE GreenDue'
    <3>1. timer # None
      BY <2>1 DEF Second
    <3>2. timer.left \in Int /\ timer'.left = timer.left - 1 /\ shown \in Image
      BY <1>4, <3>1 DEF Timer, IInv, Kept
    <3>3. shown.age \in Int /\ shown'.age \in Int /\ shown'.age <= shown.age + 1 /\ shown.green
      BY <1>6, <2>1, <3>2 DEF Image
    <3>4. GreenDue
      BY <3>1, <3>3 DEF IInv, GreenInv
    <3>5. CASE shown.age <= Limit + REFRESH - timer.left
      BY <1>1, <3>2, <3>3, <3>5, ConstantTypes DEF GreenDue
    <3>6. CASE \E t \in Task : kind[t] = "tick" /\ shown.age <= Limit + REFRESH + waited[t]
      <4>1. PICK t \in Task : kind[t] = "tick" /\ shown.age <= Limit + REFRESH + waited[t]
        BY <3>6
      <4>2. waited[t] \in Int /\ waited'[t] = waited[t] + 1 /\ kind'[t] = "tick"
        BY <1>2, <1>5, <4>1 DEF IInv, TileTypeOK
      <4>3. shown'.age <= Limit' + REFRESH + waited'[t]
        BY <1>1, <3>3, <4>1, <4>2, ConstantTypes
      <4> QED
        BY <4>2, <4>3 DEF GreenDue
    <3> QED
      BY <3>4, <3>5, <3>6 DEF GreenDue
  <2> QED
    BY <1>2, <2>1 DEF GreenInv
<1>11. WrongInv'
  <2>1. ASSUME Settled', ~contested', shown'.domain # settings' PROVE WrongDue'
    <3>1. Settled /\ ~contested /\ settings' = settings
      BY <1>3, <2>1 DEF Settled, Second
    <3>2. timer \in Timer /\ shown \in Image
      BY <3>1, SettledHasImage DEF IInv
    <3>3. timer.left \in Int /\ timer'.left = timer.left - 1
      BY <1>4, <3>2, ConstantTypes DEF Timer
    <3>4. shown.wrong \in Int /\ shown'.wrong \in Int /\ shown'.wrong <= shown.wrong + 1
      BY <1>6, <2>1, <3>1, <3>2 DEF Image
    <3>5. WrongDue
      BY <1>6, <2>1, <3>1, <3>2 DEF IInv, WrongInv
    <3>6. CASE shown.wrong <= REFRESH - timer.left
      BY <3>3, <3>4, <3>6, ConstantTypes DEF WrongDue
    <3>7. CASE \E t \in Task : kind[t] = "tick" /\ domain[t] = settings /\ shown.wrong <= REFRESH + waited[t]
      <4>1. PICK t \in Task : kind[t] = "tick" /\ domain[t] = settings /\ shown.wrong <= REFRESH + waited[t]
        BY <3>7
      <4>2. /\ waited[t] \in Int /\ waited'[t] = waited[t] + 1
            /\ kind'[t] = "tick" /\ domain'[t] = settings'
        BY <1>2, <1>5, <4>1 DEF IInv, TileTypeOK, Second
      <4>3. shown'.wrong <= REFRESH + waited'[t]
        BY <3>4, <4>1, <4>2, ConstantTypes
      <4> QED
        BY <4>2, <4>3 DEF WrongDue
    <3> QED
      BY <3>5, <3>6, <3>7 DEF WrongDue
  <2>2. Settled' /\ ~contested' => timer'.domain = settings'
    <3> SUFFICES ASSUME Settled', ~contested' PROVE timer'.domain = settings'
      OBVIOUS
    <3>1. Settled /\ ~contested /\ settings' = settings
      BY <1>3 DEF Settled, Second
    <3>2. timer # None
      BY <3>1, SettledHasImage, ConstantTypes DEF IInv
    <3> QED
      BY <1>4, <3>1, <3>2 DEF IInv, WrongInv
  <2> QED
    BY <1>2, <2>1, <2>2 DEF WrongInv
<1> QED
  BY <1>7, <1>8, <1>9, <1>10, <1>11 DEF IInv

\* A key that leaves the page has no timer (onWillDisappear).
LEMMA DisappearKeeps == IInv /\ onWillDisappear => IInv'
<1> SUFFICES ASSUME IInv, onWillDisappear PROVE IInv'
  OBVIOUS
<1>1. ~visible' /\ timer' = None /\ Starting' = Starting
  BY DEF onWillDisappear, Starting
<1>2. TileTypeOK'
  BY <1>1 DEF IInv, TileTypeOK, onWillDisappear
<1> QED
  BY <1>1, <1>2 DEF IInv, Kept, GreenInv, OwnSettings, WrongInv, Settled, Limit, onWillDisappear

\* What only concerns the values on their way to a task.
LEMMA ValuesKeep ==
  ASSUME IInv, value' \in [Task -> Answer \cup {None}],
         UNCHANGED <<offset, visible, settings, timer, kind, domain, waited, shown, contested>>
  PROVE  IInv'
<1>1. TileTypeOK'
  BY DEF IInv, TileTypeOK
<1>2. Starting' = Starting
  BY DEF Starting
<1>3. GreenInv' /\ WrongInv'
  BY <1>2 DEF IInv, GreenInv, WrongInv, GreenDue, WrongDue, Limit, Settled
<1> QED
  BY <1>1, <1>2, <1>3 DEF IInv, Kept, OwnSettings

\* What the broker answers is typed (status.py StatusAggregator.domain).
LEMMA ObserveKeeps ==
  ASSUME IInv, NEW t \in Task, Observe(t)
  PROVE  IInv'
<1>1. PICK answer \in [good : {TRUE}, age : 0 .. MaxLag] \cup {[good |-> FALSE, age |-> 0]} :
        value' = [value EXCEPT ![t] = answer]
  BY DEF Observe
<1>2. answer \in Answer
  <2>1. 0 .. MaxLag \subseteq Nat /\ 0 \in Nat /\ {TRUE} \subseteq BOOLEAN
    BY ConstantTypes
  <2>2. CASE answer \in [good : {TRUE}, age : 0 .. MaxLag]
    BY <2>1, <2>2 DEF Answer
  <2>3. CASE answer = [good |-> FALSE, age |-> 0]
    BY <2>1, <2>3 DEF Answer
  <2> QED
    BY <1>1, <2>2, <2>3
<1>3. value' \in [Task -> Answer \cup {None}]
  BY <1>1, <1>2 DEF IInv, TileTypeOK
<1> QED
  BY <1>3, ValuesKeep DEF Observe

\* Every step of a task keeps the invariant.
LEMMA TaskKeeps ==
  ASSUME IInv, NEW t \in Task,
         \/ onWillAppear(t) \/ onKeyDown(t) \/ TimerFires(t)
         \/ \E d \in Setting : onDidReceiveSettings(t, d)
         \/ NotConfigured(t) \/ Observe(t) \/ StatusReturns(t) \/ RefreshFails(t) \/ startTimer(t)
  PROVE  IInv'
<1>0. TileTypeOK /\ settings \in Setting
  BY DEF IInv, TileTypeOK
<1> DEFINE taskTypes ==
      /\ kind' \in [Task -> Kind] /\ domain' \in [Task -> Setting]
      /\ waited' \in [Task -> 0 .. FETCH] /\ value' \in [Task -> Answer \cup {None}]
<1>1. CASE onWillAppear(t)
  <2>1. Begun(t, "appear", settings) /\ taskTypes
    BY <1>0, <1>1, RefreshBegins DEF onWillAppear, Handle, Kind
  <2>2. contested' = (Starting # {}) /\ settings' = settings /\ UNCHANGED <<offset, timer, shown>>
    BY <1>1 DEF onWillAppear, Handle
  <2>3. visible' \in BOOLEAN /\ contested' \in BOOLEAN
    BY <1>1, <2>2 DEF onWillAppear
  <2>4. TileTypeOK'
    BY <1>0, <2>1, <2>2, <2>3 DEF TileTypeOK
  <2> QED
    BY <2>1, <2>2, <2>4, HandlerKeeps
<1>2. CASE onKeyDown(t)
  <2>1. Begun(t, "press", settings) /\ taskTypes
    BY <1>0, <1>2, RefreshBegins DEF onKeyDown, Handle, Kind
  <2>2. UNCHANGED <<offset, visible, settings, timer, shown, contested>>
    BY <1>2 DEF onKeyDown, Handle
  <2>3. TileTypeOK'
    BY <1>0, <2>1, <2>2 DEF TileTypeOK
  <2> QED
    BY <2>1, <2>2, <2>3, PressKeeps
<1>3. CASE TimerFires(t)
  <2>1. timer \in Timer /\ timer.domain \in Setting /\ timer' \in Timer
    BY <1>0, <1>3, ConstantTypes DEF TileTypeOK, TimerFires, Timer
  <2>2. Begun(t, "tick", timer.domain) /\ taskTypes
    BY <1>0, <1>3, <2>1, RefreshBegins DEF TimerFires, Kind
  <2>3. TileTypeOK'
    BY <1>0, <1>3, <2>1, <2>2 DEF TileTypeOK, TimerFires
  <2> QED
    BY <1>3, <2>2, <2>3, TickKeeps
<1>4. ASSUME NEW d \in Setting, onDidReceiveSettings(t, d) PROVE IInv'
  <2>1. Begun(t, "settings", d) /\ taskTypes
    BY <1>0, <1>4, RefreshBegins DEF onDidReceiveSettings, Handle, Kind
  <2>2. contested' = (Starting # {}) /\ settings' = d /\ UNCHANGED <<offset, visible, timer, shown>>
    BY <1>4 DEF onDidReceiveSettings, Handle
  <2>3. contested' \in BOOLEAN
    BY <2>2
  <2>4. TileTypeOK'
    BY <1>0, <2>1, <2>2, <2>3 DEF TileTypeOK
  <2> QED
    BY <2>1, <2>2, <2>4, HandlerKeeps
<1>5. CASE NotConfigured(t) \/ RefreshFails(t)
  <2>1. /\ Refreshing(t) /\ Paint(t, FALSE, 0)
        /\ UNCHANGED <<offset, visible, settings, timer, contested>>
    BY <1>5 DEF NotConfigured, RefreshFails
  <2>2. PICK green \in BOOLEAN : green = FALSE
    OBVIOUS
  <2>3. Paint(t, green, 0)
    BY <2>1, <2>2
  <2> QED
    BY <2>1, <2>2, <2>3, PaintKeeps
<1>6. CASE StatusReturns(t)
  <2> DEFINE green == statusVisual(value[t])
             age == IF green THEN value[t].age ELSE 0
  <2>1. value[t] \in Answer /\ offset \in Int
    BY <1>0, <1>6, ConstantTypes DEF TileTypeOK, StatusReturns
  <2>2. green \in BOOLEAN
    BY <2>1 DEF statusVisual, Answer
  <2>3. age \in Int /\ (green => age <= Limit)
    BY <2>1, ConstantTypes DEF statusVisual, IsStale, Limit, Answer
  <2>4. /\ Refreshing(t) /\ Paint(t, green, age)
        /\ UNCHANGED <<offset, visible, settings, timer, contested>>
    BY <1>6 DEF StatusReturns
  <2> HIDE DEF green, age
  <2> QED
    BY <2>2, <2>3, <2>4, PaintKeeps
<1> QED
  BY <1>1, <1>2, <1>3, <1>4, <1>5, <1>6, ObserveKeeps, StartKeeps

-----------------------------------------------------------------------------
\* The inductive invariant of StatusTile holds in every behaviour.
THEOREM TileInvariance == Spec => []IInv
<1>1. IInv /\ UNCHANGED tileVars => IInv'
  <2> SUFFICES ASSUME IInv, UNCHANGED tileVars PROVE IInv'
    OBVIOUS
  <2>1. value' \in [Task -> Answer \cup {None}]
    BY DEF IInv, TileTypeOK, tileVars
  <2> QED
    BY <2>1, ValuesKeep DEF tileVars
<1>2. IInv /\ [Next]_tileVars => IInv'
  BY <1>1, DisappearKeeps, TaskKeeps, SecondKeeps DEF Next
<1> QED
  BY InitHolds, <1>2, PTL DEF Spec

\* Timers, tasks, answers and the image keep their types, and no fetch
\* outlasts its timeouts (status.ts).
THEOREM TileTypes == Spec => []TileTypeOK
<1>1. IInv => TileTypeOK
  BY DEF IInv
<1> QED
  BY TileInvariance, <1>1, PTL

\* A settled key is never green for what is older than its limit, the error
\* of the clocks, an interval and a fetch (status.ts, visual.ts).
THEOREM RecentGreen == Spec => []GreenIsRecent
<1>1. IInv => GreenIsRecent
  <2> SUFFICES ASSUME IInv, Settled, shown.green PROVE shown.age <= Oldest
    BY DEF GreenIsRecent
  <2>1. timer \in Timer /\ shown \in Image
    BY SettledHasImage DEF IInv
  <2>2. GreenDue
    BY <2>1, ConstantTypes DEF IInv, GreenInv
  <2> QED
    BY <2>1, <2>2, DueIsBounded DEF IInv
<1> QED
  BY TileInvariance, <1>1, PTL

\* A settled key whose handlers did not overlap shows another domain than its
\* own for an interval and a fetch at most, whatever late answers arrive
\* (status.ts startTimer, refresh).
THEOREM DomainHeals == Spec => []WrongDomainHeals
<1>1. IInv => WrongDomainHeals
  <2> SUFFICES ASSUME IInv, Settled, ~contested, shown.domain # settings PROVE shown.wrong <= Longest
    BY DEF WrongDomainHeals
  <2>1. timer \in Timer /\ shown \in Image
    BY SettledHasImage DEF IInv
  <2>2. WrongDue
    BY DEF IInv, WrongInv
  <2> QED
    BY <2>1, <2>2, DueIsBounded DEF IInv
<1> QED
  BY TileInvariance, <1>1, PTL
=============================================================================
