------------------------- MODULE ResyncTickerProofs -------------------------
(***************************************************************************)
(* What holds of the resync ticker for any intervals, any number of        *)
(* updates and any interleaving of the watcher with the tickers.           *)
(***************************************************************************)
EXTENDS ResyncTicker, TLAPS

Flags == running \in BOOLEAN

Tickers == tickers \in [Ids -> [pc : {"none", "launched", "loop"}, interval : Int]]

Updates == config \in Settings /\ updates \in Seq(Settings \X Settings)

(* The configuration and the updates in the channel are settings. *)
LEMMA UpdatesType == Spec => []Updates
<1>1. Init => Updates BY DEF Init, Updates
<1>2. Updates /\ [Next]_vars => Updates'
  <2> SUFFICES ASSUME Updates, [Next]_vars PROVE Updates' OBVIOUS
  <2>1. ASSUME NEW new \in Settings, UpdateMeshConfig(new) PROVE Updates'
    BY <2>1 DEF UpdateMeshConfig, Updates
  <2>2. CASE HandleUpdate
    BY <2>2 DEF HandleUpdate, Updates
  <2>3. CASE UNCHANGED <<config, updates>>
    BY <2>3 DEF Updates
  <2>4. \/ \E new \in Settings : UpdateMeshConfig(new)
        \/ HandleUpdate
        \/ UNCHANGED <<config, updates>>
    BY DEF Next, CloseQuit, WatcherStep, Subscribe, HandleQuit, AfterStop, SendStop,
           TickerRuns, Tick, Dequeue, vars
  <2> QED BY <2>1, <2>2, <2>3, <2>4
<1> QED BY <1>1, <1>2, PTL DEF Spec
-----------------------------------------------------------------------------
(* While the watcher is not in the middle of stopTicker the flag is only up  *)
(* if a ticker loops; and the watcher only goes to restart with the flag up. *)
FlagHasTicker ==
  /\ watcher \in {"start", "select", "restart"} => (running => Looping # {})
  /\ watcher = "restart" => running

(* Intervals on their way to a ticker are long enough. *)
LongEnough ==
  /\ NeverFasterThanMin
  /\ watcher \in {"restart", "clear_restart"} => pending \in Int /\ pending >= MinTickInterval

TickerInv == Flags /\ Tickers /\ FlagHasTicker /\ LongEnough

(* A launch leaves the looping tickers alone and adds one long enough. *)
LEMMA LaunchKeeps ==
  ASSUME Tickers, NeverFasterThanMin, NEW d \in Int, d >= MinTickInterval, Launch(d)
  PROVE  Tickers' /\ NeverFasterThanMin' /\ (Looping # {} => Looping' # {})
<1> PICK t \in Ids \ Alive :
      tickers' = [tickers EXCEPT ![t] = [pc |-> "launched", interval |-> d]]
  BY DEF Launch
<1>1. Tickers' BY DEF Tickers
<1>2. NeverFasterThanMin' BY DEF Tickers, NeverFasterThanMin, Alive
<1>3. ASSUME NEW u \in Looping PROVE u \in Looping'
  BY DEF Looping, Alive, Tickers
<1> QED BY <1>1, <1>2, <1>3

(* Every step keeps the invariant on tickers. *)
LEMMA TickerStep == Updates /\ TickerInv /\ [Next]_vars => TickerInv'
<1> SUFFICES ASSUME Updates, TickerInv, [Next]_vars PROVE TickerInv' OBVIOUS
<1> USE DEF TickerInv
<1>1. CASE UNCHANGED <<watcher, pending, tickers, running>>
  BY <1>1 DEF Flags, Tickers, FlagHasTicker, LongEnough, NeverFasterThanMin, Looping, Alive
<1>2. CASE Subscribe
  <2>1. Flags' BY <1>2 DEF Subscribe, Flags
  <2> QED BY <1>2, <2>1
      DEF Subscribe, Tickers, FlagHasTicker, LongEnough, NeverFasterThanMin, Looping, Alive
<1>3. CASE HandleUpdate
  <2> DEFINE new == Head(updates)[2]
  <2>1. new \in Settings BY <1>3 DEF HandleUpdate, Updates
  <2>2. Flags' BY <1>3 DEF HandleUpdate, Flags
  <2>3. CASE UNCHANGED <<watcher, pending, tickers>>
    BY <1>3, <2>2, <2>3
    DEF HandleUpdate, Tickers, FlagHasTicker, LongEnough, NeverFasterThanMin, Looping, Alive
  <2>4. CASE new \in Int /\ Allowed(new) /\ running /\ watcher' = "restart" /\ pending' = new
             /\ UNCHANGED tickers
    BY <1>3, <2>2, <2>4
    DEF HandleUpdate, Allowed, Tickers, FlagHasTicker, LongEnough, NeverFasterThanMin,
        Looping, Alive
  <2>5. CASE new \in Int /\ Allowed(new) /\ Launch(new) /\ UNCHANGED <<watcher, pending>>
    <3>1. Tickers' /\ NeverFasterThanMin' /\ (Looping # {} => Looping' # {})
      BY <2>5, LaunchKeeps DEF Allowed, LongEnough
    <3> QED BY <1>3, <2>2, <2>5, <3>1 DEF HandleUpdate, FlagHasTicker, LongEnough
  <2>6. CASE watcher' = "stop" /\ UNCHANGED <<pending, tickers>>
    BY <1>3, <2>2, <2>6
    DEF HandleUpdate, Tickers, FlagHasTicker, LongEnough, NeverFasterThanMin, Looping, Alive
  <2>7. new \notin {Unset, Junk} => new \in Int
    BY <2>1, TickerConstants DEF Settings
  <2> QED BY <1>3, <2>3, <2>4, <2>5, <2>6, <2>7 DEF HandleUpdate, StopFirst
<1>4. CASE HandleQuit
  BY <1>4 DEF HandleQuit, Flags, Tickers, FlagHasTicker, LongEnough, NeverFasterThanMin,
              Looping, Alive
<1>5. CASE AfterStop
  <2>1. Flags' BY <1>5 DEF AfterStop, Stopped, Flags
  <2>2. Tickers' /\ NeverFasterThanMin'
    <3>1. CASE watcher = "clear_restart"
      BY <1>5, <3>1, LaunchKeeps DEF AfterStop, LaunchFollows, LongEnough
    <3>2. CASE watcher # "clear_restart"
      BY <1>5, <3>2 DEF AfterStop, LaunchFollows, LongEnough, Tickers, NeverFasterThanMin,
                           Alive
    <3> QED BY <3>1, <3>2
  <2>3. FlagHasTicker' BY <1>5 DEF AfterStop, Stopped, FlagHasTicker
  <2> QED BY <1>5, <2>1, <2>2, <2>3 DEF AfterStop, LongEnough
<1>6. ASSUME NEW t \in Ids, SendStop(t) PROVE TickerInv'
  <2>1. Flags' BY <1>6 DEF SendStop, Flags
  <2>2. Tickers' /\ NeverFasterThanMin'
    BY <1>6 DEF SendStop, NoTicker, Off, LongEnough, Tickers, NeverFasterThanMin, Alive
  <2>3. watcher' \in {"clear_restart", "clear_stop", "clear_quit"}
        /\ (watcher' = "clear_restart" => watcher = "restart")
    BY <1>6 DEF SendStop
  <2> QED BY <1>6, <2>1, <2>2, <2>3 DEF SendStop, FlagHasTicker, LongEnough
<1>7. ASSUME NEW t \in Ids, TickerRuns(t) PROVE TickerInv'
  <2>1. Flags' BY <1>7, Zenon DEF TickerRuns, Flags
  <2>2. Tickers' /\ NeverFasterThanMin'
    BY <1>7 DEF TickerRuns, LongEnough, Tickers, NeverFasterThanMin, Alive
  <2>3. t \in Looping' BY <1>7 DEF TickerRuns, Looping, Tickers
  <2>4. FlagHasTicker' BY <1>7, <2>3 DEF TickerRuns, FlagHasTicker
  <2> QED BY <1>7, <2>1, <2>2, <2>4 DEF TickerRuns, LongEnough
<1>8. \/ UNCHANGED <<watcher, pending, tickers, running>>
      \/ WatcherStep
      \/ \E t \in Ids : TickerRuns(t)
  BY DEF Next, UpdateMeshConfig, CloseQuit, Tick, Dequeue, vars
<1> QED BY <1>1, <1>2, <1>3, <1>4, <1>5, <1>6, <1>7, <1>8 DEF WatcherStep

(* The flag and the tickers agree throughout. *)
LEMMA TickerInvariant == Spec => []TickerInv
<1>1. Init => TickerInv
  <2> SUFFICES ASSUME Init PROVE TickerInv OBVIOUS
  <2> DEFINE d == IF config \in Intervals THEN config ELSE 0
  <2>1. Flags BY Zenon DEF Init, Flags
  <2>2. d \in Int
    <3>1. CASE config \in Intervals BY <3>1, TickerConstants
    <3>2. CASE config \notin Intervals BY <3>2
    <3> QED BY <3>1, <3>2
  <2>3. Tickers /\ NeverFasterThanMin
    BY <2>2 DEF Init, NoTickers, NoTicker, Off, Tickers, NeverFasterThanMin, Alive, Allowed
  <2> QED BY <2>1, <2>3 DEF Init, TickerInv, FlagHasTicker, LongEnough
<1> QED BY <1>1, TickerStep, UpdatesType, PTL DEF Spec

(* No ticker ever runs with an interval below minTickInterval, for any       *)
(* updates and interleavings (Start and watchConfig both check it).          *)
THEOREM TickersAreNeverTooFast == Spec => []NeverFasterThanMin
<1>1. TickerInv => NeverFasterThanMin BY DEF TickerInv, LongEnough
<1> QED BY <1>1, TickerInvariant, PTL

(* The unlocked flag running is good enough for what watchConfig uses it     *)
(* for: a restart that stops a ticker first always finds one to take the     *)
(* signal.                                                                   *)
THEOREM GuardedStopAlwaysTaken == Spec => []GuardedStopHasTaker
<1>1. TickerInv => GuardedStopHasTaker
  BY DEF TickerInv, FlagHasTicker, GuardedStopHasTaker
<1> QED BY <1>1, TickerInvariant, PTL
-----------------------------------------------------------------------------
(* While updates wait for each other there is one ticker at most; where the  *)
(* watcher waits for updates it is the one asked for, and the flag is up     *)
(* when it loops; an update that waits finds no ticker that was launched and *)
(* has not set the flag yet; and the steps of stopTicker remember what is    *)
(* wanted and leave no ticker.  Nothing is claimed once the watcher quits.   *)
Settled ==
  /\ \A t \in Alive : tickers[t].interval = wanted
  /\ wanted = Off <=> Alive = {}
  /\ Looping # {} => running

Calm ==
  /\ \A t, u \in Alive : t = u
  /\ watcher \in {"start", "select"} => Settled
  /\ watcher \in {"start", "restart", "clear_restart", "stop", "clear_stop"} => updates = <<>>
  /\ updates # <<>> => Len(updates) = 1 /\ Alive \subseteq Looping
  /\ watcher \in {"restart", "clear_restart"} => pending = wanted
  /\ watcher \in {"stop", "clear_stop"} => wanted = Off
  /\ watcher \in {"clear_restart", "clear_stop"} => Alive = {}

CalmInv == calm => Calm

(* A launch where there is no ticker leaves one, which does not loop yet. *)
LEMMA LaunchAlone ==
  ASSUME Tickers, Alive = {}, NEW d \in Int, Launch(d)
  PROVE  /\ Alive' # {} /\ Looping' = {}
         /\ \A t, u \in Alive' : t = u
         /\ \A t \in Alive' : tickers'[t].interval = d
<1> PICK t \in Ids : tickers' = [tickers EXCEPT ![t] = [pc |-> "launched", interval |-> d]]
  BY DEF Launch
<1>1. \A u \in Ids : tickers[u].pc = "none"
  BY DEF Alive
<1>2. \A u \in Ids : tickers'[u] = IF u = t THEN [pc |-> "launched", interval |-> d] ELSE tickers[u]
  BY DEF Tickers
<1>3. Alive' = {t}
  BY <1>1, <1>2 DEF Alive
<1>4. Looping' = {} /\ tickers'[t].interval = d
  BY <1>1, <1>2 DEF Looping
<1> QED
  BY <1>3, <1>4

(* The steps of the watcher while updates wait for each other. *)
LEMMA WatcherCalm ==
  ASSUME Updates, TickerInv, Calm, WatcherStep
  PROVE  Calm'
<1> USE DEF TickerInv
<1>1. CASE Subscribe
  BY <1>1 DEF Subscribe, Calm, Settled, Alive, Looping
<1>2. CASE HandleUpdate
  <2> DEFINE new == Head(updates)[2]
  <2>1. /\ new \in Settings /\ updates' = <<>> /\ Alive \subseteq Looping /\ Settled
        /\ watcher = "select" /\ running' = running
    BY <1>2 DEF HandleUpdate, Updates, Calm
  <2>2. CASE UNCHANGED <<watcher, pending, tickers, wanted>>
    BY <2>1, <2>2 DEF Calm, Settled, Alive, Looping
  <2>3. CASE new \in Int /\ Allowed(new) /\ wanted' = new /\ watcher' = "restart"
             /\ pending' = new /\ UNCHANGED tickers
    BY <2>1, <2>3 DEF Calm, Alive, Looping
  <2>4. CASE new \in Int /\ Allowed(new) /\ ~running /\ wanted' = new /\ Launch(new)
             /\ UNCHANGED <<watcher, pending>>
    <3>1. Alive = {} /\ new # Off
      BY <2>1, <2>4, TickerConstants DEF Settled, Allowed, Off
    <3>2. /\ Alive' # {} /\ Looping' = {} /\ \A t, u \in Alive' : t = u
          /\ \A t \in Alive' : tickers'[t].interval = new
      BY <2>4, <3>1, LaunchAlone
    <3> QED
      BY <2>1, <2>4, <3>1, <3>2 DEF Calm, Settled
  <2>5. CASE wanted' = Off /\ watcher' = "stop" /\ UNCHANGED <<pending, tickers>>
    BY <2>1, <2>5 DEF Calm, Alive, Looping
  <2>6. new \notin {Unset, Junk} => new \in Int
    BY <2>1, TickerConstants DEF Settings
  <2> QED
    BY <1>2, <2>2, <2>3, <2>4, <2>5, <2>6 DEF HandleUpdate, StopFirst
<1>3. CASE HandleQuit
  BY <1>3 DEF HandleQuit, Calm, Settled, Alive, Looping
<1>4. CASE AfterStop
  <2>1. CASE watcher = "clear_restart"
    <3>1. /\ pending \in Int /\ pending >= MinTickInterval /\ pending = wanted /\ Alive = {}
          /\ updates = <<>>
      BY <2>1 DEF Calm, LongEnough
    <3>2. wanted # Off
      BY <3>1, TickerConstants DEF Off
    <3>3. Launch(pending) /\ watcher' = "select" /\ UNCHANGED <<updates, wanted>>
      BY <1>4, <2>1 DEF AfterStop, LaunchFollows
    <3>4. /\ Alive' # {} /\ Looping' = {} /\ \A t, u \in Alive' : t = u
          /\ \A t \in Alive' : tickers'[t].interval = pending
      BY <3>1, <3>3, LaunchAlone
    <3> QED
      BY <3>1, <3>2, <3>3, <3>4 DEF Calm, Settled
  <2>2. CASE watcher = "clear_stop"
    BY <1>4, <2>2 DEF AfterStop, LaunchFollows, Calm, Settled, Alive, Looping
  <2>3. CASE watcher = "clear_quit"
    BY <1>4, <2>3 DEF AfterStop, LaunchFollows, Calm, Settled, Alive, Looping
  <2> QED
    BY <1>4, <2>1, <2>2, <2>3 DEF AfterStop
<1>5. ASSUME NEW t \in Ids, SendStop(t) PROVE Calm'
  <2>1. /\ t \in Alive /\ tickers' = [tickers EXCEPT ![t] = NoTicker]
        /\ UNCHANGED <<updates, pending, wanted>>
    BY <1>5 DEF SendStop, Looping, Alive
  <2>2. Alive' = {}
    BY <2>1 DEF Calm, Alive, Tickers, NoTicker
  <2>3. \/ watcher = "restart" /\ watcher' = "clear_restart"
        \/ watcher = "stop" /\ watcher' = "clear_stop"
        \/ watcher' = "clear_quit"
    BY <1>5 DEF SendStop
  <2> QED
    BY <2>1, <2>2, <2>3 DEF Calm
<1> QED
  BY <1>1, <1>2, <1>3, <1>4, <1>5 DEF WatcherStep

(* Every step keeps what holds while updates come one at a time. *)
LEMMA StaysCalm == Updates /\ TickerInv /\ CalmInv /\ [Next]_vars => CalmInv'
<1> SUFFICES ASSUME Updates, TickerInv, CalmInv, [Next]_vars, calm' PROVE Calm'
  BY DEF CalmInv
<1>1. CASE UNCHANGED <<updates, watcher, pending, tickers, running, wanted, calm>>
  BY <1>1 DEF CalmInv, Calm, Settled, Alive, Looping
<1>2. ASSUME NEW new \in Settings, UpdateMeshConfig(new) PROVE Calm'
  <2>1. Calm /\ Quiet
    BY <1>2, Zenon DEF UpdateMeshConfig, CalmInv
  <2>2. /\ updates = <<>> /\ updates' = Append(updates, <<config, new>>) /\ watcher = "select"
        /\ UNCHANGED <<watcher, pending, tickers, running, wanted>>
    BY <1>2, <2>1 DEF UpdateMeshConfig, Quiet
  <2>3. Len(updates') = 1
    BY <2>2
  <2>4. Alive \subseteq Looping
    BY <2>1 DEF Quiet, Alive, Looping, TickerInv, Tickers
  <2> QED
    BY <2>1, <2>2, <2>3, <2>4 DEF Calm, Settled, Alive, Looping
<1>3. CASE WatcherStep
  <2>1. calm' = calm
    BY <1>3 DEF WatcherStep, Subscribe, HandleUpdate, HandleQuit, AfterStop, SendStop
  <2> QED
    BY <1>3, <2>1, WatcherCalm DEF CalmInv
<1>4. ASSUME NEW t \in Ids, TickerRuns(t) PROVE Calm'
  <2>1. /\ calm' = calm /\ running' = TRUE /\ t \in Alive
        /\ tickers' = [tickers EXCEPT ![t].pc = "loop"]
        /\ UNCHANGED <<updates, watcher, pending, wanted>>
    BY <1>4 DEF TickerRuns, Alive
  <2>2. Calm
    BY <2>1 DEF CalmInv
  <2>3. /\ Alive' = Alive /\ (\A u \in Ids : tickers'[u].interval = tickers[u].interval)
        /\ Looping' = Looping \cup {t}
    BY <2>1 DEF Alive, Looping, TickerInv, Tickers
  <2>4. \A u \in Alive : u \in Ids
    BY DEF Alive
  <2> QED
    BY <2>1, <2>2, <2>3, <2>4 DEF Calm, Settled
<1>5. \/ UNCHANGED <<updates, watcher, pending, tickers, running, wanted, calm>>
      \/ \E new \in Settings : UpdateMeshConfig(new)
      \/ WatcherStep
      \/ \E t \in Ids : TickerRuns(t)
  BY DEF Next, CloseQuit, Tick, Dequeue, vars
<1> QED
  BY <1>1, <1>2, <1>3, <1>4, <1>5

(* As long as no update comes before the last one has taken effect, the      *)
(* tickers that run when watchConfig waits are the one that was asked for,   *)
(* or none when none was: for any intervals, any number of updates, and any  *)
(* delay between launching a ticker and its setting running.                 *)
THEOREM TickerAlwaysFollowsConfig == Spec => []TickerFollowsConfig
<1>1. Init => CalmInv
  <2> SUFFICES ASSUME Init PROVE Calm
    BY DEF CalmInv
  <2> DEFINE d == IF config \in Intervals THEN config ELSE 0
  <2>1. updates = <<>> /\ watcher = "start"
    BY DEF Init
  <2>2. \A t \in Ids : NoTickers[t].pc = "none"
    BY DEF NoTickers, NoTicker
  <2>3. CASE Allowed(d)
    <3>1. wanted = d /\ \E t \in Ids : tickers = [NoTickers EXCEPT ![t] = [pc |-> "launched", interval |-> d]]
      BY <2>3 DEF Init
    <3>2. PICK t \in Ids : tickers = [NoTickers EXCEPT ![t] = [pc |-> "launched", interval |-> d]]
      BY <3>1
    <3>3. \A u \in Ids : tickers[u] = IF u = t THEN [pc |-> "launched", interval |-> d] ELSE NoTickers[u]
      BY <3>2 DEF NoTickers
    <3>4. Alive = {t} /\ Looping = {} /\ tickers[t].interval = d
      BY <2>2, <3>3 DEF Alive, Looping
    <3>5. d # Off
      <4>1. d \in Int
        <5>1. CASE config \in Intervals BY <5>1, TickerConstants
        <5>2. CASE config \notin Intervals BY <5>2
        <5> QED BY <5>1, <5>2
      <4> QED
        BY <2>3, <4>1, TickerConstants DEF Allowed, Off
    <3> HIDE DEF d
    <3> QED
      BY <2>1, <3>1, <3>4, <3>5 DEF Calm, Settled
  <2>4. CASE ~Allowed(d)
    <3>1. tickers = NoTickers /\ wanted = Off
      BY <2>4 DEF Init
    <3>2. Alive = {} /\ Looping = {}
      BY <2>2, <3>1 DEF Alive, Looping
    <3> QED
      BY <2>1, <3>1, <3>2 DEF Calm, Settled
  <2> QED
    BY <2>3, <2>4
<1>2. TickerInv /\ CalmInv => TickerFollowsConfig
  <2> SUFFICES ASSUME Calm, Settled PROVE {tickers[t].interval : t \in Alive} = {wanted} \ {Off}
    BY DEF CalmInv, Calm, Quiet, TickerFollowsConfig
  <2> QED
    BY DEF Settled
<1> QED
  BY <1>1, <1>2, StaysCalm, UpdatesType, TickerInvariant, PTL DEF Spec
=============================================================================
