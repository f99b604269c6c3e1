---------------------------- MODULE ResyncTicker ----------------------------
(***************************************************************************)
(* The resync ticker (pkg/ticker/ticker.go).  A watcher goroutine receives *)
(* MeshConfig updates and starts, restarts or stops a ticker goroutine     *)
(* that queues a broadcast at every tick.  The two share the field running *)
(* without a lock: the ticker sets it some time after it was launched, the *)
(* watcher clears it after its stop signal was taken.  A read that misses  *)
(* a racing write is a read that happens before it.                        *)
(*                                                                         *)
(* An interval is a number, 0 meaning "stop"; Unset stands for the empty   *)
(* string and Junk for a string that is no duration.                       *)
(***************************************************************************)
EXTENDS Integers, Sequences, FiniteSets

CONSTANTS
  Intervals,         \* durations a MeshConfig may ask for
  Unset, Junk,
  MinTickInterval,
  Ids,               \* bound: names for the ticker goroutines alive at a time
  MaxUpdates         \* bound

ASSUME TickerConstants ==
  /\ Intervals \subseteq Int
  /\ Unset \notin Intervals /\ Junk \notin Intervals
  /\ MinTickInterval \in Nat \ {0}
  /\ MaxUpdates \in Nat

Settings == Intervals \cup {Unset, Junk}

VARIABLES
  config,        \* the resync interval in the MeshConfig
  updates,       \* meshConfigUpdateChan: pairs of old and new interval
  watcher,       \* where watchConfig is
  pending,       \* interval to start once the stop signal is taken
  tickers,       \* ticker goroutines: id -> [pc, interval]
  running,       \* ResyncTicker.running
  queued,        \* a broadcast is in the broker's queue
  wanted,        \* history: the interval asked for by the updates handled
  published,     \* number of updates, bounded
  calm,          \* history: every update came after the last one had taken effect
  quit           \* the quit channel is closed

vars == <<config, updates, watcher, pending, tickers, running, queued, wanted,
          published, calm, quit>>

Off == 0      \* pending: nothing to start; wanted: no ticker

Alive == {t \in Ids : tickers[t].pc # "none"}
Looping == {t \in Ids : tickers[t].pc = "loop"}

NoTicker == [pc |-> "none", interval |-> Off]
NoTickers == [t \in Ids |-> NoTicker]

(* go r.startTicker(d) *)
Launch(d) ==
  \E t \in Ids \ Alive : tickers' = [tickers EXCEPT ![t] = [pc |-> "launched", interval |-> d]]
-----------------------------------------------------------------------------
(* Intervals that start a ticker. *)
Allowed(d) == d >= MinTickInterval

(* Start, with the interval of the MeshConfig at that time (0 if it cannot   *)
(* be parsed). *)
Init ==
  /\ config \in Settings
  /\ LET d == IF config \in Intervals THEN config ELSE 0
     IN IF Allowed(d)
        THEN /\ \E t \in Ids :
                  tickers = [NoTickers EXCEPT ![t] = [pc |-> "launched", interval |-> d]]
             /\ wanted = d
        ELSE tickers = NoTickers /\ wanted = Off
  /\ updates = <<>> /\ watcher = "start" /\ pending = Off
  /\ running = FALSE /\ queued = FALSE /\ published = 0 /\ quit = FALSE
  /\ calm = TRUE

(* watchConfig subscribes; earlier updates pass it by. *)
Subscribe ==
  /\ watcher = "start"
  /\ watcher' = "select"
  /\ UNCHANGED <<config, updates, pending, tickers, running, queued, wanted, published,
                 calm, quit>>

Quiet ==
  /\ watcher = "select" /\ updates = <<>>
  /\ \A t \in Ids : tickers[t].pc # "launched"

(* The MeshConfig changes and the update is published. *)
UpdateMeshConfig(new) ==
  /\ published < MaxUpdates
  /\ calm' = (calm /\ Quiet)
  /\ published' = published + 1
  /\ config' = new
  /\ updates' = IF watcher = "start" THEN updates ELSE Append(updates, <<config, new>>)
  /\ UNCHANGED <<watcher, pending, tickers, running, queued, wanted, quit>>

CloseQuit ==
  /\ ~quit
  /\ quit' = TRUE
  /\ UNCHANGED <<config, updates, watcher, pending, tickers, running, queued, wanted,
                 published, calm>>
-----------------------------------------------------------------------------
(* A restart stops the ticker first, if there is one to stop.  Mutant: it    *)
(* only starts the new one.                                                  *)
NeverStopFirst == FALSE
StopFirst == running

(* What watchConfig makes of an update: no change, nothing configured, not a *)
(* duration, a new interval, zero, or too short an interval.                 *)
HandleUpdate ==
  LET old == Head(updates)[1] new == Head(updates)[2]
  IN /\ watcher = "select"
     /\ updates # <<>>
     /\ updates' = Tail(updates)
     /\ IF old = new \/ new \in {Unset, Junk}
        THEN UNCHANGED <<watcher, pending, tickers, wanted>>
        ELSE \/ /\ Allowed(new)
                /\ wanted' = new
                /\ IF StopFirst
                   THEN /\ watcher' = "restart" /\ pending' = new
                        /\ UNCHANGED tickers
                   ELSE /\ Launch(new)
                        /\ UNCHANGED <<watcher, pending>>
             \/ /\ ~Allowed(new) /\ new = 0
                /\ wanted' = Off
                /\ watcher' = "stop"
                /\ UNCHANGED <<pending, tickers>>
             \/ /\ ~Allowed(new) /\ new # 0
                /\ UNCHANGED <<watcher, pending, tickers, wanted>>
     /\ UNCHANGED <<config, running, queued, published, calm, quit>>

HandleQuit ==
  /\ watcher = "select"
  /\ quit
  /\ watcher' = "quitting"
  /\ UNCHANGED <<config, updates, pending, tickers, running, queued, wanted, published,
                 calm, quit>>

(* stopTicker: the send on stopTickerCh meets the receive of a ticker. *)
SendStop(t) ==
  /\ watcher \in {"restart", "stop", "quitting"}
  /\ t \in Looping
  /\ tickers' = [tickers EXCEPT ![t] = NoTicker]
  /\ watcher' = IF watcher = "restart" THEN "clear_restart"
                ELSE IF watcher = "stop" THEN "clear_stop" ELSE "clear_quit"
  /\ UNCHANGED <<config, updates, pending, running, queued, wanted, published,
                 calm, quit>>

(* The second half of stopTicker.  Mutant: the flag stays up. *)
KeepRunning == running
Stopped == FALSE

(* The caller goes on to launch a ticker.  Mutant: it does not. *)
NoLaunch == FALSE
LaunchFollows == watcher = "clear_restart"

(* running = false, and what follows stopTicker in its caller. *)
AfterStop ==
  /\ watcher \in {"clear_restart", "clear_stop", "clear_quit"}
  /\ running' = Stopped
  /\ watcher' = IF watcher = "clear_quit" THEN "done" ELSE "select"
  /\ IF LaunchFollows THEN Launch(pending) ELSE UNCHANGED tickers
  /\ pending' = Off
  /\ UNCHANGED <<config, updates, queued, wanted, published, calm, quit>>
-----------------------------------------------------------------------------
(* startTicker: the flag, then the loop. *)
TickerRuns(t) ==
  /\ tickers[t].pc = "launched"
  /\ tickers' = [tickers EXCEPT ![t].pc = "loop"]
  /\ running' = TRUE
  /\ UNCHANGED <<config, updates, watcher, pending, queued, wanted, published, calm, quit>>

(* A tick adds a broadcast to the queue, which holds equal messages once. *)
Tick(t) ==
  /\ tickers[t].pc = "loop"
  /\ queued' = TRUE
  /\ UNCHANGED <<config, updates, watcher, pending, tickers, running, wanted, published,
                 calm, quit>>

(* The broker takes the broadcast off the queue. *)
Dequeue ==
  /\ queued
  /\ queued' = FALSE
  /\ UNCHANGED <<config, updates, watcher, pending, tickers, running, wanted, published,
                 calm, quit>>

WatcherStep ==
  Subscribe \/ HandleUpdate \/ HandleQuit \/ AfterStop \/ \E t \in Ids : SendStop(t)

Next ==
  \/ \E new \in Settings : UpdateMeshConfig(new)
  \/ CloseQuit
  \/ WatcherStep
  \/ \E t \in Ids : TickerRuns(t) \/ Tick(t)
  \/ Dequeue

Spec == Init /\ [][Next]_vars

(* Goroutines run, timers fire and the broker works its queue. *)
FairSpec ==
  /\ Spec
  /\ WF_vars(WatcherStep)
  /\ WF_vars(Dequeue)
  /\ \A t \in Ids : WF_vars(TickerRuns(t)) /\ WF_vars(Tick(t))
-----------------------------------------------------------------------------
(* No ticker ticks faster than minTickInterval allows ("any value under      *)
(* minTickerDuration will be ignored"), whatever is updated when.            *)
NeverFasterThanMin ==
  \A t \in Alive : tickers[t].interval >= MinTickInterval

(* The check of running before a restart does its work: when the watcher     *)
(* stops a ticker before starting another there is one to take the signal,   *)
(* although the flag is set and read without a lock.                         *)
GuardedStopHasTaker ==
  watcher = "restart" => Looping # {}

(* Once an update has taken effect the tickers that run are the one asked    *)
(* for: restarts replace a ticker, zero stops it, other updates leave it, as *)
(* long as no update came before the one before it had taken effect.  (An    *)
(* update handled before a launched ticker has set running launches another  *)
(* beside it.)                                                               *)
TickerFollowsConfig ==
  calm /\ Quiet => {tickers[t].interval : t \in Alive} = {wanted} \ {Off}

(* However updates race with the goroutines they launch, as long as an       *)
(* interval is configured broadcasts keep being queued.                      *)
ResyncsContinue ==
  <>[](wanted # Off /\ ~quit) => []<>queued

(* The comment in watchConfig: the ticker must only be stopped when it is    *)
(* running, "to avoid writing to a blocked channel".                         *)
StopNeverBlocks ==
  watcher \in {"restart", "stop", "quitting"} => Alive # {}
=============================================================================
