----------------------------- MODULE SyncStatus -----------------------------
(***************************************************************************)
(* The explorer's blockchain sync status page (src/v4/explorer/explorer.go *)
(* and explorermiddleware.go).  While displaySyncStatusPage is set, every  *)
(* page and API route is answered by the status page; the                  *)
(* SyncStatusUpdate goroutine turns the sync's progress loads into        *)
(* blockchainSyncStatus.ProgressBars; the StartSyncingStatusMonitor        *)
(* goroutine signals the websocket hub (sigSyncStatus on HubRelay) every   *)
(* syncStatusInterval; and SetDisplaySyncStatusPage(false), called when    *)
(* the sync is done, sends one last signal and then clears the flag.      *)
(*                                                                         *)
(* The hub is not in this repository: it is modelled as receiving one      *)
(* signal at a time from the unbuffered HubRelay and then reading          *)
(* DisplaySyncStatusPage for the status it pushes to the browsers, which  *)
(* is what the comment of SetDisplaySyncStatusPage expects of it.          *)
(***************************************************************************)
EXTENDS Integers, SequencesExt

CONSTANTS
  BarLoads   \* the dbtypes.ProgressBarLoad values the sync may send

VARIABLES
  display,   \* displaySyncStatusPage (an atomic.Value)
  setPc,     \* the caller of SetDisplaySyncStatusPage(false)
  monitor,   \* the StartSyncingStatusMonitor goroutine
  hubPc,     \* the websocket hub: "idle", or holding a received signal
  hubSaw,    \* the sync status the hub last pushed to the browsers
  bars,      \* blockchainSyncStatus.ProgressBars
  barHeld    \* the load the SyncStatusUpdate goroutine has checked, if any

ssVars == <<display, setPc, monitor, hubPc, hubSaw, bars, barHeld>>

NoLoad == [id |-> "none", from |-> 0, to |-> 0, msg |-> "none", sub |-> "",
           ts |-> 0]

(* The percentage of a load, in hundredths: math.Floor(From/To*10000)/100, *)
(* or 0 when To is 0.                                                      *)
Percent(load) == IF load.to > 0 THEN (load.from * 10000) \div load.to ELSE 0

(* The SyncStatusInfo built from a load. *)
Info(load) == [pct |-> Percent(load), msg |-> load.msg, time |-> load.ts,
               id |-> load.id, sub |-> load.sub]

-----------------------------------------------------------------------------
(* SetDisplaySyncStatusPage(false): the last sigSyncStatus is sent, and   *)
(* only once the hub has taken it is the flag stored.                      *)

SetDisplayOffSend ==
  /\ setPc = "syncing"
  /\ hubPc = "idle"
  /\ hubPc' = "signalled"
  /\ setPc' = "sent"
  /\ UNCHANGED <<display, monitor, hubSaw, bars, barHeld>>

SetDisplayOffStore ==
  /\ setPc = "sent"
  /\ display' = FALSE
  /\ setPc' = "stored"
  /\ UNCHANGED <<monitor, hubPc, hubSaw, bars, barHeld>>

-----------------------------------------------------------------------------
(* StartSyncingStatusMonitor: on each tick, timer.Stop() if the page is   *)
(* no longer displayed, then send sigSyncStatus either way.  After Stop   *)
(* the ticker never fires again and the goroutine waits on timer.C for    *)
(* ever.                                                                   *)

\* Mutant: no signal is sent on the tick that stops the ticker.
MonitorSends_notWhenStopping(stopping) == ~stopping

MonitorSends(stopping) == TRUE

\* Mutant: timer.Stop() is never called.
MonitorTick_noStop ==
  /\ monitor = "ticking"
  /\ monitor' = "sending"
  /\ UNCHANGED <<display, setPc, hubPc, hubSaw, bars, barHeld>>

MonitorTick ==
  /\ monitor = "ticking"
  /\ LET stopping == ~display
     IN  monitor' = IF ~MonitorSends(stopping) THEN "stopped"
                    ELSE IF stopping THEN "stopping" ELSE "sending"
  /\ UNCHANGED <<display, setPc, hubPc, hubSaw, bars, barHeld>>

MonitorSend ==
  /\ monitor \in {"sending", "stopping"}
  /\ hubPc = "idle"
  /\ hubPc' = "signalled"
  /\ monitor' = IF monitor = "stopping" THEN "stopped" ELSE "ticking"
  /\ UNCHANGED <<display, setPc, hubSaw, bars, barHeld>>

-----------------------------------------------------------------------------
(* The hub, having received sigSyncStatus, reads DisplaySyncStatusPage.   *)

HubRead ==
  /\ hubPc = "signalled"
  /\ hubSaw' = display
  /\ hubPc' = "idle"
  /\ UNCHANGED <<display, setPc, monitor, bars, barHeld>>

-----------------------------------------------------------------------------
(* SyncStatusUpdate, one load at a time: a load that arrives while the    *)
(* page is not displayed is dropped; otherwise, after the check, the      *)
(* progress bars are updated.                                              *)

(* The goroutine receives load from barLoad, which is unbuffered: the   *)
(* sender waits until the goroutine is back at the receive.                *)
BarReceive(load) ==
  /\ barHeld = NoLoad
  /\ barHeld' = IF display THEN load ELSE NoLoad
  /\ UNCHANGED <<display, setPc, monitor, hubPc, hubSaw, bars>>

BarCheck == \E load \in BarLoads : BarReceive(load)

\* Mutant: the loop does not stop at the matching bar (goto end missing).
UpdateBars_noGoto(bs, load) ==
  LET upd == [i \in DOMAIN bs |->
                IF bs[i].id # load.id THEN bs[i]
                ELSE IF load.sub # "" /\ load.ts = 0
                       THEN [bs[i] EXCEPT !.sub = load.sub]
                       ELSE Info(load)]
  IN  IF bs = <<>> THEN <<Info(load)>> ELSE Append(upd, Info(load))

(* The first entry; else the entry of the same BarID, only its subtitle   *)
(* when the load carries a subtitle and no timestamp; else a new entry.   *)
UpdateBars(bs, load) ==
  IF bs = <<>> THEN <<Info(load)>>
  ELSE IF \E i \in DOMAIN bs : bs[i].id = load.id
    THEN LET i == CHOOSE i \in DOMAIN bs : bs[i].id = load.id
                    /\ \A j \in 1..(i - 1) : bs[j].id # load.id
         IN  IF load.sub # "" /\ load.ts = 0
               THEN [bs EXCEPT ![i].sub = load.sub]
               ELSE [bs EXCEPT ![i] = Info(load)]
    ELSE Append(bs, Info(load))

BarWrite ==
  /\ barHeld # NoLoad
  /\ bars' = UpdateBars(bars, barHeld)
  /\ barHeld' = NoLoad
  /\ UNCHANGED <<display, setPc, monitor, hubPc, hubSaw>>

-----------------------------------------------------------------------------

(* The sync may run with the status page or without it; the monitor is    *)
(* started either way.                                                     *)
SSInit ==
  /\ display \in BOOLEAN
  /\ setPc = IF display THEN "syncing" ELSE "stored"
  /\ monitor = "ticking"
  /\ hubPc = "idle"
  /\ hubSaw = display
  /\ bars = <<>>
  /\ barHeld = NoLoad

SSNext ==
  \/ SetDisplayOffSend \/ SetDisplayOffStore
  \/ MonitorTick \/ MonitorSend \/ HubRead
  \/ BarCheck \/ BarWrite

SSTypeOK ==
  /\ display \in BOOLEAN
  /\ setPc \in {"syncing", "sent", "stored"}
  /\ monitor \in {"ticking", "sending", "stopping", "stopped"}
  /\ hubPc \in {"idle", "signalled"}
  /\ hubSaw \in BOOLEAN
  /\ bars \in Seq([pct : Nat, msg : {l.msg : l \in BarLoads},
                   time : Int, id : {l.id : l \in BarLoads},
                   sub : {l.sub : l \in BarLoads}])
  /\ barHeld \in BarLoads \cup {NoLoad}

-----------------------------------------------------------------------------

(* The websocket's final confirmation that syncing is done: once the flag *)
(* is cleared, the ticker stopped and every signal handled, the status   *)
(* the hub last read and pushed is "not syncing", although the last       *)
(* signal of SetDisplaySyncStatusPage is sent before the flag is stored.  *)
FinalStatusSeen ==
  setPc = "stored" /\ monitor = "stopped" /\ hubPc = "idle" => ~hubSaw

(* The progress bars hold one entry per BarID, whatever order the loads   *)
(* of the several bars arrive in.                                          *)
OneBarPerId ==
  IsInjective([i \in DOMAIN bars |-> bars[i].id])

(* The end of the sync reaches the browsers and the monitor goes quiet:   *)
(* SetDisplaySyncStatusPage(false) sends its last signal before it stores *)
(* the flag, so the hub may push "syncing" once more; the ticker's next   *)
(* tick must then see the flag cleared, send, and stop, so that in the    *)
(* end the hub has pushed "not syncing" and no signal is sent any more.   *)
(* Under weak fairness of the ticker, the hub and the caller.             *)
SyncEndPushed ==
  <>[](~display /\ ~hubSaw /\ monitor = "stopped" /\ hubPc = "idle")

=============================================================================
