---------------------------- MODULE ProbingStatus ----------------------------
(***************************************************************************)
(* Peer reachability monitor of rafthttp (probing_status.go).              *)
(*                                                                         *)
(* addPeerToProber registers a peer with the prober (AddHTTP), asks for    *)
(* its status handle (Status) and, on success, starts one goroutine        *)
(* monitorProbingStatus bound to that handle.  The goroutine loops on a    *)
(* select between a timer and the handle's stop channel; after each timer  *)
(* it reads Health, SRTT, Err and ClockDiff through separate getters,      *)
(* logs, adapts its interval and records an RTT observation.               *)
(*                                                                         *)
(* The prober itself (probing.Prober and its status) is not under src/:    *)
(* AddHTTP, Status, Remove and the probe's own updates of the status are   *)
(* modelled from the spec (spec.md sections 3, 4.1, 5 and 6).              *)
(*                                                                         *)
(* A goroutine started by line 50 is identified by the addPeerToProber   *)
(* call that started it; it records the handle it is bound to.  The       *)
(* caller may register a peer the prober already probes (spec 4.1:        *)
(* "creates or replaces", spec 7: the caller retries).                     *)
(***************************************************************************)
EXTENDS Integers, Sequences, FiniteSets

CONSTANTS
    Peers,          \* peer ids (model values)
    Addrs,          \* base addresses a peer may be registered with
    Errs,           \* probe failure details
    NoErr,          \* the nil error
    NoField,        \* a log field the message does not carry
    RTTs,           \* smoothed round-trip times a probe can report
    Skews,          \* clock differences a probe can report (may be < 0)
    Threshold,      \* time.Second, the clock-drift threshold, in time units
    MaxProbes,      \* bound: number of probe handles created in a run
    MaxRegs,        \* bound: number of addPeerToProber calls in a run
    MaxAddrs,       \* bound: length of an address list given to a registration
    UseZap          \* lg != nil: structured logging instead of plog

ASSUME ProbingAssumption ==
    /\ Peers # {}
    /\ Errs # {} /\ NoErr \notin Errs
    /\ RTTs \subseteq Nat /\ RTTs # {}
    /\ Skews \subseteq Int /\ Skews # {}
    /\ Threshold \in Nat
    /\ MaxProbes \in Nat \ {0}
    /\ MaxRegs \in Nat
    /\ MaxAddrs \in Nat
    /\ UseZap \in BOOLEAN

NoProbe == 0
Handles == 1..MaxProbes

(* Goroutine g is the one the g-th addPeerToProber call may start.  Idle: *)
(* the peer is not inside addPeerToProber.                                 *)
Goroutines == 1..MaxRegs
Idle == 0

(* statusErrorInterval and statusMonitoringInterval                        *)
ErrorInterval == "statusErrorInterval"
MonitoringInterval == "statusMonitoringInterval"

(* A status snapshot as the spec describes it: healthy iff no error.       *)
ValidStatus ==
    { s \in [health : BOOLEAN, srtt : RTTs, err : Errs \cup {NoErr},
             clockdiff : Skews] : s.health <=> s.err = NoErr }

UnusedStatus == CHOOSE s \in ValidStatus : TRUE

(* The address lists a caller may register a peer with (possibly empty).   *)
(* Line 34 suffixes each with ProbingPrefix; the endpoints themselves are  *)
(* not observed by anything below, only whether the list is empty.        *)
AddrLists == UNION { [1..n -> Addrs] : n \in 0..MaxAddrs }

(* Monitor goroutine program counters.  "none": not started; "loop": at   *)
(* the top of the for loop; "wait": blocked in the select.                 *)
MonPCs == {"none", "loop", "wait", "health", "uwarn", "drift", "dwarn",
           "metric", "exited"}

Event == [kind : {"unhealthy", "drift", "rtt"},
          rtt : RTTs \cup Skews \cup {NoField},
          err : Errs \cup {NoErr, NoField},
          drift : RTTs \cup Skews \cup {NoField}]

NotStarted == [h |-> NoProbe, pc |-> "none", interval |-> ErrorInterval,
               log |-> <<>>]

VARIABLES
    probe,      \* the prober's probes: peer -> its current handle, or NoProbe
    nProbes,    \* number of handles created so far
    status,     \* handle -> the status the probe last recorded
    stopped,    \* handle -> its stop channel has been closed
    reg,        \* peer -> Idle, or the goroutine its addPeerToProber call
                \*   in progress will start
    nRegs,      \* number of addPeerToProber calls so far
    regWarned,  \* peer -> the last registration logged "failed to add"
    mon         \* goroutine -> h (its handle), pc, interval, log (the
                \*   output of the iteration in progress, cleared at the
                \*   next select)

vars == <<probe, nProbes, status, stopped, reg, nRegs, regWarned, mon>>

Running(g) == mon[g].pc \notin {"none", "exited"}

(* The stop channel of goroutine g's handle has been closed.              *)
HandleStopped(g) == mon[g].h # NoProbe /\ stopped[mon[g].h]

-----------------------------------------------------------------------------
(* Registration: addPeerToProber.                                           *)

(* Lines 33-38: suffix every address and call AddHTTP, ignoring its       *)
(* error.  AddHTTP (spec 4.1, 6) returns ErrExist for a peer it already   *)
(* probes and rejects an empty target list, changing nothing; otherwise   *)
(* it creates a probe with a fresh status handle.  The membership manager *)
(* does not call addPeerToProber twice at once for one peer.              *)
AddHTTP(p, us) ==
    LET h == nProbes + 1
    IN /\ reg[p] = Idle
       /\ nRegs < MaxRegs
       /\ nRegs' = nRegs + 1
       /\ reg' = [reg EXCEPT ![p] = nRegs + 1]
       /\ IF probe[p] # NoProbe \/ Len(us) = 0
             THEN UNCHANGED <<probe, nProbes, status>>
             ELSE /\ nProbes < MaxProbes
                  /\ probe' = [probe EXCEPT ![p] = h]
                  /\ nProbes' = h
                  /\ \E s0 \in ValidStatus : status' = [status EXCEPT ![h] = s0]
       /\ UNCHANGED <<stopped, regWarned, mon>>

(* Lines 40-50: Status(id) returns the peer's current handle, whichever   *)
(* registration created it; on error log and return, else start the       *)
(* monitor goroutine on the handle with interval = statusErrorInterval    *)
(* (line 55).                                                              *)
StatusAndSpawn(p) ==
    LET g == reg[p]
    IN /\ g # Idle
       /\ reg' = [reg EXCEPT ![p] = Idle]
       /\ IF probe[p] = NoProbe
             THEN /\ regWarned' = [regWarned EXCEPT ![p] = TRUE]
                  /\ UNCHANGED mon
             ELSE /\ regWarned' = [regWarned EXCEPT ![p] = FALSE]
                  /\ mon' = [mon EXCEPT ![g] =
                                [NotStarted EXCEPT !.h = probe[p], !.pc = "loop"]]
       /\ UNCHANGED <<probe, nProbes, status, stopped, nRegs>>

(* Prober.Remove (spec 6): the peer leaves, its stop channel is closed     *)
(* and the prober forgets it.                                              *)
Remove(p) ==
    /\ probe[p] # NoProbe
    /\ stopped' = [stopped EXCEPT ![probe[p]] = TRUE]
    /\ probe' = [probe EXCEPT ![p] = NoProbe]
    /\ UNCHANGED <<nProbes, status, reg, nRegs, regWarned, mon>>

(* The probe's own execution (spec 3, 5): until stopped it records either  *)
(* a success (healthy, new RTT and clock difference, no error) or a        *)
(* failure (unhealthy, an error; RTT and clock difference kept).           *)
ProbeSuccess(h, rtt, skew) ==
    /\ h <= nProbes /\ ~stopped[h]
    /\ status' = [status EXCEPT ![h] = [health |-> TRUE, srtt |-> rtt,
                                        err |-> NoErr, clockdiff |-> skew]]
    /\ UNCHANGED <<probe, nProbes, stopped, reg, nRegs, regWarned, mon>>

(* Mutant of ProbeFailure: a failure recorded with a nil error, as when    *)
(* the peer answers but reports itself not OK.                            *)
ProbeFailureNilErr(h, e) ==
    /\ h <= nProbes /\ ~stopped[h]
    /\ status' = [status EXCEPT ![h].health = FALSE, ![h].err = NoErr]
    /\ UNCHANGED <<probe, nProbes, stopped, reg, nRegs, regWarned, mon>>

ProbeFailure(h, e) ==
    /\ h <= nProbes /\ ~stopped[h]
    /\ status' = [status EXCEPT ![h].health = FALSE, ![h].err = e]
    /\ UNCHANGED <<probe, nProbes, stopped, reg, nRegs, regWarned, mon>>

-----------------------------------------------------------------------------
(* The monitor goroutine g: monitorProbingStatus, lines 53-93, reading    *)
(* the status of its handle mon[g].h through separate getters.             *)

Stat(g) == status[mon[g].h]

(* Line 57: entering the select with a fresh time.After(interval) timer.  *)
(* In "wait" the select is undecided: the goroutine is parked on both      *)
(* channels and the first of them to become ready decides the case.       *)
EnterSelect(g) ==
    /\ mon[g].pc = "loop"
    /\ mon' = [mon EXCEPT ![g].pc = "wait", ![g].log = <<>>]

(* Mutant of TimerFires: the wait is not interrupted by a closed stop    *)
(* channel, as with a plain sleep before the select.                      *)
TimerFiresAfterStop(g) ==
    /\ mon[g].pc = "wait"
    /\ mon' = [mon EXCEPT ![g].pc = "health"]

(* Line 58: the timer fires while the stop channel is still open, so the  *)
(* timer case is chosen; a closed stop channel would have woken the       *)
(* parked select first.                                                   *)
TimerFires(g) ==
    /\ mon[g].pc = "wait"
    /\ ~stopped[mon[g].h]
    /\ mon' = [mon EXCEPT ![g].pc = "health"]

(* Lines 89-90: the stop channel is closed; the goroutine returns.         *)
StopNotified(g) ==
    /\ mon[g].pc = "wait"
    /\ stopped[mon[g].h]
    /\ mon' = [mon EXCEPT ![g].pc = "exited"]

(* Mutant of ReadHealth: the goroutine returns on an unhealthy status.    *)
ReadHealthReturnsWhenUnhealthy(g) ==
    /\ mon[g].pc = "health"
    /\ mon' = IF Stat(g).health
                 THEN [mon EXCEPT ![g].pc = "drift",
                                  ![g].interval = MonitoringInterval]
                 ELSE [mon EXCEPT ![g].pc = "exited"]

(* Lines 59, 71-72: s.Health(); a healthy peer is polled at the steady    *)
(* interval.                                                               *)
ReadHealth(g) ==
    /\ mon[g].pc = "health"
    /\ mon' = IF Stat(g).health
                 THEN [mon EXCEPT ![g].pc = "drift",
                                  ![g].interval = MonitoringInterval]
                 ELSE [mon EXCEPT ![g].pc = "uwarn"]

(* Lines 60-70: log the unhealthy status with s.SRTT() and s.Err() read   *)
(* now (plog reads only s.Err()), and poll again at the error interval.    *)
UnhealthyEvent(s) ==
    [kind |-> "unhealthy", rtt |-> IF UseZap THEN s.srtt ELSE NoField,
     err |-> s.err, drift |-> NoField]

WarnUnhealthy(g) ==
    /\ mon[g].pc = "uwarn"
    /\ mon' = [mon EXCEPT ![g].pc = "drift", ![g].interval = ErrorInterval,
                          ![g].log = Append(@, UnhealthyEvent(Stat(g)))]

(* Line 74: s.ClockDiff() > time.Second, a signed comparison.              *)
ReadClockDiff(g) ==
    /\ mon[g].pc = "drift"
    /\ mon' = [mon EXCEPT ![g].pc = IF Stat(g).clockdiff > Threshold
                                       THEN "dwarn" ELSE "metric"]

(* Lines 75-85: the zap message puts s.SRTT() under "clock-drift" and      *)
(* s.ClockDiff(), read again, under "rtt"; plog prints s.ClockDiff() read *)
(* again.                                                                  *)
DriftEvent(s) ==
    IF UseZap
       THEN [kind |-> "drift", drift |-> s.srtt, rtt |-> s.clockdiff,
             err |-> s.err]
       ELSE [kind |-> "drift", drift |-> s.clockdiff, rtt |-> NoField,
             err |-> NoField]

WarnDrift(g) ==
    /\ mon[g].pc = "dwarn"
    /\ mon' = [mon EXCEPT ![g].pc = "metric",
                          ![g].log = Append(@, DriftEvent(Stat(g)))]

(* Line 87: rttSec observes s.SRTT() for the peer, then the loop repeats.  *)
RTTEvent(s) == [kind |-> "rtt", rtt |-> s.srtt, err |-> NoField,
                drift |-> NoField]

ObserveRTT(g) ==
    /\ mon[g].pc = "metric"
    /\ mon' = [mon EXCEPT ![g].pc = "loop",
                          ![g].log = Append(@, RTTEvent(Stat(g)))]

Monitor(g) ==
    /\ \/ EnterSelect(g) \/ TimerFires(g) \/ StopNotified(g)
       \/ ReadHealth(g) \/ WarnUnhealthy(g) \/ ReadClockDiff(g)
       \/ WarnDrift(g) \/ ObserveRTT(g)
    /\ UNCHANGED <<probe, nProbes, status, stopped, reg, nRegs, regWarned>>

-----------------------------------------------------------------------------
Init ==
    /\ probe = [p \in Peers |-> NoProbe]
    /\ nProbes = 0
    /\ status = [h \in Handles |-> UnusedStatus]
    /\ stopped = [h \in Handles |-> FALSE]
    /\ reg = [p \in Peers |-> Idle]
    /\ nRegs = 0
    /\ regWarned = [p \in Peers |-> FALSE]
    /\ mon = [g \in Goroutines |-> NotStarted]

Next ==
    \/ \E p \in Peers, us \in AddrLists : AddHTTP(p, us)
    \/ \E p \in Peers : StatusAndSpawn(p)
    \/ \E p \in Peers : Remove(p)
    \/ \E h \in Handles, rtt \in RTTs, skew \in Skews : ProbeSuccess(h, rtt, skew)
    \/ \E h \in Handles, e \in Errs : ProbeFailure(h, e)
    \/ \E g \in Goroutines : Monitor(g)

(* Goroutines are scheduled fairly and a pending timer eventually fires,   *)
(* so every monitor and every registration in progress keeps moving.       *)
Fairness ==
    /\ \A g \in Goroutines : WF_vars(Monitor(g))
    /\ \A p \in Peers : WF_vars(StatusAndSpawn(p))

Spec == Init /\ [][Next]_vars /\ Fairness

-----------------------------------------------------------------------------
(* Properties                                                              *)

MonRec == [h : {NoProbe} \cup Handles, pc : MonPCs,
           interval : {ErrorInterval, MonitoringInterval}, log : Seq(Event)]

(* The variables' types; a started goroutine is bound to a real handle.   *)
TypeOK ==
    /\ nProbes \in 0..MaxProbes
    /\ probe \in [Peers -> 0..nProbes]
    /\ status \in [Handles -> ValidStatus]
    /\ stopped \in [Handles -> BOOLEAN]
    /\ nRegs \in 0..MaxRegs
    /\ reg \in [Peers -> 0..nRegs]
    /\ regWarned \in [Peers -> BOOLEAN]
    /\ mon \in [Goroutines -> MonRec]
    /\ \A g \in Goroutines : mon[g].pc # "none" => mon[g].h \in Handles

(* A handle has a monitor goroutine when one bound to it is running.      *)
Monitored(h) == \E g \in Goroutines : Running(g) /\ mon[g].h = h

(* Every peer the prober probes, once addPeerToProber has returned, has a *)
(* monitor goroutine running on its current handle: no registration that  *)
(* succeeded leaves the peer unmonitored, and no monitor ends while its   *)
(* probe is still live.                                                   *)
EveryProbeMonitored ==
    \A p \in Peers :
        reg[p] = Idle /\ probe[p] # NoProbe => Monitored(probe[p])

(* Once a peer's stop channel is closed, every monitor goroutine bound to *)
(* its handle eventually returns (the select at line 57 observes          *)
(* StopNotify) instead of polling a dead handle forever.                  *)
StopEventuallyExits ==
    \A g \in Goroutines :
        (Running(g) /\ HandleStopped(g)) ~> (mon[g].pc = "exited")

(* While its probe is open, a monitor goroutine keeps going round its     *)
(* loop: it reaches the RTT observation of line 87 again unless the peer  *)
(* is removed, so the peer's rttSec series and its warnings never fall    *)
(* silent for a peer that is still probed (spec 4.2, 6: one observation  *)
(* per iteration, no exit but the stop signal).                           *)
MonitorKeepsReporting ==
    \A g \in Goroutines :
        (Running(g) /\ ~HandleStopped(g))
            ~> (mon[g].pc = "metric" \/ HandleStopped(g))

(* Spec 2 and 4.1: a registration creates or replaces the peer's probe    *)
(* and spawns exactly one monitor bound to the returned handle, so no two *)
(* running goroutines ever watch the same handle.  Registering a peer the *)
(* prober already probes makes AddHTTP return ErrExist, which line 38     *)
(* ignores.                                                                *)
OneMonitorPerHandle ==
    \A g1, g2 \in Goroutines :
        Running(g1) /\ Running(g2) /\ mon[g1].h = mon[g2].h => g1 = g2

-----------------------------------------------------------------------------
(* The inductive invariant behind EveryProbeMonitored.                     *)

(* Handles not yet created have an open stop channel, and goroutines not  *)
(* yet reached by a registration have not started.                        *)
FreshUnused ==
    /\ \A h \in Handles : h > nProbes => ~stopped[h]
    /\ \A g \in Goroutines : g > nRegs => mon[g].pc = "none"

(* A registration in progress owns a goroutine id no other peer's call    *)
(* holds, and that goroutine has not been started.                        *)
RegSlotFree ==
    \A p \in Peers : reg[p] # Idle =>
        /\ mon[reg[p]].pc = "none"
        /\ \A q \in Peers \ {p} : reg[q] # reg[p]

(* Distinct peers have distinct current handles, each of them open and    *)
(* monitored unless the peer is inside addPeerToProber.                   *)
CurrentProbeLive ==
    \A p \in Peers : probe[p] # NoProbe =>
        /\ ~stopped[probe[p]]
        /\ reg[p] # Idle \/ Monitored(probe[p])
        /\ \A q \in Peers \ {p} : probe[q] # probe[p]

ProbeInv ==
    /\ TypeOK
    /\ FreshUnused
    /\ RegSlotFree
    /\ CurrentProbeLive

Abs(x) == IF x < 0 THEN -x ELSE x

(* Spec 3 and 9: the monitor reads the status as one snapshot, in which an *)
(* unhealthy peer always has an error.  The "prober detected unhealthy    *)
(* status" warning (lines 59-66) must therefore carry a non-nil error.    *)
UnhealthyWarningCarriesError ==
    \A g \in Goroutines : \A i \in DOMAIN mon[g].log :
        mon[g].log[i].kind = "unhealthy" => mon[g].log[i].err # NoErr

(* Spec 4.2 step 5 and 8: a clock difference whose absolute value exceeds *)
(* time.Second produces a drift warning (line 74): the monitor goes on to *)
(* the RTT observation without warning only for a small clock difference. *)
DriftWarnedWhenSkewHigh ==
    [][\A g \in Goroutines :
          mon[g].pc = "drift" /\ mon'[g].pc = "metric"
          => Abs(Stat(g).clockdiff) <= Threshold]_vars

(* Spec 4.2 step 5 and 9: the drift warning (lines 75-85) carries the     *)
(* clock difference that exceeded the threshold at line 74.               *)
DriftWarningReportsSkew ==
    \A g \in Goroutines : \A i \in DOMAIN mon[g].log :
        mon[g].log[i].kind = "drift" => Abs(mon[g].log[i].drift) > Threshold

=============================================================================
