------------------------- MODULE ProbingStatusProofs -------------------------
(***************************************************************************)
(* Proofs about ProbingStatus, for every value of the constants that       *)
(* satisfies ProbingAssumption.                                            *)
(***************************************************************************)
EXTENDS ProbingStatus, TLAPS

USE ProbingAssumption

(* The status a handle starts with is valid.                               *)
LEMMA ValidStatusNonEmpty == UnusedStatus \in ValidStatus
<1>1. [health |-> TRUE, srtt |-> CHOOSE r \in RTTs : TRUE, err |-> NoErr,
       clockdiff |-> CHOOSE k \in Skews : TRUE] \in ValidStatus
  BY DEF ValidStatus
<1>2. QED
  BY <1>1 DEF UnusedStatus

(* The events a monitor logs are of type Event.                            *)
LEMMA EventsTyped ==
    ASSUME NEW s \in ValidStatus
    PROVE  /\ UnhealthyEvent(s) \in Event
           /\ DriftEvent(s) \in Event
           /\ RTTEvent(s) \in Event
BY DEF ValidStatus, UnhealthyEvent, DriftEvent, RTTEvent, Event

(* A peer's current handle is one of the handles created so far.         *)
LEMMA ProbeRange ==
    ASSUME TypeOK, NEW q \in Peers, probe[q] # NoProbe
    PROVE  probe[q] \in 1..nProbes /\ probe[q] \in Handles
<1>1. probe[q] \in 0..nProbes /\ nProbes \in 0..MaxProbes
  BY DEF TypeOK
<1>2. QED
  BY <1>1 DEF NoProbe, Handles

(* The goroutine a registration in progress will start is one of those   *)
(* the registrations so far have reached.                                 *)
LEMMA RegRange ==
    ASSUME TypeOK, NEW q \in Peers, reg[q] # Idle
    PROVE  reg[q] \in 1..nRegs /\ reg[q] \in Goroutines
<1>1. reg[q] \in 0..nRegs /\ nRegs \in 0..MaxRegs
  BY DEF TypeOK
<1>2. QED
  BY <1>1 DEF Idle, Goroutines

(* A step of goroutine g changes only g's record, is taken by a started  *)
(* goroutine, leaves it started and bound to the same handle, ends it     *)
(* only once that handle's stop channel is closed, and reads a valid       *)
(* status.                                                                 *)
LEMMA MonitorFrame ==
    ASSUME TypeOK, NEW g \in Goroutines, Monitor(g)
    PROVE  /\ \A k \in Goroutines \ {g} : mon'[k] = mon[k]
           /\ mon[g].pc # "none"
           /\ mon'[g].pc # "none"
           /\ mon'[g].h = mon[g].h
           /\ mon[g].h \in Handles
           /\ mon'[g].pc = "exited" => stopped[mon[g].h]
           /\ UNCHANGED <<probe, nProbes, status, stopped, reg, nRegs,
                          regWarned>>
<1>1. mon \in [Goroutines -> MonRec]
  BY DEF TypeOK
<1>2. mon[g].pc # "none" => mon[g].h \in Handles
  BY DEF TypeOK
<1>3. CASE EnterSelect(g)
  BY <1>1, <1>2, <1>3 DEF EnterSelect, Monitor, MonRec
<1>4. CASE TimerFires(g)
  BY <1>1, <1>2, <1>4 DEF TimerFires, Monitor, MonRec
<1>5. CASE StopNotified(g)
  BY <1>1, <1>2, <1>5 DEF StopNotified, Monitor, MonRec
<1>6. CASE ReadHealth(g)
  BY <1>1, <1>2, <1>6 DEF ReadHealth, Monitor, MonRec
<1>7. CASE WarnUnhealthy(g)
  BY <1>1, <1>2, <1>7 DEF WarnUnhealthy, Monitor, MonRec
<1>8. CASE ReadClockDiff(g)
  BY <1>1, <1>2, <1>8 DEF ReadClockDiff, Monitor, MonRec
<1>9. CASE WarnDrift(g)
  BY <1>1, <1>2, <1>9 DEF WarnDrift, Monitor, MonRec
<1>10. CASE ObserveRTT(g)
  BY <1>1, <1>2, <1>10 DEF ObserveRTT, Monitor, MonRec
<1>11. QED
  BY <1>3, <1>4, <1>5, <1>6, <1>7, <1>8, <1>9, <1>10 DEF Monitor

(* A step of one monitor goroutine keeps its record well typed.            *)
LEMMA MonitorTyped ==
    ASSUME TypeOK, NEW g \in Goroutines, Monitor(g)
    PROVE  mon'[g] \in MonRec
<1> DEFINE r == mon[g]
           s == Stat(g)
<1>1. r \in MonRec /\ r.h \in Handles
  BY MonitorFrame DEF TypeOK
<1>2. s \in ValidStatus
  BY <1>1 DEF TypeOK, Stat
<1>3. mon \in [Goroutines -> MonRec]
  BY DEF TypeOK
<1>4. /\ {"loop", "wait", "health", "uwarn", "drift", "dwarn", "metric",
          "exited"} \subseteq MonPCs
      /\ <<>> \in Seq(Event)
  BY DEF MonPCs
<1>5. /\ Append(r.log, UnhealthyEvent(s)) \in Seq(Event)
      /\ Append(r.log, DriftEvent(s)) \in Seq(Event)
      /\ Append(r.log, RTTEvent(s)) \in Seq(Event)
  BY <1>1, <1>2, EventsTyped DEF MonRec
<1>6. CASE EnterSelect(g)
  <2>1. [r EXCEPT !.pc = "wait", !.log = <<>>] \in MonRec
    BY <1>1, <1>4 DEF MonRec
  <2>2. QED
    BY <1>3, <1>6, <2>1 DEF EnterSelect
<1>7. CASE TimerFires(g)
  <2>1. [r EXCEPT !.pc = "health"] \in MonRec
    BY <1>1, <1>4 DEF MonRec
  <2>2. QED
    BY <1>3, <1>7, <2>1 DEF TimerFires
<1>8. CASE StopNotified(g)
  <2>1. [r EXCEPT !.pc = "exited"] \in MonRec
    BY <1>1, <1>4 DEF MonRec
  <2>2. QED
    BY <1>3, <1>8, <2>1 DEF StopNotified
<1>9. CASE ReadHealth(g)
  <2>1. /\ [r EXCEPT !.pc = "drift", !.interval = MonitoringInterval] \in MonRec
        /\ [r EXCEPT !.pc = "uwarn"] \in MonRec
    BY <1>1, <1>4 DEF MonRec
  <2>2. QED
    BY <1>3, <1>9, <2>1 DEF ReadHealth
<1>10. CASE WarnUnhealthy(g)
  <2>1. [r EXCEPT !.pc = "drift", !.interval = ErrorInterval,
                  !.log = Append(r.log, UnhealthyEvent(s))] \in MonRec
    BY <1>1, <1>4, <1>5 DEF MonRec
  <2>2. QED
    BY <1>3, <1>10, <2>1 DEF WarnUnhealthy
<1>11. CASE ReadClockDiff(g)
  <2>1. /\ [r EXCEPT !.pc = "dwarn"] \in MonRec
        /\ [r EXCEPT !.pc = "metric"] \in MonRec
    BY <1>1, <1>4 DEF MonRec
  <2>2. QED
    BY <1>3, <1>11, <2>1 DEF ReadClockDiff
<1>12. CASE WarnDrift(g)
  <2>1. [r EXCEPT !.pc = "metric", !.log = Append(r.log, DriftEvent(s))]
           \in MonRec
    BY <1>1, <1>4, <1>5 DEF MonRec
  <2>2. QED
    BY <1>3, <1>12, <2>1 DEF WarnDrift
<1>13. CASE ObserveRTT(g)
  <2>1. [r EXCEPT !.pc = "loop", !.log = Append(r.log, RTTEvent(s))]
           \in MonRec
    BY <1>1, <1>4, <1>5 DEF MonRec
  <2>2. QED
    BY <1>3, <1>13, <2>1 DEF ObserveRTT
<1>14. QED
  BY <1>6, <1>7, <1>8, <1>9, <1>10, <1>11, <1>12, <1>13 DEF Monitor

-----------------------------------------------------------------------------
(* Type correctness.                                                        *)

(* The initial state is well typed.                                       *)
LEMMA TypeInit == Init => TypeOK
<1> SUFFICES ASSUME Init PROVE TypeOK
  OBVIOUS
<1>1. NotStarted \in MonRec
  BY DEF NotStarted, MonPCs, MonRec, NoProbe
<1>2. QED
  BY <1>1, ValidStatusNonEmpty DEF Init, TypeOK, NoProbe, Idle, NotStarted

(* Every step, or stutter, keeps the variables well typed.                 *)
LEMMA TypeStep == TypeOK /\ [Next]_vars => TypeOK'
<1> SUFFICES ASSUME TypeOK, [Next]_vars PROVE TypeOK'
  OBVIOUS
<1>1. ASSUME NEW p \in Peers, NEW us \in AddrLists, AddHTTP(p, us)
      PROVE  TypeOK'
  <2>1. /\ nRegs < MaxRegs
        /\ nRegs' = nRegs + 1
        /\ reg' = [reg EXCEPT ![p] = nRegs + 1]
        /\ UNCHANGED <<stopped, regWarned, mon>>
    BY <1>1 DEF AddHTTP
  <2>2. nRegs' \in 0..MaxRegs /\ reg' \in [Peers -> 0..nRegs']
    BY <2>1 DEF TypeOK
  <2>3. CASE probe[p] # NoProbe \/ Len(us) = 0
    BY <1>1, <2>1, <2>2, <2>3 DEF AddHTTP, TypeOK
  <2>4. CASE ~(probe[p] # NoProbe \/ Len(us) = 0)
    <3> DEFINE h == nProbes + 1
    <3>1. /\ nProbes < MaxProbes
          /\ probe' = [probe EXCEPT ![p] = h]
          /\ nProbes' = h
          /\ \E s0 \in ValidStatus : status' = [status EXCEPT ![h] = s0]
      BY <1>1, <2>4 DEF AddHTTP
    <3>2. nProbes' \in 0..MaxProbes /\ h \in Handles
      BY <3>1 DEF TypeOK, Handles
    <3>3. probe' \in [Peers -> 0..nProbes']
      BY <3>1 DEF TypeOK
    <3>4. status' \in [Handles -> ValidStatus]
      BY <3>1, <3>2 DEF TypeOK
    <3>5. QED
      BY <2>1, <2>2, <3>2, <3>3, <3>4 DEF TypeOK
  <2>5. QED
    BY <2>3, <2>4
<1>2. ASSUME NEW p \in Peers, StatusAndSpawn(p)
      PROVE  TypeOK'
  <2> DEFINE g == reg[p]
  <2>1. g \in Goroutines
    BY <1>2, RegRange DEF StatusAndSpawn
  <2>2. reg' \in [Peers -> 0..nRegs']
    BY <1>2 DEF StatusAndSpawn, TypeOK, Idle
  <2>3. CASE probe[p] = NoProbe
    BY <1>2, <2>2, <2>3 DEF StatusAndSpawn, TypeOK
  <2>4. CASE probe[p] # NoProbe
    <3> DEFINE r == [NotStarted EXCEPT !.h = probe[p], !.pc = "loop"]
    <3>1. mon' = [mon EXCEPT ![g] = r]
      BY <1>2, <2>4 DEF StatusAndSpawn
    <3>2. r \in MonRec /\ r.h \in Handles /\ r.pc = "loop"
      <4>1. probe[p] \in Handles
        BY <2>4, ProbeRange
      <4>2. NotStarted \in MonRec
        BY DEF NotStarted, MonPCs, MonRec, NoProbe
      <4>3. r.h = probe[p] /\ r.pc = "loop"
        BY DEF NotStarted
      <4>4. "loop" \in MonPCs
        BY DEF MonPCs
      <4>5. QED
        BY <4>1, <4>2, <4>3, <4>4 DEF MonRec
    <3>3. mon' \in [Goroutines -> MonRec]
      BY <2>1, <3>1, <3>2 DEF TypeOK
    <3>4. \A k \in Goroutines : mon'[k].pc # "none" => mon'[k].h \in Handles
      BY <2>1, <3>1, <3>2 DEF TypeOK
    <3>5. QED
      BY <1>2, <2>2, <3>3, <3>4 DEF StatusAndSpawn, TypeOK
  <2>5. QED
    BY <2>3, <2>4
<1>3. ASSUME NEW p \in Peers, Remove(p)
      PROVE  TypeOK'
  <2>1. stopped' \in [Handles -> BOOLEAN]
    BY <1>3 DEF Remove, TypeOK
  <2>2. probe' \in [Peers -> 0..nProbes']
    BY <1>3 DEF Remove, TypeOK, NoProbe
  <2>3. QED
    BY <1>3, <2>1, <2>2 DEF Remove, TypeOK
<1>4. ASSUME NEW h \in Handles, NEW rtt \in RTTs, NEW skew \in Skews,
             ProbeSuccess(h, rtt, skew)
      PROVE  TypeOK'
  BY <1>4 DEF ProbeSuccess, TypeOK, ValidStatus
<1>5. ASSUME NEW h \in Handles, NEW e \in Errs, ProbeFailure(h, e)
      PROVE  TypeOK'
  <2>1. e # NoErr
    OBVIOUS
  <2> DEFINE StatusRec == [health : BOOLEAN, srtt : RTTs,
                           err : Errs \cup {NoErr}, clockdiff : Skews]
             t == [status[h] EXCEPT !.health = FALSE, !.err = e]
  <2>2. status[h] \in StatusRec
    BY DEF TypeOK, ValidStatus
  <2>3. t \in StatusRec /\ t.health = FALSE /\ t.err = e
    BY <2>2
  <2>4. t \in ValidStatus
    BY <2>1, <2>3 DEF ValidStatus
  <2>5. QED
    BY <1>5, <2>4 DEF ProbeFailure, TypeOK
<1>6. ASSUME NEW g \in Goroutines, Monitor(g)
      PROVE  TypeOK'
  <2>1. /\ \A k \in Goroutines \ {g} : mon'[k] = mon[k]
        /\ mon'[g].pc # "none"
        /\ mon'[g].h = mon[g].h
        /\ mon[g].h \in Handles
        /\ UNCHANGED <<probe, nProbes, status, stopped, reg, nRegs,
                       regWarned>>
    BY <1>6, MonitorFrame
  <2>2. mon'[g] \in MonRec
    BY <1>6, MonitorTyped
  <2>3. mon' \in [Goroutines -> MonRec]
    <3>1. mon' = [k \in Goroutines |-> IF k = g THEN mon'[g] ELSE mon[k]]
      <4>1. mon' = [mon EXCEPT ![g] = mon'[g]]
        <5>1. CASE EnterSelect(g)
          BY <5>1 DEF EnterSelect
        <5>2. CASE TimerFires(g)
          BY <5>2 DEF TimerFires
        <5>3. CASE StopNotified(g)
          BY <5>3 DEF StopNotified
        <5>4. CASE ReadHealth(g)
          BY <5>4 DEF ReadHealth
        <5>5. CASE WarnUnhealthy(g)
          BY <5>5 DEF WarnUnhealthy
        <5>6. CASE ReadClockDiff(g)
          BY <5>6 DEF ReadClockDiff
        <5>7. CASE WarnDrift(g)
          BY <5>7 DEF WarnDrift
        <5>8. CASE ObserveRTT(g)
          BY <5>8 DEF ObserveRTT
        <5>9. QED
          BY <1>6, <5>1, <5>2, <5>3, <5>4, <5>5, <5>6, <5>7, <5>8 DEF Monitor
      <4>2. QED
        BY <4>1 DEF TypeOK
    <3>2. QED
      BY <2>2, <3>1 DEF TypeOK
  <2>4. \A k \in Goroutines : mon'[k].pc # "none" => mon'[k].h \in Handles
    BY <2>1 DEF TypeOK
  <2>5. QED
    BY <2>1, <2>3, <2>4 DEF TypeOK
<1>7. CASE UNCHANGED vars
  BY <1>7 DEF vars, TypeOK
<1>8. QED
  BY <1>1, <1>2, <1>3, <1>4, <1>5, <1>6, <1>7 DEF Next

(* The variables always have the types TypeOK gives them, and a started  *)
(* goroutine is always bound to a created handle.                         *)
THEOREM TypeCorrect == Spec => []TypeOK
BY TypeInit, TypeStep, PTL DEF Spec

-----------------------------------------------------------------------------
(* Every peer the prober probes is monitored.  EveryProbeMonitored is not *)
(* inductive by itself: a step that starts or ends a goroutine preserves   *)
(* it only because registrations in progress own unstarted goroutine ids  *)
(* (RegSlotFree), ids and handles beyond the counters are unused          *)
(* (FreshUnused), and each peer's handle is open and its own              *)
(* (CurrentProbeLive).  ProbeInv is their conjunction with TypeOK.        *)

(* The initial state satisfies the inductive invariant.                  *)
LEMMA ProbeInvInit == Init => ProbeInv
<1> SUFFICES ASSUME Init PROVE ProbeInv
  OBVIOUS
<1>1. TypeOK
  BY TypeInit
<1>2. FreshUnused
  BY DEF Init, FreshUnused, NotStarted
<1>3. RegSlotFree /\ CurrentProbeLive
  BY DEF Init, RegSlotFree, CurrentProbeLive
<1>4. QED
  BY <1>1, <1>2, <1>3 DEF ProbeInv

(* A step that changes none of probe, stopped, reg, nRegs and mon, nor    *)
(* lowers nProbes, preserves FreshUnused, RegSlotFree and CurrentProbeLive.*)
LEMMA StatusOnlyStep ==
    ASSUME ProbeInv, TypeOK',
           UNCHANGED <<probe, nProbes, stopped, reg, nRegs, mon>>
    PROVE  ProbeInv'
BY DEF ProbeInv, FreshUnused, RegSlotFree, CurrentProbeLive, Monitored,
       Running

(* addPeerToProber's AddHTTP call preserves the inductive invariant.      *)
LEMMA AddHTTPStep ==
    ASSUME ProbeInv, NEW p \in Peers, NEW us \in AddrLists, AddHTTP(p, us)
    PROVE  ProbeInv'
<1>1. TypeOK /\ TypeOK'
  BY TypeStep DEF ProbeInv, Next
<1>2. /\ reg[p] = Idle
      /\ nRegs < MaxRegs
      /\ nRegs' = nRegs + 1
      /\ reg' = [reg EXCEPT ![p] = nRegs + 1]
      /\ UNCHANGED <<stopped, mon>>
  BY DEF AddHTTP
<1>3. nRegs + 1 \in Goroutines /\ \A q \in Peers : reg[q] \in 0..nRegs
  BY <1>1, <1>2 DEF TypeOK, Goroutines
<1>0. FreshUnused /\ RegSlotFree /\ CurrentProbeLive
  BY DEF ProbeInv
<1>4. mon[nRegs + 1].pc = "none"
  BY <1>1, <1>3 DEF ProbeInv, FreshUnused, TypeOK, Goroutines
<1>5. RegSlotFree'
  <2> SUFFICES ASSUME NEW q \in Peers, reg'[q] # Idle
               PROVE  (/\ mon[reg[q]].pc = "none"
                       /\ \A q2 \in Peers \ {q} : reg[q2] # reg[q])'
    BY DEF RegSlotFree
  <2>1. CASE q = p
    BY <1>1, <1>2, <1>3, <1>4, <2>1 DEF TypeOK, Idle
  <2>2. CASE q # p
    BY <1>1, <1>2, <1>3, <2>2 DEF ProbeInv, RegSlotFree, TypeOK, Idle
  <2>3. QED
    BY <2>1, <2>2
<1>6. \A x : Monitored(x)' = Monitored(x)
  BY <1>2 DEF Monitored, Running
<1>7. \A q \in Peers : reg[q] # Idle => reg'[q] # Idle
  BY <1>2, <1>1 DEF TypeOK, Idle
<1>8. reg'[p] # Idle
  BY <1>2, <1>1 DEF TypeOK, Idle
<1>9. CASE probe[p] # NoProbe \/ Len(us) = 0
  <2>1. UNCHANGED <<probe, nProbes, status>>
    BY <1>9 DEF AddHTTP
  <2>2. FreshUnused'
    <3>1. nProbes \in Int /\ nRegs \in Int
      BY <1>1 DEF TypeOK
    <3>2. \A k \in Handles : k > nProbes' => k > nProbes
      BY <2>1, <3>1 DEF Handles
    <3>3. \A k \in Goroutines : k > nRegs' => k > nRegs
      BY <1>2, <3>1 DEF Goroutines
    <3>4. QED
      BY <1>0, <1>2, <3>2, <3>3 DEF FreshUnused
  <2>3. CurrentProbeLive'
    BY <1>2, <1>6, <1>7, <1>8, <2>1 DEF ProbeInv, CurrentProbeLive
  <2>4. QED
    BY <1>1, <1>5, <2>2, <2>3 DEF ProbeInv
<1>10. CASE ~(probe[p] # NoProbe \/ Len(us) = 0)
  <2> DEFINE h == nProbes + 1
  <2>1. /\ probe' = [probe EXCEPT ![p] = h]
        /\ nProbes' = h
        /\ h \in Handles
    BY <1>1, <1>10 DEF AddHTTP, Handles, TypeOK
  <2>2. ~stopped[h]
    BY <1>1, <2>1 DEF ProbeInv, FreshUnused, TypeOK
  <2>3. FreshUnused'
    <3>1. nProbes \in Int /\ nRegs \in Int
      BY <1>1 DEF TypeOK
    <3>2. \A k \in Handles : k > nProbes' => k > nProbes
      BY <2>1, <3>1 DEF Handles
    <3>3. \A k \in Goroutines : k > nRegs' => k > nRegs
      BY <1>2, <3>1 DEF Goroutines
    <3>4. QED
      BY <1>0, <1>2, <3>2, <3>3 DEF FreshUnused
  <2>4. CurrentProbeLive'
    <3> SUFFICES ASSUME NEW q \in Peers, probe'[q] # NoProbe
                 PROVE  (/\ ~stopped[probe[q]]
                         /\ reg[q] # Idle \/ Monitored(probe[q])
                         /\ \A q2 \in Peers \ {q} : probe[q2] # probe[q])'
      BY DEF CurrentProbeLive
    <3>1. \A q2 \in Peers : probe[q2] \in 0..nProbes
      BY DEF ProbeInv, TypeOK
    <3>2. CASE q = p
      BY <1>1, <1>2, <1>8, <2>1, <2>2, <3>1, <3>2 DEF NoProbe, TypeOK
    <3>3. CASE q # p
      BY <1>1, <1>2, <1>6, <1>7, <2>1, <3>1, <3>3 DEF ProbeInv, CurrentProbeLive,
         NoProbe, TypeOK
    <3>4. QED
      BY <3>2, <3>3
  <2>5. QED
    BY <1>1, <1>5, <2>3, <2>4 DEF ProbeInv
<1>11. QED
  BY <1>9, <1>10

(* addPeerToProber's Status call and its go statement (line 50) preserve *)
(* the inductive invariant: the goroutine started is the one the call    *)
(* reserved, which no other registration holds and which is not running.*)
LEMMA StatusAndSpawnStep ==
    ASSUME ProbeInv, NEW p \in Peers, StatusAndSpawn(p)
    PROVE  ProbeInv'
<1>0. FreshUnused /\ RegSlotFree /\ CurrentProbeLive
  BY DEF ProbeInv
<1>1. TypeOK /\ TypeOK'
  BY TypeStep DEF ProbeInv, Next
<1>g. PICK g \in Goroutines : g = reg[p]
  BY <1>1, RegRange DEF StatusAndSpawn
<1>2. /\ g # Idle
      /\ reg' = [reg EXCEPT ![p] = Idle]
      /\ UNCHANGED <<probe, nProbes, status, stopped, nRegs>>
  BY <1>g DEF StatusAndSpawn
<1>3. g \in 1..nRegs /\ g \in Goroutines
  BY <1>1, <1>2, <1>g, RegRange
<1>4. mon[g].pc = "none" /\ \A q \in Peers \ {p} : reg[q] # g
  BY <1>0, <1>2, <1>g DEF RegSlotFree
<1>5. \A k \in Goroutines \ {g} : mon'[k] = mon[k]
  BY <1>1, <1>3, <1>g DEF StatusAndSpawn, TypeOK
<1>6. \A k \in Goroutines : Running(k) => mon'[k] = mon[k]
  BY <1>4, <1>5 DEF Running
<1>7. \A x : Monitored(x) => Monitored(x)'
  BY <1>6 DEF Monitored, Running
<1>8. FreshUnused'
  <2>1. \A k \in Goroutines : k > nRegs => k # g
    BY <1>1, <1>3 DEF TypeOK, Goroutines
  <2>2. QED
    BY <1>0, <1>2, <1>5, <2>1 DEF FreshUnused
<1>9. RegSlotFree'
  <2> SUFFICES ASSUME NEW q \in Peers, reg'[q] # Idle
               PROVE  (/\ mon[reg[q]].pc = "none"
                       /\ \A q2 \in Peers \ {q} : reg[q2] # reg[q])'
    BY DEF RegSlotFree
  <2>1. q # p /\ reg'[q] = reg[q] /\ reg[q] # Idle
    BY <1>1, <1>2 DEF TypeOK
  <2>2. reg[q] \in Goroutines \ {g}
    BY <1>4, <2>1, RegRange, <1>1
  <2>3. mon'[reg[q]].pc = "none"
    BY <1>0, <1>5, <2>1, <2>2 DEF RegSlotFree
  <2>4. \A q2 \in Peers \ {q} : reg'[q2] # reg'[q]
    BY <1>0, <1>1, <1>2, <2>1 DEF RegSlotFree, TypeOK
  <2>5. QED
    BY <2>1, <2>3, <2>4
<1>10. CurrentProbeLive'
  <2> SUFFICES ASSUME NEW q \in Peers, probe[q] # NoProbe
               PROVE  (/\ ~stopped[probe[q]]
                       /\ reg[q] # Idle \/ Monitored(probe[q])
                       /\ \A q2 \in Peers \ {q} : probe[q2] # probe[q])'
    BY <1>2 DEF CurrentProbeLive
  <2>1. ~stopped'[probe'[q]] /\ \A q2 \in Peers \ {q} : probe'[q2] # probe'[q]
    BY <1>0, <1>2 DEF CurrentProbeLive
  <2>2. CASE q = p
    <3>1. mon'[g] = [NotStarted EXCEPT !.h = probe[p], !.pc = "loop"]
      BY <1>1, <1>3, <1>g, <2>2 DEF StatusAndSpawn, TypeOK
    <3>2. Running(g)' /\ mon'[g].h = probe[p]
      BY <3>1 DEF Running, NotStarted
    <3>3. QED
      BY <1>2, <1>3, <1>g, <2>1, <2>2, <3>2 DEF Monitored
  <2>3. CASE q # p
    <3>1. reg'[q] = reg[q]
      BY <1>1, <1>2, <2>3 DEF TypeOK
    <3>2. reg[q] # Idle \/ Monitored(probe[q])
      BY <1>0 DEF CurrentProbeLive
    <3>3. QED
      BY <1>2, <1>7, <2>1, <3>1, <3>2
  <2>4. QED
    BY <2>2, <2>3
<1>11. QED
  BY <1>1, <1>8, <1>9, <1>10 DEF ProbeInv

(* Removing a peer (close of its stop channel, RemoveHTTP) preserves the  *)
(* inductive invariant: the handle stopped is the peer's own, which no     *)
(* other peer's current handle equals.                                    *)
LEMMA RemoveStep ==
    ASSUME ProbeInv, NEW p \in Peers, Remove(p)
    PROVE  ProbeInv'
<1>0. FreshUnused /\ RegSlotFree /\ CurrentProbeLive
  BY DEF ProbeInv
<1>1. TypeOK /\ TypeOK'
  BY TypeStep DEF ProbeInv, Next
<1>2. /\ probe[p] # NoProbe
      /\ stopped' = [stopped EXCEPT ![probe[p]] = TRUE]
      /\ probe' = [probe EXCEPT ![p] = NoProbe]
      /\ UNCHANGED <<nProbes, reg, nRegs, mon>>
  BY DEF Remove
<1>3. probe[p] \in 1..nProbes /\ probe[p] \in Handles
  BY <1>1, <1>2, ProbeRange
<1>4. FreshUnused'
  <2>1. \A k \in Handles : k > nProbes => k # probe[p]
    BY <1>1, <1>3 DEF TypeOK, Handles
  <2>2. QED
    BY <1>0, <1>1, <1>2, <2>1 DEF FreshUnused, TypeOK
<1>5. RegSlotFree'
  BY <1>0, <1>2 DEF RegSlotFree
<1>6. CurrentProbeLive'
  <2> SUFFICES ASSUME NEW q \in Peers, probe'[q] # NoProbe
               PROVE  (/\ ~stopped[probe[q]]
                       /\ reg[q] # Idle \/ Monitored(probe[q])
                       /\ \A q2 \in Peers \ {q} : probe[q2] # probe[q])'
    BY DEF CurrentProbeLive
  <2>1. q # p /\ probe'[q] = probe[q] /\ probe[q] # NoProbe
    BY <1>1, <1>2 DEF TypeOK
  <2>2. probe[q] # probe[p] /\ probe[q] \in Handles
    BY <1>0, <2>1, ProbeRange, <1>1 DEF CurrentProbeLive
  <2>3. ~stopped'[probe[q]]
    BY <1>0, <1>1, <1>2, <2>1, <2>2 DEF CurrentProbeLive, TypeOK
  <2>4. reg'[q] # Idle \/ Monitored(probe[q])'
    BY <1>0, <1>2, <2>1 DEF CurrentProbeLive, Monitored, Running
  <2>5. \A q2 \in Peers \ {q} : probe'[q2] # probe'[q]
    BY <1>0, <1>1, <1>2, <2>1 DEF CurrentProbeLive, TypeOK, NoProbe
  <2>6. QED
    BY <2>1, <2>3, <2>4, <2>5
<1>7. QED
  BY <1>1, <1>4, <1>5, <1>6 DEF ProbeInv

(* A step of a monitor goroutine preserves the inductive invariant: it    *)
(* touches only its own record, and it returns only once its handle is     *)
(* stopped, which no peer's current handle is.                             *)
LEMMA MonitorStep ==
    ASSUME ProbeInv, NEW g \in Goroutines, Monitor(g)
    PROVE  ProbeInv'
<1>0. FreshUnused /\ RegSlotFree /\ CurrentProbeLive
  BY DEF ProbeInv
<1>1. TypeOK /\ TypeOK'
  BY TypeStep DEF ProbeInv, Next
<1>2. /\ \A k \in Goroutines \ {g} : mon'[k] = mon[k]
      /\ mon[g].pc # "none"
      /\ mon'[g].pc # "none"
      /\ mon'[g].h = mon[g].h
      /\ mon'[g].pc = "exited" => stopped[mon[g].h]
      /\ UNCHANGED <<probe, nProbes, status, stopped, reg, nRegs, regWarned>>
  BY <1>1, MonitorFrame
<1>3. \A k \in Goroutines : mon[k].pc = "none" => mon'[k] = mon[k]
  BY <1>2
<1>4. FreshUnused'
  BY <1>0, <1>2, <1>3 DEF FreshUnused
<1>5. RegSlotFree'
  <2>1. \A q \in Peers : reg[q] # Idle => reg[q] \in Goroutines
    BY <1>1, RegRange
  <2>2. QED
    BY <1>0, <1>2, <1>3, <2>1 DEF RegSlotFree
<1>6. CurrentProbeLive'
  <2> SUFFICES ASSUME NEW q \in Peers, probe[q] # NoProbe
               PROVE  (/\ ~stopped[probe[q]]
                       /\ reg[q] # Idle \/ Monitored(probe[q])
                       /\ \A q2 \in Peers \ {q} : probe[q2] # probe[q])'
    BY <1>2 DEF CurrentProbeLive
  <2>1. ~stopped[probe[q]] /\ \A q2 \in Peers \ {q} : probe[q2] # probe[q]
    BY <1>0 DEF CurrentProbeLive
  <2>2. CASE reg[q] # Idle
    BY <1>2, <2>1, <2>2
  <2>3. CASE reg[q] = Idle
    <3>1. PICK k \in Goroutines : Running(k) /\ mon[k].h = probe[q]
      BY <1>0, <2>3 DEF CurrentProbeLive, Monitored
    <3>2. Running(k)' /\ mon'[k].h = probe[q]
      <4>1. CASE k # g
        BY <1>2, <3>1, <4>1 DEF Running
      <4>2. CASE k = g
        BY <1>2, <2>1, <3>1, <4>2 DEF Running
      <4>3. QED
        BY <4>1, <4>2
    <3>3. QED
      BY <1>2, <2>1, <3>2 DEF Monitored
  <2>4. QED
    BY <2>2, <2>3
<1>7. QED
  BY <1>1, <1>4, <1>5, <1>6 DEF ProbeInv

(* Every step, or stutter, preserves the inductive invariant.             *)
LEMMA ProbeInvStep == ProbeInv /\ [Next]_vars => ProbeInv'
<1> SUFFICES ASSUME ProbeInv, [Next]_vars PROVE ProbeInv'
  OBVIOUS
<1>1. ASSUME NEW p \in Peers, NEW us \in AddrLists, AddHTTP(p, us)
      PROVE  ProbeInv'
  BY <1>1, AddHTTPStep
<1>2. ASSUME NEW p \in Peers, StatusAndSpawn(p)
      PROVE  ProbeInv'
  BY <1>2, StatusAndSpawnStep
<1>3. ASSUME NEW p \in Peers, Remove(p)
      PROVE  ProbeInv'
  BY <1>3, RemoveStep
<1>4. ASSUME NEW h \in Handles, NEW rtt \in RTTs, NEW skew \in Skews,
             ProbeSuccess(h, rtt, skew)
      PROVE  ProbeInv'
  <2>1. TypeOK'
    BY TypeStep DEF ProbeInv, Next
  <2>2. QED
    BY <1>4, <2>1, StatusOnlyStep DEF ProbeSuccess
<1>5. ASSUME NEW h \in Handles, NEW e \in Errs, ProbeFailure(h, e)
      PROVE  ProbeInv'
  <2>1. TypeOK'
    BY TypeStep DEF ProbeInv, Next
  <2>2. QED
    BY <1>5, <2>1, StatusOnlyStep DEF ProbeFailure
<1>6. ASSUME NEW g \in Goroutines, Monitor(g)
      PROVE  ProbeInv'
  BY <1>6, MonitorStep
<1>7. CASE UNCHANGED vars
  <2>1. TypeOK'
    BY TypeStep DEF ProbeInv
  <2>2. QED
    BY <1>7, <2>1, StatusOnlyStep DEF vars
<1>8. QED
  BY <1>1, <1>2, <1>3, <1>4, <1>5, <1>6, <1>7 DEF Next

(* The registration, spawn, removal and monitor steps keep the inductive *)
(* invariant in every behaviour.                                           *)
THEOREM ProbeInvariant == Spec => []ProbeInv
BY ProbeInvInit, ProbeInvStep, PTL DEF Spec

(* For every number of peers, handles and registrations: once             *)
(* addPeerToProber has returned for a peer the prober probes, a monitor   *)
(* goroutine (line 50) is running on that peer's current handle, and it   *)
(* keeps running until the handle's stop channel is closed (lines 57-58). *)
THEOREM ProbesMonitored == Spec => []EveryProbeMonitored
<1>1. ProbeInv => EveryProbeMonitored
  BY DEF ProbeInv, CurrentProbeLive, EveryProbeMonitored
<1>2. QED
  BY ProbeInvariant, <1>1, PTL

=============================================================================
