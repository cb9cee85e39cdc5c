-------------------- MODULE EaConnectivityMonitorProofs --------------------
(***************************************************************************)
(* Proofs about EaConnectivityMonitor, for any number of calls of          *)
(* startProbe and stopProbe.                                               *)
(***************************************************************************)
EXTENDS EaConnectivityMonitor, TLAPS

(* Requests that are out, whichever state of the network they tell *)
Out == sent + older

(* ProbesBounded is not inductive: a tick sends a request whenever the     *)
(* flag is clear, so then one of the calls must be left over for it.       *)
RoomForProbe == timers > 0 /\ ~ probeInFlight => Out < calls

IInv == TypeOK /\ OneTimer /\ ProbingNotStuck /\ ProbesBounded /\ RoomForProbe

LEMMA Initially == Init => IInv
<1> SUFFICES ASSUME Init PROVE IInv
  OBVIOUS
<1>1. timers = 0 /\ sent = 0 /\ older = 0 /\ calls = 0 /\ ~ probeInFlight
  BY DEF Init
<1>2. TypeOK
  <2>1. timers \in Nat /\ sent \in Nat /\ older \in Nat /\ calls \in 0 .. MaxCalls
    BY <1>1, MonitorConstants DEF MonitorConstants
  <2> QED BY <2>1 DEF Init, TypeOK
<1> QED BY <1>1, <1>2
    DEF IInv, OneTimer, ProbingNotStuck, ProbesBounded, RoomForProbe, Out

(* The timer left by startProbe and stopProbe is that of the last start. *)
LEMMA NoTimerAfterStop == IInv => TimersAfterStop = 0
BY DEF IInv, TypeOK, OneTimer, TimersAfterStop

LEMMA Inductive == IInv /\ [Next]_vars => IInv'
<1> SUFFICES ASSUME IInv, [Next]_vars PROVE IInv'
  OBVIOUS
<1> USE DEF TypeOK, OneTimer, ProbingNotStuck, ProbesBounded, RoomForProbe, Out
<1>1. ASSUME NEW online \in BOOLEAN, SetOnline(online)
      PROVE  IInv'
  BY <1>1 DEF IInv, SetOnline, StateOf
<1>2. ASSUME NEW url \in BOOLEAN, StartProbe(url)
      PROVE  IInv'
  <2>1. timers' = IF url THEN 1 ELSE 0
    BY <1>2, NoTimerAfterStop DEF StartProbe
  <2>2. probeInFlight' = url /\ sent' = IF url THEN sent + 1 ELSE sent
    BY <1>2 DEF StartProbe, Probe
  <2>3. calls' = calls + 1 /\ calls' \in 0 .. MaxCalls
    BY <1>2, MonitorConstants DEF StartProbe, IInv
  <2> QED BY <1>2, <2>1, <2>2, <2>3 DEF StartProbe, IInv
<1>3. ASSUME StopProbe
      PROVE  IInv'
  <2>1. timers' = 0 /\ probeInFlight' = FALSE
    BY <1>3, NoTimerAfterStop DEF StopProbe
  <2>2. calls' = calls + 1 /\ calls' \in 0 .. MaxCalls
    BY <1>3, MonitorConstants DEF MonitorConstants, StopProbe, IInv
  <2>3. UNCHANGED <<state, hasUrl, sent, older, netUp>>
    BY <1>3 DEF StopProbe
  <2>4. TypeOK'
    BY <2>1, <2>2, <2>3 DEF IInv
  <2>5. ~ probeInFlight' /\ Out' = Out
    BY <2>1, <2>3
  <2>6. OneTimer' /\ ProbingNotStuck' /\ ProbesBounded' /\ RoomForProbe'
    BY <2>1, <2>2, <2>5 DEF IInv
  <2> QED BY <2>4, <2>6 DEF IInv
<1>4. ASSUME Tick
      PROVE  IInv'
  <2>1. CASE probeInFlight
    BY <1>4, <2>1 DEF Tick, Probe, IInv
  <2>2. CASE ~ probeInFlight
    <3>1. hasUrl
      BY <1>4 DEF Tick, IInv
    <3>2. sent' = sent + 1 /\ probeInFlight' = TRUE
      BY <1>4, <2>2, <3>1 DEF Tick, Probe
    <3> QED BY <1>4, <2>2, <3>2 DEF Tick, IInv
  <2> QED BY <2>1, <2>2
<1>5. ASSUME Answer
      PROVE  IInv'
  <2>1. PICK ok \in BOOLEAN :
           /\ \/ sent > 0 /\ sent' = sent - 1 /\ UNCHANGED older
              \/ older > 0 /\ older' = older - 1 /\ UNCHANGED sent
           /\ probeInFlight' = FALSE
           /\ state' = StateOf(ok)
           /\ UNCHANGED <<timers, hasUrl, netUp, calls>>
    BY <1>5 DEF Answer, InFlightAfter
  <2>2. Out' \in Nat /\ Out' < Out /\ sent' \in Nat /\ older' \in Nat
    BY <2>1 DEF IInv
  <2>3. state' \in {"unknown", "online", "offline"}
    BY <2>1 DEF StateOf
  <2>4. ~ probeInFlight' /\ probeInFlight' \in BOOLEAN
    BY <2>1
  <2>5. TypeOK'
    BY <2>1, <2>2, <2>3, <2>4 DEF IInv
  <2>6. OneTimer'
    BY <2>1 DEF IInv
  <2>7. ProbingNotStuck'
    BY <2>4
  <2>8. Out' < calls' /\ calls' \in Nat
    <3>1. calls' = calls /\ calls \in Nat
      BY <2>1, MonitorConstants DEF MonitorConstants, IInv
    <3>2. Out <= calls /\ Out \in Nat
      BY DEF IInv
    <3>3. Out' \in Nat /\ Out' < Out
      BY <2>2
    <3> HIDE DEF Out
    <3> QED BY <3>1, <3>2, <3>3
  <2>9. ProbesBounded'
    <3>1. Out' <= calls'
      <4> HIDE DEF Out
      <4> QED BY <2>2, <2>8
    <3> QED BY <3>1
  <2>10. RoomForProbe'
    <3> HIDE DEF Out
    <3> QED BY <2>8
  <2> QED BY <2>5, <2>6, <2>7, <2>9, <2>10 DEF IInv
<1>6. ASSUME NetworkChanges
      PROVE  IInv'
  BY <1>6 DEF NetworkChanges, IInv
<1>7. ASSUME UNCHANGED vars
      PROVE  IInv'
  BY <1>7 DEF vars, IInv
<1> QED BY <1>1, <1>2, <1>3, <1>4, <1>5, <1>6, <1>7 DEF Next

LEMMA Always == Spec => []IInv
BY Initially, Inductive, PTL DEF Spec

(* Starting, stopping and restarting the probe any number of times never   *)
(* leaves two timers running, nor one without a URL.                       *)
THEOREM OneTimerOnly == Spec => []OneTimer
<1>1. IInv => OneTimer
  BY DEF IInv
<1> QED BY <1>1, Always, PTL

(* probeInFlight_ never blocks probing for good: while it is set a request *)
(* is out whose answer clears it.                                          *)
THEOREM NeverStuck == Spec => []ProbingNotStuck
<1>1. IInv => ProbingNotStuck
  BY DEF IInv
<1> QED BY <1>1, Always, PTL

(* However late the answers are, ticks pile up no requests: there is one   *)
(* at most for each call of startProbe and stopProbe.                      *)
THEOREM BoundedProbes == Spec => []ProbesBounded
<1>1. IInv => ProbesBounded
  BY DEF IInv
<1> QED BY <1>1, Always, PTL
=============================================================================
