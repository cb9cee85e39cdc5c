----------------------- MODULE EaConnectivityMonitor -----------------------
(***************************************************************************)
(* EaConnectivityMonitor: the connectivity state, set by the application   *)
(* or by a periodic HTTP probe, and the listener told of its transitions   *)
(* (EaQueueCoordinator, which flushes its queue then).                     *)
(*                                                                         *)
(* stopProbe() cancels the timer and clears probeInFlight_ but does not    *)
(* abort the request: its answer may still come, and is taken like any.    *)
(* An answer tells how the network is when it comes; that of a request     *)
(* sent before the network last changed may tell either.                   *)
(***************************************************************************)
EXTENDS Integers

CONSTANTS MaxCalls   (* bound on the calls of startProbe and stopProbe *)

ASSUME MonitorConstants == MaxCalls \in Nat

VARIABLES
  state,         (* state_                                                  *)
  timers,        (* periodic timers that are running                        *)
  hasUrl,        (* probeUrl_ is not empty                                  *)
  probeInFlight, (* probeInFlight_                                          *)
  sent, older,   (* probe requests not answered, sent since the network     *)
                 (* last changed and before                                 *)
  netUp,         (* the probe URL can be reached                            *)
  calls          (* calls of startProbe and stopProbe so far                *)

vars == <<state, timers, hasUrl, probeInFlight, sent, older, netUp, calls>>

Init ==
  /\ state = "unknown"
  /\ timers = 0
  /\ hasUrl = FALSE
  /\ probeInFlight = FALSE
  /\ sent = 0
  /\ older = 0
  /\ netUp \in BOOLEAN
  /\ calls = 0

StateOf(online) == IF online THEN "online" ELSE "offline"

SetOnline(online) ==
  /\ state' = StateOf(online)
  /\ UNCHANGED <<timers, hasUrl, probeInFlight, sent, older, netUp, calls>>

(* runProbe, when probeUrl_ and probeInFlight_ are the given ones *)
Probe(url, inFlight) ==
  LET skip == ~ url \/ inFlight
  IN  /\ probeInFlight' = (inFlight \/ ~ skip)
      /\ sent' = IF skip THEN sent ELSE sent + 1

(* Mutant of TimersAfterStop: the timer is not cancelled. *)
TimersRunOn == timers

(* cancelTimer(probeTimer_): the id is that of the timer started last. *)
TimersAfterStop == IF timers > 0 THEN timers - 1 ELSE 0

StartProbe(url) ==
  /\ calls < MaxCalls
  /\ calls' = calls + 1
  /\ hasUrl' = url
  /\ timers' = TimersAfterStop + (IF url THEN 1 ELSE 0)
  /\ Probe(url, FALSE)
  /\ UNCHANGED <<state, older, netUp>>

StopProbe ==
  /\ calls < MaxCalls
  /\ calls' = calls + 1
  /\ timers' = TimersAfterStop
  /\ probeInFlight' = FALSE
  /\ UNCHANGED <<state, hasUrl, sent, older, netUp>>

Tick ==
  /\ timers > 0
  /\ Probe(hasUrl, probeInFlight)
  /\ UNCHANGED <<state, timers, hasUrl, older, netUp, calls>>

(* Mutant of InFlightAfter: a failed probe leaves probeInFlight_ set. *)
InFlightAfterSuccess(ok) == IF ok THEN FALSE ELSE probeInFlight

(* The first statement of the completion, whichever request it is of *)
InFlightAfter(ok) == FALSE

Answer ==
  \E ok \in BOOLEAN :
    /\ \/ sent > 0 /\ ok = netUp /\ sent' = sent - 1 /\ UNCHANGED older
       \/ older > 0 /\ older' = older - 1 /\ UNCHANGED sent
    /\ probeInFlight' = InFlightAfter(ok)
    /\ state' = StateOf(ok)
    /\ UNCHANGED <<timers, hasUrl, netUp, calls>>

NetworkChanges ==
  /\ netUp' = ~ netUp
  /\ older' = older + sent
  /\ sent' = 0
  /\ UNCHANGED <<state, timers, hasUrl, probeInFlight, calls>>

Next ==
  \/ \E online \in BOOLEAN : SetOnline(online)
  \/ \E url \in BOOLEAN : StartProbe(url)
  \/ StopProbe
  \/ Tick
  \/ Answer
  \/ NetworkChanges

Spec == Init /\ [][Next]_vars

(* The timer of the loop fires again and again, and a probe request has a  *)
(* total timeout of 10 seconds.                                            *)
FairSpec == Spec /\ WF_vars(Tick) /\ WF_vars(Answer)

-----------------------------------------------------------------------------
(* Properties                                                              *)

TypeOK ==
  /\ state \in {"unknown", "online", "offline"}
  /\ timers \in Nat
  /\ hasUrl \in BOOLEAN
  /\ probeInFlight \in BOOLEAN
  /\ sent \in Nat
  /\ older \in Nat
  /\ netUp \in BOOLEAN
  /\ calls \in 0 .. MaxCalls

(* Starting, stopping and restarting the probe never leaves two timers     *)
(* running, and no timer runs without a URL to probe.                      *)
OneTimer == timers <= 1 /\ (timers = 1 => hasUrl)

(* probeInFlight_, which stops further probes, is set only while a request *)
(* is really out whose answer clears it: probing cannot get stuck.  Late   *)
(* answers clear it while another request is out, never the other way      *)
(* round.                                                                  *)
ProbingNotStuck == probeInFlight => sent + older > 0

(* Requests overlap only through startProbe and stopProbe, which give up   *)
(* on the one in flight without aborting it: there are never more than one *)
(* for each of those calls.                                                *)
ProbesBounded == sent + older <= calls

(* When probing goes on and the network stays up (or down), the monitor    *)
(* says so again and again, whatever late answers and the application say. *)
ProbeTellsState ==
  \A up \in BOOLEAN :
    <>[](timers > 0 /\ netUp = up) => []<>(state = StateOf(up))
=============================================================================
