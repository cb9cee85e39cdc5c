-------------------------- MODULE MessageDelivery --------------------------
(***************************************************************************)
(* What the offline queue promises to whoever was told "queued": messages  *)
(* are kept in the order in which they were accepted, the oldest ones are  *)
(* settled first, and every message is settled once, by a reply, by a      *)
(* refusal, or because its attempts are used up.                           *)
(***************************************************************************)
EXTENDS Naturals, Sequences, FiniteSets

CONSTANT Msgs

VARIABLES pending,   (* the messages accepted and not settled, oldest first *)
          outcome    (* outcome[m]: how m was settled, {} before            *)

Outcomes == {"replied", "refused", "dropped"}

IsPending(m) == \E i \in DOMAIN pending : pending[i] = m

Untouched(m) == outcome[m] = {} /\ ~ IsPending(m)

Init ==
  /\ pending \in Seq(Msgs)
  /\ \A i, j \in DOMAIN pending : pending[i] = pending[j] => i = j
  /\ outcome = [m \in Msgs |-> {}]

Accept(m) ==
  /\ Untouched(m)
  /\ pending' = Append(pending, m)
  /\ UNCHANGED outcome

(* The n oldest messages are settled, and with them those in direct, which *)
(* were answered without being queued.                                     *)
Settle(n, direct) ==
  LET settled == {pending[i] : i \in 1 .. n} \cup direct
  IN  /\ \A m \in direct : Untouched(m)
      /\ pending' = SubSeq(pending, n + 1, Len(pending))
      /\ \E how \in [settled -> Outcomes] :
            outcome' = [m \in Msgs |-> IF m \in settled THEN {how[m]} ELSE outcome[m]]

Next ==
  \/ \E m \in Msgs : Accept(m)
  \/ \E n \in 0 .. Len(pending) :
        \/ Settle(n, {})
        \/ \E m \in Msgs : Settle(n, {m})

Spec == Init /\ [][Next]_<<pending, outcome>>
============================================================================
