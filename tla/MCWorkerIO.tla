----------------------------- MODULE MCWorkerIO -----------------------------
(* Model values and bounds of the runs of WorkerIO. *)
EXTENDS WorkerIO, TLC

CONSTANTS r1, r2, w1, w2

(* The waiters all want the same request. *)
SameTarget  == [w \in Waiter |-> r1]

(* A run has two parties of clients.  The requests party has request() and *)
(* send_request() on one slot and no waiter; the waiters party has the     *)
(* waiters, the request they cancel and no other.                          *)
VARIABLE party   \* the one that came, or "nobody" yet

Absent == IF party' = "requests" THEN Waiter ELSE Async

(* The others have ended, refused, before anything happens.                *)
Arrive ==
  /\ party = "nobody"
  /\ party' \in {"requests", "waiters"}
  /\ pc' = [c \in DOMAIN pc |-> IF c \in Absent THEN "end" ELSE pc[c]]
  /\ result' = [c \in DOMAIN pc |->
                  IF c \in Absent THEN "refused" ELSE result[c]]
  /\ UNCHANGED <<seen, cancelEv, cancelSent, tables, queues, life, reading,
                 slots, stdin, worker>>

(* The bounds of a party: to the requests one misfortune of these kinds    *)
(* happens, to the waiters all may, but their request has no event before  *)
(* its terminal one.                                                       *)
Misfortunes ==
  {m \in {"closed", "exited", "timeout"} \cup Request :
     \/ m = "closed" /\ closed
     \/ m = "exited" /\ ~alive
     \/ m = "timeout" /\ \E r \in Request : result[r] = "timeout"
     \/ m \in Request /\ result[m] = "aborted"}
WithinBounds ==
  /\ party = "requests" => Cardinality(Misfortunes') <= 1
  /\ party = "waiters"  => \A r \in Request : sent'[r] = 0

PartyInit == Init /\ party = "nobody"
PartyNext ==
  \/ Arrive
  \/ party # "nobody" /\ Next /\ WithinBounds /\ UNCHANGED party
PartySpec == PartyInit /\ [][PartyNext]_<<vars, party>>
LivePartySpec == PartySpec /\ ThreadFairness
============================================================================
