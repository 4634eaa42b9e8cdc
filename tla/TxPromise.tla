----------------------------- MODULE TxPromise -----------------------------
(***************************************************************************)
(* What mspc promises a backend about the requests it sends to a mobile    *)
(* client and wants an answer for.  A request is idle until it is handed   *)
(* to the client; from then on it is pending until exactly one thing       *)
(* becomes of it, and that is final:                                       *)
(*                                                                         *)
(*   answered   the client's answer to this very request was written       *)
(*   timedout   the 504 answer was written, after the deadline             *)
(*   failed     the answer or the 504 could not be written                 *)
(*   abandoned  the client went away first; nothing is written             *)
(*                                                                         *)
(* Several requests may move in one step: one run of a client's timer      *)
(* times out all of its overdue requests and may drop the others.          *)
(***************************************************************************)
EXTENDS Integers

CONSTANTS Reqs,       \* requests, each sent once
          TxTimeout   \* seconds granted to the client

VARIABLES st,         \* what became of each request
          togo        \* seconds left to a pending one, -1 once it is overdue

pvars == <<st, togo>>

Final == {"answered", "timedout", "failed", "abandoned"}

PInit ==
    /\ st = [r \in Reqs |-> "idle"]
    /\ togo = [r \in Reqs |-> 0]

\* The fates a request may meet in one step.  A deadline is missed when
\* more than TxTimeout seconds have passed.
Fates(r) ==
    CASE st[r] = "idle"    -> {"idle", "pending", "abandoned"}
      [] st[r] = "pending" -> {"pending", "answered", "failed", "abandoned"}
                                 \union {f \in {"timedout"} : togo[r] < 0}
      [] OTHER             -> {st[r]}

Move ==
    /\ st' \in [Reqs -> {"idle", "pending"} \union Final]
    /\ \A r \in Reqs : st'[r] \in Fates(r)
    /\ togo' = [r \in Reqs |->
                  IF st[r] = "idle" /\ st'[r] = "pending" THEN TxTimeout
                  ELSE IF st'[r] = "pending" THEN togo[r] ELSE 0]

Second ==
    /\ togo' = [r \in Reqs |-> IF st[r] = "pending" /\ togo[r] >= 0
                           THEN togo[r] - 1 ELSE togo[r]]
    /\ UNCHANGED st

PNext == Move \/ Second

PSpec == PInit /\ [][PNext]_pvars
=============================================================================
