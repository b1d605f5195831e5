---------------------------- MODULE WsioAbstract ----------------------------
(***************************************************************************)
(* What the WebSocket IO promises its caller (spec sections 3 and 4),      *)
(* with no engine, no buffers and no call stack:                           *)
(*   - an open ends in exactly one open-complete: OK, ERROR or CANCELLED;  *)
(*   - an accepted write joins the tail of a queue, and only the head      *)
(*     ever completes, exactly once, OK or ERROR while open;               *)
(*   - close cancels an open in progress, or cancels the queued writes     *)
(*     one by one from the head and then closes.                           *)
(* Wsio refines this module (see AbstractSpec in Wsio).                    *)
(***************************************************************************)
EXTENDS Naturals, Sequences

CONSTANT MaxSends   \* writes are numbered 1..MaxSends in the order accepted

Ids == 1..MaxSends

VARIABLES
    state,    \* "closed", "opening", "open", "failed" (IO in ERROR) or "closing"
    queue,    \* accepted writes that have not completed, oldest first
    done,     \* every send completion so far: [id, result]
    opened,   \* open-complete results of the current open
    next      \* the number the next accepted write gets

avars == <<state, queue, done, opened, next>>

AInit ==
    /\ state = "closed"
    /\ queue = <<>>
    /\ done = <<>>
    /\ opened = <<>>
    /\ next = 1

AOpen ==
    /\ state = "closed"
    /\ state' = "opening"
    /\ opened' = <<>>
    /\ UNCHANGED <<queue, done, next>>

\* The open ends with OK or ERROR.
AOpenEnds(result) ==
    /\ state = "opening"
    /\ state' = IF result = "OK" THEN "open" ELSE "closed"
    /\ opened' = Append(opened, result)
    /\ UNCHANGED <<queue, done, next>>

\* Writes are accepted while the IO is open, including while a close is
\* cancelling the queue from inside a completion callback; such a write
\* is cancelled with the rest.
ASend ==
    /\ state \in {"open", "closing"}
    /\ next \in Ids
    /\ queue' = Append(queue, next)
    /\ next' = next + 1
    /\ UNCHANGED <<state, done, opened>>

\* The head write completes while the IO is open.
AComplete(result) ==
    /\ state = "open"
    /\ queue # <<>>
    /\ done' = Append(done, [id |-> Head(queue), result |-> result])
    /\ queue' = Tail(queue)
    /\ UNCHANGED <<state, opened, next>>

\* The IO stops after a failure; writes stay queued until close.
AFail ==
    /\ state = "open"
    /\ state' = "failed"
    /\ UNCHANGED <<queue, done, opened, next>>

\* Close during an open cancels it.
ACloseOpening ==
    /\ state = "opening"
    /\ state' = "closed"
    /\ opened' = Append(opened, "CANCELLED")
    /\ UNCHANGED <<queue, done, next>>

\* Close with nothing queued closes at once; otherwise it starts cancelling.
ACloseOpen ==
    /\ state \in {"open", "failed"}
    /\ IF queue = <<>>
       THEN /\ state' = "closed"
            /\ UNCHANGED <<queue, done>>
       ELSE /\ state' = "closing"
            /\ done' = Append(done, [id |-> Head(queue), result |-> "CANCELLED"])
            /\ queue' = Tail(queue)
    /\ UNCHANGED <<opened, next>>

\* Closing: cancel the next queued write, or finish once none is left.
ACancelNext ==
    /\ state = "closing"
    /\ IF queue = <<>>
       THEN /\ state' = "closed"
            /\ UNCHANGED <<queue, done>>
       ELSE /\ done' = Append(done, [id |-> Head(queue), result |-> "CANCELLED"])
            /\ queue' = Tail(queue)
            /\ UNCHANGED state
    /\ UNCHANGED <<opened, next>>

ANext ==
    \/ AOpen \/ AOpenEnds("OK") \/ AOpenEnds("ERROR")
    \/ ASend \/ AComplete("OK") \/ AComplete("ERROR") \/ AFail
    \/ ACloseOpening \/ ACloseOpen \/ ACancelNext

ASpec == AInit /\ [][ANext]_avars

\* What the IO promises beyond safety: a queued write of an open IO
\* eventually completes, and a close that has begun eventually cancels
\* every queued write and closes.  Opening, sending, failing and closing
\* are up to the caller and the engine, and get no fairness.
AFairSpec ==
    /\ ASpec
    /\ WF_avars(AComplete("OK") \/ AComplete("ERROR"))
    /\ WF_avars(ACancelNext)

=============================================================================
