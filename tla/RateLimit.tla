----------------------------- MODULE RateLimit -----------------------------
(***************************************************************************)
(* The rate limit of the messages to the TWS (twsdo.cpp, struct RateLimit):*)
(* a counter for the current slot of m_interval milliseconds.  All that    *)
(* can_send() asks of the time is whether a new slot has begun since it    *)
(* last started to count, so a record is that answer and the counter.      *)
(***************************************************************************)
EXTENDS Integers

CONSTANT Rate  (* m_rate *)

ASSUME RateAssumption == Rate \in Nat \ {0}

RateLimitType == [newSlot : BOOLEAN, count : Nat]

NewRateLimit == [newSlot |-> TRUE, count |-> 0]

NextSlot(r) == [r EXCEPT !.newSlot = TRUE]

(* Faulty: lets one message more through.                                  *)
CanSendOneMore(r, n) == r.newSlot \/ r.count + n <= Rate + 1

(* can_send(n): its answer.                                                *)
CanSend(r, n) == r.newSlot \/ r.count + n <= Rate

(* can_send(n): what it leaves.                                            *)
Counted(r, n) ==
  IF r.newSlot THEN [newSlot |-> FALSE, count |-> n]
  ELSE IF CanSend(r, n) THEN [r EXCEPT !.count = @ + n]
  ELSE r
=============================================================================
