------------------------------ MODULE WorkTodo ------------------------------
(***************************************************************************)
(* The work lists of twsdo (tws_meta.cpp, class HistTodo and its siblings  *)
(* ContractDetailsTodo and OptParamsTodo), as operators on values: what    *)
(* each method makes of the list it is called on.  The module keeps no     *)
(* state of its own, TwsDL does.                                           *)
(*                                                                         *)
(* A historical-data job is a number, its position in the work file.  All  *)
(* that the lists look at in a job is the equality of two groups of        *)
(* contract fields: the underlying (symbol, secType, exchange) and the     *)
(* series (currency, multiplier, localSymbol, and whatToShow with BID and  *)
(* ASK taken as one).  Both are constants here.                            *)
(***************************************************************************)
EXTENDS Integers, Sequences

CONSTANTS
  NHist,       (* Number of historical-data jobs in the work file.         *)
  Underlying,  (* The underlying of each job.                              *)
  NoUnderlying,(* Underlying of a contract that leaves a field of it empty.*)
  Series,      (* The series of each job.                                  *)
  NoJob        (* checkedOutRequest == NULL.                               *)

HistJobs == 1..NHist

ASSUME NHistAssumption == NHist \in Nat
ASSUME NoJobAssumption == NoJob \notin HistJobs

(***************************************************************************)
(* Sequences.                                                              *)
(***************************************************************************)

Elems(s) == {s[i] : i \in DOMAIN s}

Distinct(s) == \A i, j \in DOMAIN s : s[i] = s[j] => i = j

(* s without the elements of the set S: the loops that erase some requests *)
(* of leftRequests while iterating over it.  First-order, unlike SelectSeq,*)
(* so that facts about it can be proved and cited.                         *)
Without(s, S) ==
  LET kept[i \in 0..Len(s)] ==
        IF i = 0 THEN << >>
        ELSE IF s[i] \in S THEN kept[i - 1]
        ELSE Append(kept[i - 1], s[i])
  IN  kept[Len(s)]

(***************************************************************************)
(* HistTodo: the requests left, in order; the one checked out; the ones    *)
(* done and the ones given up.  Nothing reads the order of the last two.   *)
(***************************************************************************)

HistTodoType == [left : Seq(HistJobs), checkedOut : HistJobs \cup {NoJob},
                 done : SUBSET HistJobs, errs : SUBSET HistJobs]

NewHistTodo == [left |-> [i \in HistJobs |-> i], checkedOut |-> NoJob,
                done |-> {}, errs |-> {}]

(* Faulty: the request is looked at but not taken out.                     *)
CheckoutKeep(h, j) == [h EXCEPT !.checkedOut = j]

Checkout(h, j) ==
  [h EXCEPT !.left = Without(h.left, {j}), !.checkedOut = j]

(* Priority 0 repeats the request next, 1 after all others, 2 never.       *)
CancelForRepeat(h, priority) ==
  [h EXCEPT !.checkedOut = NoJob,
            !.left = IF priority = 0 THEN <<h.checkedOut>> \o h.left
                     ELSE IF priority = 1 THEN Append(h.left, h.checkedOut)
                     ELSE h.left,
            !.errs = IF priority = 2 THEN h.errs \cup {h.checkedOut} ELSE h.errs]

TellDone(h) ==
  [h EXCEPT !.checkedOut = NoJob, !.done = h.done \cup {h.checkedOut}]

(* Faulty: the requests erased are not remembered.                         *)
SkipForgotten(h, S) == [h EXCEPT !.left = Without(h.left, S)]

(* All requests left that are in S are given up.                           *)
Skip(h, S) ==
  [h EXCEPT !.left = Without(h.left, S),
            !.errs = h.errs \cup (Elems(h.left) \cap S)]

(* No permission for one contract: give up all with the same underlying.   *)
LikeByPerm(j) ==
  {k \in HistJobs : Underlying[j] # NoUnderlying /\ Underlying[k] = Underlying[j]}

SkipByPerm(h) == Skip(h, LikeByPerm(h.checkedOut))

(* No data for one request: give up all of the same series.                *)
LikeByNodata(j) == {k \in LikeByPerm(j) : Series[k] = Series[j]}

SkipByNodata(h) == Skip(h, LikeByNodata(h.checkedOut))

(***************************************************************************)
(* ContractDetailsTodo and OptParamsTodo: a vector of n requests and the   *)
(* index of the current one, -1 before the first.                          *)
(***************************************************************************)

(* Faulty: one too many, one too few.                                      *)
CountLeftHigh(n, curIndex) == n - curIndex
CountLeftLow(n, curIndex) == n - curIndex - 2

CountLeft(n, curIndex) == n - curIndex - 1

(* repeat() steps back to the request before the current one...            *)
Repeat(curIndex) == curIndex - 1

(* ... and asserts this first.                                             *)
MayRepeat(curIndex) == curIndex > 0
=============================================================================
