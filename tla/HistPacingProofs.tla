-------------------------- MODULE HistPacingProofs --------------------------
(***************************************************************************)
(* No farm gets more requests than the options allow, for all values of    *)
(* the options and all sets of farms and exchanges, although a request is  *)
(* recorded before its farm is known, records are moved and merged, and    *)
(* refused requests are taken back.                                        *)
(*                                                                         *)
(* What a farm got is counted against what is on record.  Of each set of   *)
(* times the global record has at least as many entries as the farm got,   *)
(* and so have the record of the farm and the lazy ones of its exchanges   *)
(* together, wherever merge() moves them.  A farm is left out once one of  *)
(* its exchanges was taken to be elsewhere (misled); that others are taken *)
(* to be at it only adds to its record, and takes away what it added.      *)
(***************************************************************************)
EXTENDS HistPacing, PacingProofs

Types ==
  /\ FarmTypes /\ now \in 0..MaxTime
  /\ open \in Exchanges \cup {NoExchange}
  /\ counted \in BOOLEAN /\ aborted \in BOOLEAN /\ reports \in 0..MaxReports
  /\ misled \subseteq Farms

Records ==
  /\ Good(controlGlobal, now)
  /\ controlHmds \in [Farms -> Record] /\ \A f \in Farms : Good(controlHmds[f], now)
  /\ controlLazy \in [Exchanges -> Record]
  /\ \A e \in Exchanges : Good(controlLazy[e], now)
  /\ sent \in [Farms -> Record] /\ \A f \in Farms : Good(sent[f], now)

Learning == [Exchanges -> Farms \cup {NoFarm}]

(***************************************************************************)
(* The choice of the next request.                                         *)
(***************************************************************************)

LEMMA FirstFacts ==
  ASSUME NEW left \in Seq(Exchanges), NEW f, Of(left, f) # {}
  PROVE  First(left, f) \in Of(left, f)
<1>1. Of(left, f) \in SUBSET Nat
  BY DEF Of
<1>2. \E i \in Of(left, f) : \A j \in Of(left, f) : i <= j
  BY <1>1, LeastNatural
<1>3. QED
  BY <1>2 DEF First

(* A candidate is one of the requests left, and if a farm is ready then    *)
(* the control of the candidate has budget left.                           *)
LEMMA CandidateFacts ==
  ASSUME NEW left \in Lists, NEW i \in Candidates(left)
  PROVE  /\ i \in DOMAIN left /\ left[i] \in Exchanges
         /\ Ready(left) # {} => CountLeft(ControlOf(left[i]), now) > 0
<1>1. left \in Seq(Exchanges) /\ left # << >>
  BY HistAssumption
<1>2. \A k \in DOMAIN left : left[k] \in Exchanges
  BY <1>1
<1>3. CASE Ready(left) = {}
  <2>1. i = 1 /\ 1 \in DOMAIN left
    BY <1>1, <1>3, EmptySeq DEF Candidates
  <2>2. QED
    BY <1>2, <1>3, <2>1
<1>4. CASE Ready(left) # {}
  <2>1. PICK f \in Ready(left) : i = First(left, f)
    BY <1>4 DEF Candidates, Biggest
  <2>2. /\ Of(left, f) # {}
        /\ CountLeft(ControlOf(left[First(left, f)]), now) > 0
    BY <2>1 DEF Ready
  <2>3. i \in Of(left, f)
    BY <1>1, <2>1, <2>2, FirstFacts
  <2>4. QED
    BY <1>2, <2>1, <2>2, <2>3 DEF Of
<1>5. QED
  BY <1>3, <1>4

(***************************************************************************)
(* What is learned of the farms.                                           *)
(***************************************************************************)

(* An exchange is learned to be at the only active farm, or not at all.    *)
LEMMA LearnedFacts ==
  ASSUME FarmTypes, NEW e \in Exchanges
  PROVE  /\ Learned(e) \in Learning
         /\ \/ /\ Learned(e) = hLearn
               /\ hLearn[e] # NoFarm \/ Cardinality(Actives(hStates)) # 1
            \/ \E f \in Farms : /\ hLearn[e] = NoFarm /\ Actives(hStates) = {f}
                                /\ Learned(e) = [hLearn EXCEPT ![e] = f]
<1>1. hLearn \in Learning
  BY DEF FarmTypes, Learning
<1>2. CASE hLearn[e] = NoFarm /\ Cardinality(Actives(hStates)) = 1
  <2>1. IsFiniteSet(Actives(hStates)) /\ Actives(hStates) \subseteq Farms
    BY FarmsAssumption, FS_Subset DEF Actives
  <2>2. PICK f : Actives(hStates) = {f}
    BY <1>2, <2>1, FS_Singleton
  <2>3. f \in Farms /\ (CHOOSE g \in Actives(hStates) : TRUE) = f
    BY <2>1, <2>2
  <2>4. Learned(e) = [hLearn EXCEPT ![e] = f]
    BY <1>2, <2>3 DEF Learned
  <2>5. Learned(e) \in Learning
    BY <1>1, <2>3, <2>4 DEF Learning
  <2>6. QED
    BY <1>2, <2>2, <2>3, <2>4, <2>5
<1>3. CASE ~(hLearn[e] = NoFarm /\ Cardinality(Actives(hStates)) = 1)
  BY <1>1, <1>3 DEF Learned
<1>4. QED
  BY <1>2, <1>3

(* The same for the three ways to learn from an answer.                    *)
LEMMA LearnHmdsTypes ==
  ASSUME FarmTypes, NEW e \in Exchanges, LearnHmds(e), lastNotified' \in BOOLEAN
  PROVE  FarmTypes'
<1>1. hLearn' \in Learning
  BY LearnedFacts DEF LearnHmds, FarmTypes, Learning
<1>2. QED
  BY <1>1 DEF LearnHmds, FarmTypes, Learning

LEMMA FarmTypesStep ==
  ASSUME Types, [Next]_vars
  PROVE  FarmTypes'
<1> USE DEF Types
<1>1. ASSUME UNCHANGED farms PROVE FarmTypes'
  BY <1>1 DEF farms, FarmTypes
<1>2. CASE Tick \/ Timeout
  BY <1>1, <1>2 DEF Tick, Timeout
<1>3. ASSUME NEW left \in Lists, Request(left) PROVE FarmTypes'
  BY <1>1, <1>3 DEF Request
<1>4. CASE Row
  BY <1>4, LearnHmdsTypes DEF Row, Open, FarmTypes
<1>5. CASE Failed
  BY <1>5, LearnHmdsTypes DEF Failed, Open
<1>6. CASE NoPermission
  BY <1>6, LearnHmdsTypes DEF NoPermission, Open
<1>7. CASE NoRoute \/ Violation \/ OtherMessage
  BY <1>7 DEF NoRoute, Violation, OtherMessage, FarmTypes
<1>8. CASE HmdsConnected
  <2>1. open \in Exchanges
    BY <1>8 DEF HmdsConnected, Open
  <2>2. hLearn' \in Learning
    BY <1>8, <2>1
       DEF HmdsConnected, LearnHmdsLastOk, JustOk, Actives, FarmTypes, Learning
  <2>3. QED
    BY <1>8, <2>2 DEF HmdsConnected, LearnHmdsLastOk, FarmTypes, Learning
<1>9. ASSUME NEW f \in Farms, NEW state \in Reported, FarmMessage(f, state) PROVE FarmTypes'
  BY <1>9, FarmsAssumption DEF FarmMessage, Notify, ForgetMemo, FarmTypes, Reported
<1>10. ASSUME NEW f \in MarketFarms, MarketMessage(f) PROVE FarmTypes'
  BY <1>10, FarmsAssumption DEF MarketMessage, NotifyMarket, ForgetMemo, FarmTypes
<1>11. CASE ConnectionClosed
  BY <1>11 DEF ConnectionClosed, SetAllBroken, ForgetMemo, FarmTypes, Reported
<1>12. CASE UNCHANGED vars
  BY <1>1, <1>12 DEF vars
<1>13. QED
  BY <1>2, <1>3, <1>4, <1>5, <1>6, <1>7, <1>8, <1>9, <1>10, <1>11, <1>12 DEF Next

(* Where something is learned, the farms it misleads about are noted.      *)
LEMMA MisledCases ==
  ASSUME [Next]_vars
  PROVE  \/ misled' = misled \cup Mistaken(hLearn')
         \/ /\ misled' = misled
            /\ hLearn' = hLearn \/ hLearn' = [e \in Exchanges |-> NoFarm]
<1>1. CASE Row \/ Failed \/ NoPermission \/ HmdsConnected
  BY <1>1 DEF Row, Failed, NoPermission, HmdsConnected, Mislead
<1>2. CASE Tick \/ NoRoute \/ Violation \/ OtherMessage \/ Timeout \/ UNCHANGED vars
           \/ \E left \in Lists : Request(left)
  BY <1>2 DEF Tick, NoRoute, Violation, OtherMessage, Timeout, Request, vars, farms
<1>3. CASE ConnectionClosed \/ (\E f \in Farms, state \in Reported : FarmMessage(f, state))
           \/ \E f \in MarketFarms : MarketMessage(f)
  BY <1>3 DEF ConnectionClosed, SetAllBroken, FarmMessage, Notify, MarketMessage, NotifyMarket
<1>4. QED
  BY <1>1, <1>2, <1>3 DEF Next

LEMMA TypesStep ==
  ASSUME Types, [Next]_vars
  PROVE  Types'
<1> USE DEF Types
<1>1. FarmTypes'
  BY FarmTypesStep
<1>2. now' \in 0..MaxTime
  BY HistAssumption DEF Next, vars, Tick, Request, Row, Failed, NoRoute, NoPermission, Violation,
     HmdsConnected, OtherMessage, Timeout, FarmMessage, MarketMessage, ConnectionClosed
<1>3. reports' \in 0..MaxReports
  BY HistAssumption DEF Next, vars, Tick, Request, Row, Failed, NoRoute, NoPermission, Violation,
     HmdsConnected, OtherMessage, Timeout, Report, FarmMessage, MarketMessage, ConnectionClosed
<1>4. aborted' \in BOOLEAN
  BY DEF Next, vars, Tick, Request, Row, Failed, NoRoute, NoPermission, Violation,
     HmdsConnected, OtherMessage, Timeout, FarmMessage, MarketMessage, ConnectionClosed
<1>5. open' \in Exchanges \cup {NoExchange} /\ counted' \in BOOLEAN
  <2>1. ASSUME NEW left \in Lists, Request(left)
        PROVE  open' \in Exchanges \cup {NoExchange} /\ counted' \in BOOLEAN
    BY <2>1, CandidateFacts DEF Request
  <2>2. ASSUME NEW f \in Farms, NEW state \in Reported, FarmMessage(f, state)
        PROVE  open' \in Exchanges \cup {NoExchange} /\ counted' \in BOOLEAN
    BY <2>2 DEF FarmMessage
  <2>3. QED
    BY <2>1, <2>2 DEF Next, vars, Tick, Row, Failed, NoRoute, NoPermission, Violation,
       HmdsConnected, OtherMessage, Timeout, Close, MarketMessage, ConnectionClosed
<1>6. misled' \subseteq Farms
  <2>1. ASSUME NEW learned PROVE Mistaken(learned) \subseteq Farms
    BY HistAssumption DEF Mistaken
  <2>2. misled' = misled \/ misled' = misled \cup Mistaken(hLearn')
    BY MisledCases
  <2>3. QED
    BY <2>1, <2>2
<1>7. QED
  BY <1>1, <1>2, <1>3, <1>4, <1>5, <1>6

(***************************************************************************)
(* The memo of the last exchange learned from.                             *)
(***************************************************************************)

(* Learning from the exchange of the memo would change nothing.            *)
Memo ==
  lastLearned # NoExchange
    => hLearn[lastLearned] # NoFarm \/ Cardinality(Actives(hStates)) # 1

LEMMA MemoMeans ==
  ASSUME FarmTypes
  PROVE  Memo <=> MemoSkipsNothing
<1>1. CASE lastLearned = NoExchange
  BY <1>1 DEF Memo, MemoSkipsNothing
<1>2. CASE lastLearned # NoExchange
  <2>1. lastLearned \in Exchanges /\ hLearn \in Learning
    BY <1>2 DEF FarmTypes, Learning
  <2>2. ASSUME Learned(lastLearned) = hLearn PROVE Memo
    <3>1. ASSUME NEW f \in Farms, hLearn[lastLearned] = NoFarm,
                 Learned(lastLearned) = [hLearn EXCEPT ![lastLearned] = f]
          PROVE  FALSE
      <4>1. hLearn[lastLearned] = f
        BY <2>1, <2>2, <3>1 DEF Learning
      <4>2. QED
        BY <3>1, <4>1, FarmsAssumption
    <3>2. QED
      BY <2>1, <3>1, LearnedFacts DEF Memo
  <2>3. ASSUME Memo PROVE Learned(lastLearned) = hLearn
    BY <1>2, <2>3 DEF Memo, Learned
  <2>4. QED
    BY <1>2, <2>2, <2>3 DEF MemoSkipsNothing
<1>3. QED
  BY <1>1, <1>2

LEMMA LearnHmdsMemo ==
  ASSUME FarmTypes, NEW e \in Exchanges, Memo, LearnHmds(e)
  PROVE  Memo'
<1>1. e # NoExchange
  BY FarmsAssumption
<1>2. CASE lastLearned = e
  BY <1>1, <1>2 DEF LearnHmds, Memo
<1>3. CASE lastLearned # e
  <2>1. hLearn' = Learned(e) /\ lastLearned' = e /\ hStates' = hStates
    BY <1>3 DEF LearnHmds
  <2>2. hLearn \in Learning
    BY DEF FarmTypes, Learning
  <2>3. ASSUME NEW f \in Farms, Learned(e) = [hLearn EXCEPT ![e] = f]
        PROVE  hLearn'[e] # NoFarm
    BY <2>1, <2>2, <2>3, FarmsAssumption DEF Learning
  <2>4. hLearn'[e] # NoFarm \/ Cardinality(Actives(hStates)) # 1
    BY <2>1, <2>3, LearnedFacts
  <2>5. QED
    BY <2>1, <2>4 DEF Memo
<1>4. QED
  BY <1>2, <1>3

LEMMA MemoStep ==
  ASSUME Types, Memo, [Next]_vars
  PROVE  Memo'
<1> USE DEF Types
<1>1. ASSUME hStates' = hStates, hLearn' = hLearn, lastLearned' = lastLearned PROVE Memo'
  BY <1>1 DEF Memo
<1>2. ASSUME lastLearned' = NoExchange PROVE Memo'
  BY <1>2 DEF Memo
<1>3. CASE Tick \/ Timeout \/ UNCHANGED vars
  BY <1>1, <1>3 DEF Tick, Timeout, farms, vars
<1>4. ASSUME NEW left \in Lists, Request(left) PROVE Memo'
  BY <1>1, <1>4 DEF Request, farms
<1>5. CASE Row \/ Failed \/ NoPermission
  BY <1>5, LearnHmdsMemo DEF Row, Failed, NoPermission, Open
<1>6. CASE NoRoute \/ Violation \/ OtherMessage
  BY <1>1, <1>6 DEF NoRoute, Violation, OtherMessage
<1>7. CASE HmdsConnected
  <2>1. hStates' = hStates /\ lastLearned' = lastLearned
    BY <1>7 DEF HmdsConnected, LearnHmdsLastOk
  <2>2. CASE hLearn' = hLearn
    BY <1>1, <2>1, <2>2
  <2>3. CASE JustOk /\ hLearn[open] = NoFarm /\ hLearn' = [hLearn EXCEPT ![open] = lastChanged]
    <3>1. lastChanged \in Farms /\ hLearn \in Learning /\ open \in Exchanges
      BY <1>7, <2>3 DEF HmdsConnected, Open, JustOk, Actives, FarmTypes, Learning
    <3>2. \A e \in Exchanges : hLearn[e] # NoFarm => hLearn'[e] # NoFarm
      BY <2>3, <3>1, FarmsAssumption DEF Learning
    <3>3. lastLearned # NoExchange => lastLearned \in Exchanges
      BY DEF FarmTypes
    <3>4. Actives(hStates') = Actives(hStates)
      BY <2>1
    <3>5. QED
      BY <2>1, <3>2, <3>3, <3>4 DEF Memo
  <2>4. QED
    BY <1>7, <2>2, <2>3 DEF HmdsConnected, LearnHmdsLastOk
<1>8. ASSUME NEW f \in Farms, NEW state \in Reported, FarmMessage(f, state) PROVE Memo'
  BY <1>2, <1>8 DEF FarmMessage, Notify, ForgetMemo
<1>9. ASSUME NEW f \in MarketFarms, MarketMessage(f) PROVE Memo'
  BY <1>2, <1>9 DEF MarketMessage, NotifyMarket, ForgetMemo
<1>10. CASE ConnectionClosed
  BY <1>2, <1>10 DEF ConnectionClosed, SetAllBroken, ForgetMemo
<1>11. QED
  BY <1>3, <1>4, <1>5, <1>6, <1>7, <1>8, <1>9, <1>10 DEF Next

(***************************************************************************)
(* What is known of the exchanges of a farm that is not misled about.      *)
(***************************************************************************)

(* The exchanges whose data f has.                                         *)
Here(f) == {e \in Exchanges : TrueFarm[e] = f}

(* None of them is taken to be elsewhere.                                  *)
TrueOf(learned, f) == \A e \in Here(f) : learned[e] \in {NoFarm, f}

Known == \A f \in Farms \ misled : TrueOf(hLearn, f)

LEMMA NotMistaken ==
  ASSUME NEW learned, NEW f, f \notin Mistaken(learned)
  PROVE  TrueOf(learned, f)
BY DEF Mistaken, TrueOf, Here

LEMMA KnownStep ==
  ASSUME Known, [Next]_vars
  PROVE  Known' /\ misled \subseteq misled'
<1>1. CASE misled' = misled \cup Mistaken(hLearn')
  BY <1>1, NotMistaken DEF Known
<1>2. CASE misled' = misled /\ (hLearn' = hLearn \/ hLearn' = [e \in Exchanges |-> NoFarm])
  BY <1>2 DEF Known, TrueOf, Here
<1>3. QED
  BY <1>1, <1>2, MisledCases

(***************************************************************************)
(* The records are in order, wherever they are moved.                      *)
(***************************************************************************)

Operations == {"add", "remove", "violation"}

LEMMA ChangedGood ==
  ASSUME now \in Nat, NEW c, Good(c, now), NEW op \in Operations
  PROVE  Good(Changed(c, op), now)
<1>1. /\ Good(AddRequest(c, now), now)
      /\ Good(RemoveLastRequest(c), now)
      /\ Good(NotifyViolation(c, now), now)
  BY AddGood, RemoveGood, NotifyGood
<1>2. Changed(c, op) \in {AddRequest(c, now), RemoveLastRequest(c), NotifyViolation(c, now)}
  BY DEF Changed, Operations
<1>3. QED
  BY <1>1, <1>2

(* The exchanges that are taken to be at f.                                *)
AtFarm(learned, f) == {e \in Exchanges : learned[e] = f}

(* What is in the record of a farm once the lazy ones are merged into it.  *)
LEMMA SettledFacts ==
  ASSUME Records, NEW learned, NEW f \in Farms
  PROVE  /\ Good(SettledHmds(learned)[f], now)
         /\ \A X : Count(SettledHmds(learned)[f], X)
                     = Count(controlHmds[f], X) + CountAll(controlLazy, AtFarm(learned, f), X)
<1> DEFINE E == {e \in Exchanges : learned[e] = f /\ controlLazy[e] # << >>}
<1>1. SettledHmds(learned)[f] = Merged(controlHmds[f], controlLazy, E)
  BY DEF SettledHmds, FoldSet, MapThenFoldSet, Merged, MergeRuns, MergeStep
<1>2. E \in SUBSET AtFarm(learned, f) /\ AtFarm(learned, f) \in SUBSET Exchanges
  BY DEF AtFarm
<1>3. IsFiniteSet(E)
  BY <1>2, FarmsAssumption, FS_Subset
<1>4. Good(controlHmds[f], now) /\ \A e \in E : Good(controlLazy[e], now)
  BY DEF Records
<1>5. ASSUME NEW X
      PROVE  CountAll(controlLazy, AtFarm(learned, f), X) = CountAll(controlLazy, E, X)
  <2>1. \A e \in AtFarm(learned, f) \ E : controlLazy[e] = << >>
    BY DEF AtFarm
  <2> HIDE DEF E
  <2>2. QED
    BY <1>2, <2>1, CountAllSame
<1> HIDE DEF E
<1>6. /\ Good(Merged(controlHmds[f], controlLazy, E), now)
      /\ \A X : Count(Merged(controlHmds[f], controlLazy, E), X)
                  = Count(controlHmds[f], X) + CountAll(controlLazy, E, X)
  BY <1>3, <1>4, MergedFacts
<1>7. QED
  BY <1>1, <1>5, <1>6

(* The controls hold records in order, with t as the time.                 *)
ControlsGood(global, hmds, lazy, t) ==
  /\ Good(global, t)
  /\ hmds \in [Farms -> Record] /\ \A f \in Farms : Good(hmds[f], t)
  /\ lazy \in [Exchanges -> Record] /\ \A e \in Exchanges : Good(lazy[e], t)

SentGood(got, t) == got \in [Farms -> Record] /\ \A f \in Farms : Good(got[f], t)

LEMMA RecordsSplit ==
  /\ Records <=> /\ ControlsGood(controlGlobal, controlHmds, controlLazy, now)
                 /\ SentGood(sent, now)
  /\ Records' <=> /\ ControlsGood(controlGlobal', controlHmds', controlLazy', now')
                  /\ SentGood(sent', now')
BY DEF Records, ControlsGood, SentGood

LEMMA SettledGood ==
  ASSUME Records, NEW learned
  PROVE  ControlsGood(controlGlobal, SettledHmds(learned), SettledLazy(learned), now)
<1>1. \A f \in Farms : Good(SettledHmds(learned)[f], now) /\ SettledHmds(learned)[f] \in Record
  BY SettledFacts DEF Good
<1>2. SettledHmds(learned) = [f \in Farms |-> SettledHmds(learned)[f]]
  BY DEF SettledHmds, FoldSet, MapThenFoldSet
<1>3. SettledHmds(learned) \in [Farms -> Record]
  BY <1>1, <1>2
<1>4. \A e \in Exchanges : Good(SettledLazy(learned)[e], now) /\ SettledLazy(learned)[e] \in Record
  BY EmptyGood DEF SettledLazy, Records, Good
<1>5. SettledLazy(learned) \in [Exchanges -> Record]
  BY <1>4 DEF SettledLazy
<1>6. QED
  BY <1>1, <1>3, <1>4, <1>5 DEF ControlsGood, Records

LEMMA ApplyGood ==
  ASSUME now \in Nat, Records, NEW learned \in Learning, NEW e \in Exchanges,
         NEW op \in Operations, Apply(op, e, learned)
  PROVE  ControlsGood(controlGlobal', controlHmds', controlLazy', now)
<1> DEFINE hmds == SettledHmds(learned)
           lazy == SettledLazy(learned)
<1>1. ControlsGood(controlGlobal, hmds, lazy, now)
  BY SettledGood
<1> HIDE DEF hmds, lazy
<1>2. Good(controlGlobal', now)
  BY <1>1, ChangedGood DEF Apply, ControlsGood
<1>3. CASE learned[e] = NoFarm
  <2> DEFINE c == Changed(lazy[e], op)
  <2>1. controlLazy' = [lazy EXCEPT ![e] = c] /\ controlHmds' = hmds
    BY <1>3 DEF Apply, hmds, lazy
  <2>2. Good(c, now) /\ c \in Record
    BY <1>1, ChangedGood DEF ControlsGood, Good
  <2> HIDE DEF c
  <2>3. QED
    BY <1>1, <1>2, <2>1, <2>2 DEF ControlsGood
<1>4. CASE learned[e] # NoFarm
  <2> DEFINE f == learned[e]
             c == Changed(hmds[f], op)
  <2>1. controlLazy' = lazy /\ controlHmds' = [hmds EXCEPT ![f] = c]
    BY <1>4 DEF Apply, hmds, lazy
  <2>2. f \in Farms
    BY <1>4 DEF Learning
  <2>3. Good(c, now) /\ c \in Record
    BY <1>1, <2>2, ChangedGood DEF ControlsGood, Good
  <2> HIDE DEF c, f
  <2>4. QED
    BY <1>1, <1>2, <2>1, <2>2, <2>3 DEF ControlsGood
<1>5. QED
  BY <1>3, <1>4

LEMMA ClearControlsGood ==
  ASSUME now \in Nat, Records, NEW states, ClearControls(states)
  PROVE  ControlsGood(controlGlobal', controlHmds', controlLazy', now)
<1>1. ASSUME NEW c, Good(c, now) PROVE Good(Cleared(c), now) /\ Cleared(c) \in Record
  BY <1>1, ClearGood DEF Cleared, Good
<1>2. /\ Good(controlGlobal, now)
      /\ \A f \in Farms : Good(controlHmds[f], now) /\ controlHmds[f] \in Record
      /\ \A e \in Exchanges : Good(controlLazy[e], now) /\ controlLazy[e] \in Record
  BY DEF Records, Good
<1>3. CASE Actives(states) = {}
  <2>1. /\ controlGlobal' = Cleared(controlGlobal)
        /\ controlHmds' = [f \in Farms |-> Cleared(controlHmds[f])]
        /\ controlLazy' = [e \in Exchanges |-> Cleared(controlLazy[e])]
    BY <1>3 DEF ClearControls
  <2>2. QED
    BY <1>1, <1>2, <2>1 DEF ControlsGood
<1>4. CASE Actives(states) # {}
  <2>1. /\ controlHmds' = [f \in Farms |-> IF f \in Inactives(states)
                                           THEN Cleared(controlHmds[f])
                                           ELSE controlHmds[f]]
        /\ controlGlobal' = controlGlobal /\ controlLazy' = controlLazy
    BY <1>4 DEF ClearControls
  <2>2. \A f \in Farms : Good(controlHmds'[f], now) /\ controlHmds'[f] \in Record
    BY <1>1, <1>2, <2>1
  <2>3. controlHmds' \in [Farms -> Record]
    BY <1>1, <1>2, <2>1
  <2>4. QED
    BY <2>1, <2>2, <2>3 DEF ControlsGood, Records
<1>5. QED
  BY <1>3, <1>4

LEMMA SentToGood ==
  ASSUME Records, NEW states, sent' = SentTo(states)
  PROVE  SentGood(sent', now)
<1>1. \A f \in Farms : Good(sent[f], now) /\ sent[f] \in Record
  BY DEF Records, Good
<1>2. Good(<< >>, now) /\ << >> \in Record
  BY EmptyGood DEF Good
<1>3. QED
  BY <1>1, <1>2 DEF SentTo, SentGood

(* One operation on what the farm f got, or none.                          *)
LEMMA SentChangedGood ==
  ASSUME now \in Nat, Records, NEW f \in Farms, NEW op \in Operations, NEW b,
         sent' = [sent EXCEPT ![f] = IF b THEN Changed(sent[f], op) ELSE sent[f]]
  PROVE  SentGood(sent', now)
<1> DEFINE c == IF b THEN Changed(sent[f], op) ELSE sent[f]
<1>1. Good(sent[f], now) /\ sent[f] \in Record
  BY DEF Records, Good
<1>2. Good(c, now) /\ c \in Record
  BY <1>1, ChangedGood DEF Good
<1> HIDE DEF c
<1>3. sent' = [sent EXCEPT ![f] = c]
  BY DEF c
<1>4. QED
  BY <1>2, <1>3 DEF SentGood, Records

LEMMA RecordsStep ==
  ASSUME Types, Records, [Next]_vars
  PROVE  Records'
<1>1. now \in Nat /\ hLearn \in Learning /\ hLearn' \in Learning
  BY FarmTypesStep, HistAssumption DEF Types, FarmTypes, Learning
<1>2. /\ ControlsGood(controlGlobal, controlHmds, controlLazy, now)
      /\ SentGood(sent, now)
  BY RecordsSplit
<1>3. CASE Tick
  <2>1. /\ now' = now + 1 /\ sent' = sent
        /\ controlGlobal' = controlGlobal /\ controlHmds' = controlHmds
        /\ controlLazy' = controlLazy
    BY <1>3 DEF Tick, controls
  <2>2. \A c : Good(c, now) => Good(c, now + 1)
    BY <1>1, LaterGood
  <2>3. QED
    BY <2>1, <2>2 DEF Records
<1>4. ASSUME NEW left \in Lists, Request(left) PROVE Records'
  <2>1. PICK i \in Candidates(left) :
          LET e == left[i]
              f == TrueFarm[e]
          IN  IF Wait(e) > 0
              THEN CheckAdd /\ UNCHANGED <<open, sent, counted>>
              ELSE /\ Apply("add", e, hLearn)
                   /\ open' = e /\ counted' = (hStates[f] = "OK")
                   /\ sent' = [sent EXCEPT ![f] = IF hStates[f] = "OK"
                                                  THEN Changed(@, "add") ELSE @]
    BY <1>4 DEF Request
  <2>2. left[i] \in Exchanges /\ TrueFarm[left[i]] \in Farms /\ now' = now
    BY <1>4, CandidateFacts, HistAssumption DEF Request
  <2>3. CASE CheckAdd /\ sent' = sent
    <3>1. ControlsGood(controlGlobal', controlHmds', controlLazy', now)
      BY <2>3, SettledGood DEF CheckAdd
    <3>2. QED
      BY <1>2, <2>2, <2>3, <3>1, RecordsSplit
  <2>4. CASE Apply("add", left[i], hLearn)
             /\ sent' = [sent EXCEPT ![TrueFarm[left[i]]] =
                           IF hStates[TrueFarm[left[i]]] = "OK"
                           THEN Changed(sent[TrueFarm[left[i]]], "add")
                           ELSE sent[TrueFarm[left[i]]]]
    <3>1. ControlsGood(controlGlobal', controlHmds', controlLazy', now)
      BY <1>1, <2>2, <2>4, ApplyGood DEF Operations
    <3>2. SentGood(sent', now)
      BY <1>1, <2>2, <2>4, SentChangedGood DEF Operations
    <3>3. QED
      BY <2>2, <3>1, <3>2, RecordsSplit
  <2>5. QED
    BY <2>1, <2>3, <2>4
<1>5. ASSUME NEW learned \in Learning, NEW op \in Operations, Open,
             Apply(op, open, learned), now' = now,
             sent' = [sent EXCEPT ![TrueFarm[open]] =
                        IF counted THEN Changed(sent[TrueFarm[open]], op)
                        ELSE sent[TrueFarm[open]]]
      PROVE  Records'
  <2>1. open \in Exchanges /\ TrueFarm[open] \in Farms
    BY <1>5, HistAssumption DEF Open, Types
  <2>2. ControlsGood(controlGlobal', controlHmds', controlLazy', now)
    BY <1>1, <1>5, <2>1, ApplyGood
  <2>3. SentGood(sent', now)
    BY <1>1, <1>5, <2>1, SentChangedGood
  <2>4. QED
    BY <1>5, <2>2, <2>3, RecordsSplit
<1>6. CASE NoRoute \/ NoPermission
  <2>1. /\ Open /\ now' = now
        /\ Apply("remove", open, hLearn) \/ Apply("remove", open, hLearn')
        /\ sent' = [sent EXCEPT ![TrueFarm[open]] =
                      IF counted THEN Changed(sent[TrueFarm[open]], "remove")
                      ELSE sent[TrueFarm[open]]]
    BY <1>6 DEF NoRoute, NoPermission, TakenBack
  <2>2. QED
    BY <1>1, <1>5, <2>1 DEF Operations
<1>7. CASE Violation
  <2>1. /\ Open /\ now' = now /\ Apply("violation", open, hLearn)
        /\ sent' = [sent EXCEPT ![TrueFarm[open]] =
                      IF counted THEN Changed(sent[TrueFarm[open]], "violation")
                      ELSE sent[TrueFarm[open]]]
    BY <1>7 DEF Violation
  <2>2. QED
    BY <1>1, <1>5, <2>1 DEF Operations
<1>8. ASSUME UNCHANGED <<controls, now, sent>> PROVE Records'
  BY <1>8 DEF Records, controls
<1>9. CASE Row \/ Failed \/ HmdsConnected \/ OtherMessage \/ Timeout \/ UNCHANGED vars
  BY <1>8, <1>9 DEF Row, Failed, HmdsConnected, OtherMessage, Timeout, vars
<1>10. ASSUME NEW f \in Farms, NEW state \in Reported, FarmMessage(f, state) PROVE Records'
  <2>1. ControlsGood(controlGlobal', controlHmds', controlLazy', now)
    BY <1>1, <1>10, ClearControlsGood DEF FarmMessage
  <2>2. SentGood(sent', now)
    BY <1>10, SentToGood DEF FarmMessage
  <2>3. QED
    BY <1>10, <2>1, <2>2, RecordsSplit DEF FarmMessage
<1>11. ASSUME NEW f \in MarketFarms, MarketMessage(f) PROVE Records'
  <2>1. ControlsGood(controlGlobal', controlHmds', controlLazy', now)
    BY <1>1, <1>11, ClearControlsGood DEF MarketMessage
  <2>2. QED
    BY <1>2, <1>11, <2>1, RecordsSplit DEF MarketMessage
<1>12. CASE ConnectionClosed
  <2>1. ControlsGood(controlGlobal', controlHmds', controlLazy', now)
    BY <1>1, <1>12, ClearControlsGood DEF ConnectionClosed
  <2>2. SentGood(sent', now)
    BY <1>12, SentToGood DEF ConnectionClosed
  <2>3. QED
    BY <1>12, <2>1, <2>2, RecordsSplit DEF ConnectionClosed
<1>13. QED
  BY <1>3, <1>4, <1>6, <1>7, <1>9, <1>10, <1>11, <1>12 DEF Next

(***************************************************************************)
(* What a farm got against what is on record.                              *)
(***************************************************************************)

(* What is in the record of f and in the lazy ones of the exchanges E, and *)
(* so what is on record for f, other than globally.                        *)
Amount(hmds, lazy, f, E, X) == Count(hmds[f], X) + CountAll(lazy, E, X)

Total(hmds, lazy, f, X) == Amount(hmds, lazy, f, Here(f), X)

(* Of each set of times as much is on record as a farm got.                *)
Covered ==
  \A f \in Farms \ misled : \A X \in SUBSET Nat :
    /\ Count(sent[f], X) <= Count(controlGlobal, X)
    /\ Count(sent[f], X) <= Total(controlHmds, controlLazy, f, X)

(* Without the open request a farm got so much.                            *)
Earlier(f) == IF counted /\ f = TrueFarm[open] THEN RemoveLastRequest(sent[f]) ELSE sent[f]

(* Globally there is one entry more at the latest time, so that the last   *)
(* one may go when the open request is refused.                            *)
MoreGlobally(global, s) ==
  s # << >> =>
    /\ global # << >>
    /\ \A X \in SUBSET Nat : Back(global).time \in X => Count(s, X) < Count(global, X)

(* And for a farm where its exchange e may be taken to be, rightly or not, *)
(* there is one at the latest time T, either in the lazy control of e or,  *)
(* if e is known, in the one of the farm.                                  *)
MoreAt(T, hmds, lazy, learned, e, f, s) ==
  /\ T \in TimesOf(lazy[e]) \/ (learned[e] = f /\ T \in TimesOf(hmds[f]))
  /\ \A t \in TimesOf(hmds[f]) : t <= T
  /\ \A x \in Exchanges : \A t \in TimesOf(lazy[x]) : t <= T
  /\ \A X \in SUBSET Nat :
       T \in X => Count(s, X) < Amount(hmds, lazy, f, Here(f) \cup {e}, X)

MoreLocally(hmds, lazy, learned, e, f, s) ==
  s # << >> /\ learned[e] \in {NoFarm, f}
    => \E T \in Nat : MoreAt(T, hmds, lazy, learned, e, f, s)

Spare ==
  open # NoExchange =>
    \A f \in Farms \ misled :
      /\ MoreGlobally(controlGlobal, Earlier(f))
      /\ MoreLocally(controlHmds, controlLazy, hLearn, open, f, Earlier(f))

(* Only an active farm got anything; a counted request is among it.        *)
Activity ==
  /\ \A f \in Farms : sent[f] # << >> => hStates[f] = "OK"
  /\ counted => open # NoExchange /\ sent[TrueFarm[open]] # << >>
  /\ ~edemoChecked => Actives(hStates) = {}

LEMMA HereFacts ==
  ASSUME NEW f
  PROVE  Here(f) \in SUBSET Exchanges /\ IsFiniteSet(Here(f))
<1>1. Here(f) \in SUBSET Exchanges
  BY DEF Here
<1>2. QED
  BY <1>1, FarmsAssumption, FS_Subset

(* One exchange counts next to the others.                                 *)
LEMMA OneExchangeMore ==
  ASSUME NEW lazy \in [Exchanges -> Record], NEW E \in SUBSET Exchanges, NEW e \in E,
         NEW X
  PROVE  /\ CountAll(lazy, E, X) = CountAll(lazy, E \ {e}, X) + Count(lazy[e], X)
         /\ Count(lazy[e], X) \in Nat
<1>1. IsFiniteSet(E)
  BY FarmsAssumption, FS_Subset
<1>2. \A x \in E : lazy[x] \in Record
  OBVIOUS
<1>3. CountAll(lazy, E, X) = CountAll(lazy, E \ {e}, X) + Count(lazy[e], X)
  BY <1>1, <1>2, CountAllStep
<1>4. Count(lazy[e], X) \in Nat
  BY <1>2, CountFacts
<1>5. QED
  BY <1>3, <1>4

LEMMA MoreExchanges ==
  ASSUME NEW lazy \in [Exchanges -> Record], NEW E \in SUBSET Exchanges, NEW D \in SUBSET E, NEW X
  PROVE  /\ CountAll(lazy, D, X) \in Nat /\ CountAll(lazy, E, X) \in Nat
         /\ CountAll(lazy, D, X) <= CountAll(lazy, E, X)
<1>1. IsFiniteSet(E) /\ IsFiniteSet(D) /\ IsFiniteSet(E \ D)
  BY FarmsAssumption, FS_Subset
<1>2. (\A e \in E : lazy[e] \in Record) /\ (\A e \in D : lazy[e] \in Record)
      /\ \A e \in E \ D : lazy[e] \in Record
  OBVIOUS
<1>3. CountAll(lazy, D, X) \in Nat
  BY <1>1, <1>2, SpreadFinite
<1>4. CountAll(lazy, E \ D, X) \in Nat
  BY <1>1, <1>2, SpreadFinite
<1>5. CountAll(lazy, E, X) = CountAll(lazy, D, X) + CountAll(lazy, E \ D, X)
  BY <1>1, <1>2, CountAllSplit
<1>6. QED
  BY <1>3, <1>4, <1>5

LEMMA AmountType ==
  ASSUME NEW hmds \in [Farms -> Record], NEW lazy \in [Exchanges -> Record],
         NEW f \in Farms, NEW E \in SUBSET Exchanges, NEW X
  PROVE  /\ Count(hmds[f], X) \in Nat /\ CountAll(lazy, E, X) \in Nat
         /\ Amount(hmds, lazy, f, E, X) \in Nat
<1>1. E \in SUBSET E
  OBVIOUS
<1>2. CountAll(lazy, E, X) \in Nat
  BY <1>1, MoreExchanges
<1>3. hmds[f] \in Record
  OBVIOUS
<1>4. Count(hmds[f], X) \in Nat
  BY <1>3, CountFacts
<1>5. QED
  BY <1>2, <1>4 DEF Amount

LEMMA TotalType ==
  ASSUME NEW hmds \in [Farms -> Record], NEW lazy \in [Exchanges -> Record],
         NEW f \in Farms, NEW X
  PROVE  /\ Count(hmds[f], X) \in Nat /\ CountAll(lazy, Here(f), X) \in Nat
         /\ Total(hmds, lazy, f, X) \in Nat
BY AmountType, HereFacts DEF Total

(* checkAdd() moves the entries and loses none, and the farm gets those of *)
(* other exchanges too that are taken to be there.                         *)
LEMMA SettledTotal ==
  ASSUME Records, NEW learned \in Learning, NEW f \in Farms, TrueOf(learned, f),
         NEW E \in SUBSET (Here(f) \cup AtFarm(learned, f)), NEW X
  PROVE  Total(SettledHmds(learned), SettledLazy(learned), f, X)
           >= Amount(controlHmds, controlLazy, f, E, X)
<1> DEFINE A == AtFarm(learned, f)
           W == Here(f) \cup A
<1>1. /\ A \in SUBSET Exchanges /\ W \in SUBSET Exchanges /\ A \in SUBSET W
      /\ W \ A \in SUBSET W /\ W \ A \in SUBSET Here(f)
  BY DEF AtFarm, Here
<1>2. \A e \in W \ A : SettledLazy(learned)[e] = controlLazy[e]
  BY DEF AtFarm, Here, TrueOf, SettledLazy
<1>3. \A e \in Here(f) \ (W \ A) : SettledLazy(learned)[e] = << >>
  BY FarmsAssumption DEF AtFarm, Here, SettledLazy
<1>4. Count(SettledHmds(learned)[f], X) = Count(controlHmds[f], X) + CountAll(controlLazy, A, X)
  BY SettledFacts
<1>5. controlLazy \in [Exchanges -> Record] /\ controlHmds \in [Farms -> Record]
  BY DEF Records
<1> HIDE DEF A, W
<1>6. CountAll(SettledLazy(learned), Here(f), X) = CountAll(controlLazy, W \ A, X)
  BY <1>1, <1>2, <1>3, CountAllSame
<1>7. CountAll(controlLazy, W, X) = CountAll(controlLazy, A, X) + CountAll(controlLazy, W \ A, X)
  <2>1. IsFiniteSet(W) /\ \A e \in W : controlLazy[e] \in Record
    BY <1>1, <1>5, FarmsAssumption, FS_Subset
  <2>2. QED
    BY <1>1, <2>1, CountAllSplit
<1>8. /\ CountAll(controlLazy, A, X) \in Nat /\ CountAll(controlLazy, W, X) \in Nat
  BY <1>1, <1>5, MoreExchanges
<1>9. CountAll(controlLazy, W \ A, X) \in Nat
  BY <1>1, <1>5, MoreExchanges
<1>10. /\ CountAll(controlLazy, E, X) <= CountAll(controlLazy, W, X)
       /\ CountAll(controlLazy, E, X) \in Nat
  BY <1>1, <1>5, MoreExchanges DEF A, W
<1>11. Count(controlHmds[f], X) \in Nat
  BY <1>5, TotalType
<1>12. QED
  BY <1>4, <1>6, <1>7, <1>8, <1>9, <1>10, <1>11 DEF Total, Amount

(* The control that is changed besides the global one.                     *)
Target(learned, e) ==
  IF learned[e] = NoFarm THEN SettledLazy(learned)[e] ELSE SettledHmds(learned)[learned[e]]

(* A change of one lazy control.                                           *)
LEMMA TotalOfLazy ==
  ASSUME NEW hmds, NEW lazy \in [Exchanges -> Record], NEW e \in Exchanges,
         NEW new \in [Exchanges -> Record], \A x \in Exchanges \ {e} : new[x] = lazy[x],
         NEW f \in Farms, NEW X, Count(hmds[f], X) \in Nat
  PROVE  /\ f # TrueFarm[e] => Total(hmds, new, f, X) = Total(hmds, lazy, f, X)
         /\ f = TrueFarm[e] => Total(hmds, new, f, X) + Count(lazy[e], X)
                                 = Total(hmds, lazy, f, X) + Count(new[e], X)
<1>1. CASE f # TrueFarm[e]
  <2>1. \A x \in Here(f) : new[x] = lazy[x]
    BY <1>1 DEF Here
  <2>2. CountAll(new, Here(f), X) = CountAll(lazy, Here(f), X)
    <3>1. Here(f) \in SUBSET Here(f) /\ \A x \in Here(f) \ Here(f) : new[x] = << >>
      OBVIOUS
    <3>2. QED
      BY <2>1, <3>1, CountAllSame
  <2>3. QED
    BY <1>1, <2>2 DEF Total, Amount
<1>2. CASE f = TrueFarm[e]
  <2>1. e \in Here(f)
    BY <1>2 DEF Here
  <2>2. (\A x \in Here(f) : lazy[x] \in Record) /\ \A x \in Here(f) : new[x] \in Record
    BY DEF Here
  <2>3. /\ CountAll(lazy, Here(f), X) = CountAll(lazy, Here(f) \ {e}, X) + Count(lazy[e], X)
        /\ CountAll(lazy, Here(f) \ {e}, X) \in Nat /\ Count(lazy[e], X) \in Nat
    <3>1. IsFiniteSet(Here(f)) /\ \A x \in Here(f) : lazy[x] \in Record
      BY <2>2, HereFacts
    <3>2. QED
      BY <2>1, <3>1, CountAllStep
  <2>4. /\ CountAll(new, Here(f), X) = CountAll(new, Here(f) \ {e}, X) + Count(new[e], X)
        /\ Count(new[e], X) \in Nat
    <3>1. IsFiniteSet(Here(f)) /\ \A x \in Here(f) : new[x] \in Record
      BY <2>2, HereFacts
    <3>2. CountAll(new, Here(f), X) = CountAll(new, Here(f) \ {e}, X) + Count(new[e], X)
      BY <2>1, <3>1, CountAllStep
    <3>3. new[e] \in Record
      BY <2>1, <2>2
    <3>4. Count(new[e], X) \in Nat
      BY <3>3, CountFacts
    <3>5. QED
      BY <3>2, <3>4
  <2>5. CountAll(new, Here(f) \ {e}, X) = CountAll(lazy, Here(f) \ {e}, X)
    <3> DEFINE D == Here(f) \ {e}
    <3>1. D \in SUBSET D /\ (\A x \in D \ D : new[x] = << >>) /\ \A x \in D : new[x] = lazy[x]
      BY HereFacts
    <3> HIDE DEF D
    <3>2. CountAll(new, D, X) = CountAll(lazy, D, X)
      BY <3>1, CountAllSame
    <3>3. QED
      BY <3>2 DEF D
  <2>6. QED
    BY <1>2, <2>3, <2>4, <2>5 DEF Total, Amount
<1>3. QED
  BY <1>1, <1>2

(* A change of one control of a farm.                                      *)
LEMMA TotalOfHmds ==
  ASSUME NEW hmds \in [Farms -> Record], NEW lazy \in [Exchanges -> Record], NEW g \in Farms,
         NEW new \in [Farms -> Record], \A x \in Farms \ {g} : new[x] = hmds[x], NEW f \in Farms, NEW X
  PROVE  /\ f # g => Total(new, lazy, f, X) = Total(hmds, lazy, f, X)
         /\ f = g => Total(new, lazy, f, X) + Count(hmds[g], X)
                       = Total(hmds, lazy, f, X) + Count(new[g], X)
<1>1. Count(new[f], X) \in Nat /\ Count(hmds[f], X) \in Nat /\ CountAll(lazy, Here(f), X) \in Nat
  BY CountFacts, TotalType
<1>2. QED
  BY <1>1 DEF Total, Amount

LEMMA TargetFacts ==
  ASSUME Records, NEW learned \in Learning, NEW e \in Exchanges
  PROVE  Good(Target(learned, e), now) /\ Target(learned, e) \in Record
<1>1. ControlsGood(controlGlobal, SettledHmds(learned), SettledLazy(learned), now)
  BY SettledGood
<1>2. learned[e] # NoFarm => learned[e] \in Farms
  BY DEF Learning
<1>3. QED
  BY <1>1, <1>2 DEF Target, ControlsGood, Good

(* It counts for a farm that is known to have the exchange, else for the   *)
(* one that has it.                                                        *)
Touches(learned, e, f) ==
  IF learned[e] = NoFarm THEN TrueFarm[e] = f ELSE learned[e] = f

Settled(learned, f, X) == Total(SettledHmds(learned), SettledLazy(learned), f, X)

(* What one operation on an exchange changes of the totals.                *)
LEMMA ApplyTotals ==
  ASSUME now \in Nat, Records, NEW learned \in Learning,
         NEW e \in Exchanges, NEW op \in Operations, Apply(op, e, learned),
         NEW f \in Farms, NEW X
  PROVE  LET c == Target(learned, e)
             total == Total(controlHmds', controlLazy', f, X)
         IN  /\ ~Touches(learned, e, f) => total = Settled(learned, f, X)
             /\ Touches(learned, e, f)
                  => total + Count(c, X) = Settled(learned, f, X) + Count(Changed(c, op), X)
             /\ Settled(learned, f, X) \in Nat /\ Count(c, X) \in Nat
             /\ Count(Changed(c, op), X) \in Nat
<1> DEFINE hmds == SettledHmds(learned)
           lazy == SettledLazy(learned)
           g    == learned[e]
           c    == Target(learned, e)
           d    == Changed(c, op)
<1>1. ControlsGood(controlGlobal, hmds, lazy, now)
  BY SettledGood
<1>2. Settled(learned, f, X) = Total(hmds, lazy, f, X)
  BY DEF Settled
<1>3. g \in Farms \cup {NoFarm} /\ NoFarm \notin Farms
  BY FarmsAssumption DEF Learning
<1>4. c \in Record /\ d \in Record
  BY TargetFacts, ChangedGood DEF Good
<1>5. hmds \in [Farms -> Record] /\ lazy \in [Exchanges -> Record]
  BY <1>1 DEF ControlsGood
<1>6. Settled(learned, f, X) \in Nat /\ Count(c, X) \in Nat /\ Count(d, X) \in Nat
  <2> HIDE DEF hmds, lazy, c, d
  <2>1. Count(c, X) \in Nat /\ Count(d, X) \in Nat
    BY <1>4, CountFacts
  <2>2. Total(hmds, lazy, f, X) \in Nat
    BY <1>5, TotalType
  <2>3. QED
    BY <1>2, <2>1, <2>2
<1>7. CASE g = NoFarm
  <2>1. /\ controlLazy' = [lazy EXCEPT ![e] = d] /\ controlHmds' = hmds /\ c = lazy[e]
        /\ Touches(learned, e, f) <=> f = TrueFarm[e]
    BY <1>7 DEF Apply, Target, Touches
  <2> HIDE DEF hmds, lazy, g, c, d
  <2>2. Count(hmds[f], X) \in Nat
    BY <1>5, TotalType
  <2> DEFINE new == [lazy EXCEPT ![e] = d]
  <2>3. /\ new \in [Exchanges -> Record] /\ new[e] = d
        /\ \A x \in Exchanges \ {e} : new[x] = lazy[x]
    BY <1>4, <1>5
  <2>4. controlLazy' = new
    BY <2>1
  <2> HIDE DEF new
  <2>5. /\ f # TrueFarm[e] => Total(hmds, new, f, X) = Total(hmds, lazy, f, X)
        /\ f = TrueFarm[e] => Total(hmds, new, f, X) + Count(lazy[e], X)
                                = Total(hmds, lazy, f, X) + Count(new[e], X)
    BY <1>5, <2>2, <2>3, TotalOfLazy
  <2>6. QED
    BY <1>2, <1>6, <2>1, <2>3, <2>4, <2>5 DEF c, d
<1>8. CASE g \in Farms
  <2>1. /\ controlLazy' = lazy /\ controlHmds' = [hmds EXCEPT ![g] = d] /\ c = hmds[g]
        /\ Touches(learned, e, f) <=> f = g
    BY <1>3, <1>8 DEF Apply, Target, Touches
  <2> HIDE DEF hmds, lazy, g, c, d
  <2> DEFINE new == [hmds EXCEPT ![g] = d]
  <2>2. /\ new \in [Farms -> Record] /\ new[g] = d
        /\ \A x \in Farms \ {g} : new[x] = hmds[x]
    BY <1>4, <1>5, <1>8
  <2>3. controlHmds' = new
    BY <2>1
  <2> HIDE DEF new
  <2>4. /\ f # g => Total(new, lazy, f, X) = Total(hmds, lazy, f, X)
        /\ f = g => Total(new, lazy, f, X) + Count(hmds[g], X)
                      = Total(hmds, lazy, f, X) + Count(new[g], X)
    BY <1>5, <1>8, <2>2, TotalOfHmds
  <2>5. QED
    BY <1>2, <1>6, <2>1, <2>2, <2>3, <2>4 DEF c, d
<1>9. QED
  BY <1>3, <1>7, <1>8

(* A known exchange stays where it is.                                     *)
Keeps(learned) ==
  /\ learned \in Learning
  /\ \A e \in Exchanges : hLearn[e] # NoFarm => learned[e] = hLearn[e]

(* The entry that is taken back is the one at the latest time.             *)
LEMMA LatestOfTarget ==
  ASSUME now \in Nat, Records, NEW learned, Keeps(learned), NEW e \in Exchanges,
         NEW f \in Farms, learned[e] \in {NoFarm, f},
         NEW T \in Nat, NEW s, MoreAt(T, controlHmds, controlLazy, hLearn, e, f, s)
  PROVE  Target(learned, e) # << >> /\ Back(Target(learned, e)).time = T
<1> DEFINE c == Target(learned, e)
           A == AtFarm(learned, f)
           lazy == controlLazy
<1>1. f # NoFarm /\ learned \in Learning
  BY FarmsAssumption DEF Keeps
<1>2. Good(c, now) /\ c \in Record
  BY <1>1, TargetFacts
<1>3. /\ T \in TimesOf(lazy[e]) \/ (hLearn[e] = f /\ T \in TimesOf(controlHmds[f]))
      /\ \A t \in TimesOf(controlHmds[f]) : t <= T
      /\ \A x \in Exchanges : \A t \in TimesOf(lazy[x]) : t <= T
  BY DEF MoreAt
<1>4. lazy[e] \in Record /\ controlHmds[f] \in Record /\ lazy \in [Exchanges -> Record]
  BY DEF Records
<1>5. ASSUME NEW X, learned[e] = f
      PROVE  /\ Count(c, X) = Count(controlHmds[f], X) + CountAll(lazy, A, X)
             /\ e \in A /\ A \in SUBSET Exchanges
  <2>1. c = SettledHmds(learned)[f]
    BY <1>1, <1>5 DEF Target
  <2>2. QED
    BY <1>5, <2>1, SettledFacts DEF AtFarm
<1> HIDE DEF c, A, lazy
<1>6. T \in TimesOf(c) /\ \A t \in TimesOf(c) : t <= T
  <2>1. CASE learned[e] = NoFarm
    <3>1. c = lazy[e] /\ hLearn[e] # f
      BY <1>1, <2>1 DEF c, lazy, Keeps, Target, SettledLazy
    <3>2. QED
      BY <1>3, <3>1
  <2>2. CASE learned[e] = f
    <3>1. \A X : Count(c, X) = Count(controlHmds[f], X) + CountAll(lazy, A, X)
      BY <1>5, <2>2
    <3>2. e \in A /\ A \in SUBSET Exchanges
      BY <1>5, <2>2
    <3>3. IsFiniteSet(A) /\ \A x \in A : lazy[x] \in Record
      BY <1>4, <3>2, FarmsAssumption, FS_Subset
    <3>4. /\ CountAll(lazy, A, {T}) = CountAll(lazy, A \ {e}, {T}) + Count(lazy[e], {T})
          /\ CountAll(lazy, A \ {e}, {T}) \in Nat /\ Count(lazy[e], {T}) \in Nat
      BY <3>2, <3>3, CountAllStep
    <3>5. /\ T \in TimesOf(lazy[e]) => Count(lazy[e], {T}) > 0
          /\ T \in TimesOf(controlHmds[f]) => Count(controlHmds[f], {T}) > 0
          /\ Count(controlHmds[f], {T}) \in Nat
      BY <1>4, CountOne, CountFacts DEF TimesOf
    <3>6. Count(c, {T}) > 0
      BY <1>3, <3>1, <3>4, <3>5
    <3>7. ASSUME NEW t \in TimesOf(c), ~(t <= T) PROVE FALSE
      <4>1. \A i \in DOMAIN controlHmds[f] : controlHmds[f][i].time \notin {t}
        BY <1>3, <3>7 DEF TimesOf
      <4>2. \A x \in A : \A i \in DOMAIN lazy[x] : lazy[x][i].time \notin {t}
        BY <1>3, <3>2, <3>7 DEF TimesOf
      <4>3. Count(controlHmds[f], {t}) = 0 /\ CountAll(lazy, A, {t}) = 0
        BY <1>4, <4>1, <4>2, CountFacts, CountAllNone
      <4>4. Count(c, {t}) = 0
        BY <3>1, <4>3
      <4>5. Count(c, {t}) > 0
        BY <1>2, <3>7, CountOne DEF TimesOf
      <4>6. QED
        BY <4>4, <4>5
    <3>8. QED
      BY <1>2, <3>6, <3>7, CountOne DEF TimesOf
  <2>3. QED
    BY <2>1, <2>2
<1>7. PICK i \in DOMAIN c : c[i].time = T
  BY <1>6 DEF TimesOf
<1>8. c # << >> /\ i \in 1..Len(c)
  BY <1>2, <1>7, RecordFacts
<1>9. Back(c).time \in Nat /\ T <= Back(c).time /\ Len(c) \in DOMAIN c /\ Back(c) = c[Len(c)]
  BY <1>2, <1>7, <1>8, BackFacts DEF Good
<1>10. Back(c).time <= T
  BY <1>6, <1>9 DEF TimesOf
<1>11. QED
  BY <1>8, <1>9, <1>10 DEF c

LEMMA EarlierFacts ==
  ASSUME Records, NEW f \in Farms
  PROVE  /\ sent[f] \in Record /\ Earlier(f) \in Record
         /\ \A X : /\ Count(Earlier(f), X) \in Nat /\ Count(sent[f], X) \in Nat
                   /\ Count(Earlier(f), X) <= Count(sent[f], X)
<1> DEFINE c == sent[f]
           d == RemoveLastRequest(c)
<1>1. c \in Record
  BY DEF Records
<1>2. d \in Record
  BY <1>1, RemoveFacts
<1>3. Earlier(f) \in {c, d}
  BY DEF Earlier
<1>4. c = << >> => d = c
  BY DEF RemoveLastRequest
<1> HIDE DEF c, d
<1>5. \A X : Count(c, X) \in Nat /\ Count(d, X) \in Nat
  BY <1>1, <1>2, CountFacts
<1>6. ASSUME NEW X PROVE Count(d, X) <= Count(c, X)
  <2>1. CASE c = << >>
    BY <1>4, <1>5, <2>1
  <2>2. CASE c # << >>
    BY <1>1, <1>5, <2>2, CountRemove DEF d
  <2>3. QED
    BY <2>1, <2>2
<1>7. QED
  BY <1>1, <1>2, <1>3, <1>5, <1>6 DEF c

(* What the two sides of Covered are after an operation.                   *)
LEMMA AfterTypes ==
  ASSUME now \in Nat, Records, NEW learned \in Learning, NEW e \in Exchanges,
         NEW op \in Operations, Apply(op, e, learned), NEW f \in Farms, NEW X
  PROVE  /\ Count(controlGlobal, X) \in Nat /\ Count(controlGlobal', X) \in Nat
         /\ Total(controlHmds, controlLazy, f, X) \in Nat
         /\ Total(controlHmds', controlLazy', f, X) \in Nat
<1>1. ControlsGood(controlGlobal', controlHmds', controlLazy', now)
  BY ApplyGood
<1>2. controlGlobal \in Record /\ controlGlobal' \in Record
  BY <1>1 DEF ControlsGood, Good, Records
<1>3. ASSUME NEW c \in Record PROVE Count(c, X) \in Nat
  BY <1>3, CountFacts
<1>4. ASSUME NEW hmds \in [Farms -> Record], NEW lazy \in [Exchanges -> Record]
      PROVE  Total(hmds, lazy, f, X) \in Nat
  BY <1>4, TotalType
<1>5. QED
  BY <1>1, <1>2, <1>3, <1>4 DEF ControlsGood, Records

(* A refused request is taken back from both sides.                        *)
LEMMA RemovalCovered ==
  ASSUME now \in Nat, Records, Covered, Spare, open \in Exchanges, misled \subseteq misled',
         NEW learned, Keeps(learned), \A f \in Farms \ misled' : TrueOf(learned, f),
         Apply("remove", open, learned), sent' = [f \in Farms |-> Earlier(f)]
  PROVE  Covered'
<1> DEFINE c == Target(learned, open)
<1>1. open # NoExchange /\ "remove" \in Operations /\ learned \in Learning
  BY FarmsAssumption DEF Operations, Keeps
<1>2. SUFFICES ASSUME NEW f \in Farms, f \notin misled', NEW X \in SUBSET Nat
      PROVE  /\ Count(Earlier(f), X) <= Count(controlGlobal', X)
             /\ Count(Earlier(f), X) <= Total(controlHmds', controlLazy', f, X)
  BY DEF Covered
<1>3. f \in Farms \ misled /\ TrueOf(learned, f)
  BY <1>2
<1>4. /\ Count(controlGlobal, X) \in Nat /\ Count(controlGlobal', X) \in Nat
      /\ Total(controlHmds, controlLazy, f, X) \in Nat
      /\ Total(controlHmds', controlLazy', f, X) \in Nat
  BY <1>1, AfterTypes
<1>5. /\ Count(Earlier(f), X) \in Nat
      /\ Count(Earlier(f), X) <= Count(controlGlobal, X)
      /\ Count(Earlier(f), X) <= Total(controlHmds, controlLazy, f, X)
  <2>1. /\ Count(sent[f], X) <= Count(controlGlobal, X)
        /\ Count(sent[f], X) <= Total(controlHmds, controlLazy, f, X)
    BY <1>3 DEF Covered
  <2>2. /\ Count(Earlier(f), X) \in Nat /\ Count(sent[f], X) \in Nat
        /\ Count(Earlier(f), X) <= Count(sent[f], X)
    BY EarlierFacts
  <2>3. QED
    BY <1>4, <2>1, <2>2
<1>6. CASE Earlier(f) = << >>
  BY <1>4, <1>6, CountEmpty
<1>7. CASE Earlier(f) # << >>
  <2>1. /\ controlGlobal # << >>
        /\ Back(controlGlobal).time \in X => Count(Earlier(f), X) < Count(controlGlobal, X)
    BY <1>1, <1>3, <1>7 DEF Spare, MoreGlobally
  <2>2. controlGlobal' = RemoveLastRequest(controlGlobal) /\ controlGlobal \in Record
    BY DEF Apply, Changed, Records, Good
  <2>3. Count(controlGlobal', X)
          = Count(controlGlobal, X) - (IF Back(controlGlobal).time \in X THEN 1 ELSE 0)
    BY <2>1, <2>2, CountRemove
  <2>4. Count(Earlier(f), X) <= Count(controlGlobal', X)
    BY <1>4, <1>5, <2>1, <2>3
  <2>5. CASE ~Touches(learned, open, f)
    <3>1. Settled(learned, f, X) >= Total(controlHmds, controlLazy, f, X)
      BY <1>1, <1>3, SettledTotal DEF Settled, Total
    <3>2. /\ Total(controlHmds', controlLazy', f, X) = Settled(learned, f, X)
          /\ Settled(learned, f, X) \in Nat
      BY <1>1, <2>5, ApplyTotals
    <3>3. QED
      BY <1>4, <1>5, <2>4, <3>1, <3>2
  <2>6. CASE Touches(learned, open, f)
    <3> DEFINE E == Here(f) \cup {open}
    <3>1. /\ learned[open] \in {NoFarm, f} /\ hLearn[open] \in {NoFarm, f}
          /\ E \in SUBSET (Here(f) \cup AtFarm(learned, f))
      BY <2>6 DEF Touches, Keeps, Here, AtFarm
    <3>2. PICK T \in Nat : MoreAt(T, controlHmds, controlLazy, hLearn, open, f, Earlier(f))
      BY <1>1, <1>3, <1>7, <3>1 DEF Spare, MoreLocally
    <3>3. c # << >> /\ Back(c).time = T
      BY <1>1, <3>1, <3>2, LatestOfTarget
    <3>4. c \in Record /\ Changed(c, "remove") = RemoveLastRequest(c)
      BY <1>1, TargetFacts DEF Changed
    <3>5. Settled(learned, f, X) >= Amount(controlHmds, controlLazy, f, E, X)
      BY <1>1, <1>3, <3>1, SettledTotal DEF Settled
    <3>6. /\ Settled(learned, f, X) >= Total(controlHmds, controlLazy, f, X)
          /\ Amount(controlHmds, controlLazy, f, E, X) \in Nat
      <4>1. E \in SUBSET Exchanges
        BY HereFacts
      <4>2. Amount(controlHmds, controlLazy, f, E, X) \in Nat
        BY <4>1, AmountType DEF Records
      <4>3. QED
        BY <1>1, <1>3, <4>2, SettledTotal DEF Settled, Total
    <3>7. T \in X => Count(Earlier(f), X) < Amount(controlHmds, controlLazy, f, E, X)
      BY <3>2 DEF MoreAt
    <3>8. /\ Total(controlHmds', controlLazy', f, X) + Count(c, X)
               = Settled(learned, f, X) + Count(RemoveLastRequest(c), X)
          /\ Settled(learned, f, X) \in Nat
      BY <1>1, <2>6, <3>4, ApplyTotals
    <3> HIDE DEF c, E
    <3>9. /\ Count(RemoveLastRequest(c), X) = Count(c, X) - (IF T \in X THEN 1 ELSE 0)
          /\ Count(c, X) \in Nat
      BY <3>3, <3>4, CountRemove, CountFacts
    <3>10. QED
      BY <1>4, <1>5, <2>4, <3>5, <3>6, <3>7, <3>8, <3>9
  <2>7. QED
    BY <2>5, <2>6
<1>8. QED
  BY <1>6, <1>7

(* A violation only adds to the controls; what the farm got stays.         *)
LEMMA ViolationCovered ==
  ASSUME now \in Nat, Records, Covered, Known, misled' = misled,
         hLearn \in Learning, open \in Exchanges,
         counted => sent[TrueFarm[open]] # << >>, Apply("violation", open, hLearn),
         sent' = [sent EXCEPT ![TrueFarm[open]] =
                    IF counted THEN Changed(sent[TrueFarm[open]], "violation")
                    ELSE sent[TrueFarm[open]]]
  PROVE  Covered'
<1> DEFINE F == TrueFarm[open]
           c == Target(hLearn, open)
           d == Changed(c, "violation")
<1>1. F \in Farms /\ "violation" \in Operations
  BY HistAssumption DEF Operations
<1>2. SUFFICES ASSUME NEW f \in Farms, f \notin misled, NEW X \in SUBSET Nat
      PROVE  /\ Count(sent'[f], X) <= Count(controlGlobal', X)
             /\ Count(sent'[f], X) <= Total(controlHmds', controlLazy', f, X)
  BY DEF Covered
<1>3. /\ Count(controlGlobal, X) \in Nat /\ Count(controlGlobal', X) \in Nat
      /\ Total(controlHmds, controlLazy, f, X) \in Nat
      /\ Total(controlHmds', controlLazy', f, X) \in Nat
  BY <1>1, AfterTypes
<1>4. /\ Count(sent[f], X) <= Count(controlGlobal, X)
      /\ Count(sent[f], X) <= Total(controlHmds, controlLazy, f, X)
      /\ Count(sent[f], X) \in Nat /\ sent[f] \in Record
  BY <1>2, EarlierFacts DEF Covered
<1>5. Count(sent'[f], X) = Count(sent[f], X)
  <2>1. CASE f = F /\ counted
    <3>1. sent'[f] = NotifyViolation(sent[f], now) /\ sent[f] # << >>
      BY <2>1 DEF Changed, Records
    <3>2. QED
      BY <1>4, <3>1, CountNotify
  <2>2. CASE ~(f = F /\ counted)
    <3>1. sent'[f] = sent[f]
      BY <2>2 DEF Records
    <3>2. QED
      BY <3>1
  <2>3. QED
    BY <2>1, <2>2
<1>6. Count(controlGlobal', X) >= Count(controlGlobal, X)
  <2>1. controlGlobal' = NotifyViolation(controlGlobal, now) /\ controlGlobal \in Record
    BY DEF Apply, Changed, Records, Good
  <2>2. QED
    BY <2>1, CountNotify
<1>7. Total(controlHmds', controlLazy', f, X) >= Total(controlHmds, controlLazy, f, X)
  <2>1. TrueOf(hLearn, f)
    BY <1>2 DEF Known
  <2>2. Settled(hLearn, f, X) >= Total(controlHmds, controlLazy, f, X)
    BY <2>1, SettledTotal DEF Settled, Total
  <2>3. c \in Record
    BY TargetFacts
  <2>4. Count(d, X) >= Count(c, X)
    <3>1. d = NotifyViolation(c, now)
      BY DEF Changed
    <3> HIDE DEF c, d
    <3>2. QED
      BY <2>3, <3>1, CountNotify
  <2>5. /\ \/ Total(controlHmds', controlLazy', f, X) = Settled(hLearn, f, X)
           \/ Total(controlHmds', controlLazy', f, X) + Count(c, X)
                = Settled(hLearn, f, X) + Count(d, X)
        /\ Settled(hLearn, f, X) \in Nat /\ Count(c, X) \in Nat /\ Count(d, X) \in Nat
    BY <1>1, ApplyTotals
  <2> HIDE DEF c, d
  <2>6. QED
    BY <1>3, <2>2, <2>4, <2>5
<1>8. QED
  BY <1>3, <1>4, <1>5, <1>6, <1>7

LEMMA AddBack ==
  ASSUME NEW c \in Record, NEW t \in Nat
  PROVE  /\ AddRequest(c, t) \in Record /\ AddRequest(c, t) # << >>
         /\ Back(AddRequest(c, t)).time = t /\ t \in TimesOf(AddRequest(c, t))
         /\ \A X : Count(RemoveLastRequest(AddRequest(c, t)), X) = Count(c, X)
<1> DEFINE d == AddRequest(c, t)
<1>1. /\ d \in Record /\ Len(d) = Len(c) + 1 /\ DOMAIN d = 1 .. Len(c) + 1
      /\ d[Len(c) + 1].time = t
  BY AddFacts
<1>2. Len(c) \in Nat
  BY RecordFacts
<1>3. \A X : Count(d, X) = Count(c, X) + (IF t \in X THEN 1 ELSE 0)
  BY CountAdd
<1>4. \A X : Count(c, X) \in Nat
  BY CountFacts
<1> HIDE DEF d
<1>5. Len(c) + 1 \in DOMAIN d /\ d # << >>
  BY <1>1, <1>2, RecordFacts
<1>6. Back(d).time = t /\ t \in TimesOf(d)
  BY <1>1, <1>5 DEF Back, TimesOf
<1>7. ASSUME NEW X PROVE Count(RemoveLastRequest(d), X) = Count(c, X)
  <2>1. Count(RemoveLastRequest(d), X) = Count(d, X) - (IF t \in X THEN 1 ELSE 0)
    BY <1>1, <1>5, <1>6, CountRemove
  <2>2. QED
    BY <1>3, <1>4, <2>1
<1>8. QED
  BY <1>1, <1>5, <1>6, <1>7 DEF d

(* A request is recorded on both sides, or with the controls only.         *)
Sending(e) ==
  /\ Apply("add", e, hLearn)
  /\ open' = e /\ counted' = (hStates[TrueFarm[e]] = "OK")
  /\ sent' = [sent EXCEPT ![TrueFarm[e]] =
                IF hStates[TrueFarm[e]] = "OK" THEN Changed(sent[TrueFarm[e]], "add")
                ELSE sent[TrueFarm[e]]]

LEMMA AddedCounts ==
  ASSUME now \in Nat, Records, Covered, Known, hLearn \in Learning,
         NEW e \in Exchanges, Sending(e), NEW f \in Farms, f \notin misled,
         NEW X \in SUBSET Nat
  PROVE  LET one == IF now \in X THEN 1 ELSE 0
         IN  /\ Count(sent[f], X) \in Nat /\ Count(controlGlobal', X) \in Nat
             /\ Total(controlHmds', controlLazy', f, X) \in Nat
             /\ Count(sent'[f], X)
                  = Count(sent[f], X) + (IF f = TrueFarm[e] /\ counted' THEN one ELSE 0)
             /\ Count(sent[f], X) + one <= Count(controlGlobal', X)
             /\ Count(sent[f], X) + (IF Touches(hLearn, e, f) THEN one ELSE 0)
                  <= Total(controlHmds', controlLazy', f, X)
             /\ f = TrueFarm[e] => Touches(hLearn, e, f)
<1> DEFINE one == IF now \in X THEN 1 ELSE 0
           F == TrueFarm[e]
           c == Target(hLearn, e)
           d == Changed(c, "add")
<1>1. F \in Farms /\ "add" \in Operations /\ TrueOf(hLearn, f) /\ Apply("add", e, hLearn)
  BY HistAssumption DEF Operations, Known, Sending
<1>2. /\ Count(controlGlobal, X) \in Nat /\ Count(controlGlobal', X) \in Nat
      /\ Total(controlHmds, controlLazy, f, X) \in Nat
      /\ Total(controlHmds', controlLazy', f, X) \in Nat
  BY <1>1, AfterTypes
<1>3. /\ Count(sent[f], X) <= Count(controlGlobal, X)
      /\ Count(sent[f], X) <= Total(controlHmds, controlLazy, f, X)
      /\ Count(sent[f], X) \in Nat /\ sent[f] \in Record
  BY EarlierFacts DEF Covered
<1>4. Count(sent'[f], X) = Count(sent[f], X) + (IF f = F /\ counted' THEN one ELSE 0)
  <2>1. CASE f = F /\ counted'
    <3>1. sent'[f] = AddRequest(sent[f], now)
      BY <2>1 DEF Changed, Records, Sending
    <3>2. QED
      BY <1>3, <2>1, <3>1, CountAdd
  <2>2. CASE ~(f = F /\ counted')
    <3>1. sent'[f] = sent[f]
      BY <2>2 DEF Records, Sending
    <3>2. QED
      BY <1>3, <2>2, <3>1
  <2>3. QED
    BY <2>1, <2>2
<1>5. Count(controlGlobal', X) = Count(controlGlobal, X) + one
  <2>1. controlGlobal' = AddRequest(controlGlobal, now) /\ controlGlobal \in Record
    BY <1>1 DEF Apply, Changed, Records, Good
  <2>2. QED
    BY <2>1, CountAdd
<1>6. Settled(hLearn, f, X) >= Total(controlHmds, controlLazy, f, X)
  BY <1>1, SettledTotal DEF Settled, Total
<1>7. /\ Total(controlHmds', controlLazy', f, X)
           = Settled(hLearn, f, X) + (IF Touches(hLearn, e, f) THEN one ELSE 0)
      /\ Settled(hLearn, f, X) \in Nat
  <2>1. c \in Record /\ d = AddRequest(c, now)
    BY TargetFacts DEF Changed
  <2>2. /\ ~Touches(hLearn, e, f)
             => Total(controlHmds', controlLazy', f, X) = Settled(hLearn, f, X)
        /\ Touches(hLearn, e, f)
             => Total(controlHmds', controlLazy', f, X) + Count(c, X)
                  = Settled(hLearn, f, X) + Count(d, X)
        /\ Settled(hLearn, f, X) \in Nat
    BY <1>1, ApplyTotals
  <2> HIDE DEF c, d
  <2>3. Count(d, X) = Count(c, X) + one /\ Count(c, X) \in Nat
    BY <2>1, CountAdd, CountFacts
  <2>4. QED
    BY <1>2, <2>2, <2>3
<1>8. f = F => Touches(hLearn, e, f)
  BY <1>1 DEF TrueOf, Here, Touches
<1> HIDE DEF F, c, d
<1>9. one \in 0..1
  OBVIOUS
<1> HIDE DEF one
<1>10. QED
  BY <1>2, <1>3, <1>4, <1>5, <1>6, <1>7, <1>8, <1>9 DEF F, one

(* The entry that was added is the one that may go again.                  *)
LEMMA AddedSpare ==
  ASSUME now \in Nat, Records, Records', now' = now, Covered, Known, hLearn \in Learning,
         hLearn' = hLearn, misled' = misled, NEW e \in Exchanges, Sending(e)
  PROVE  Spare'
<1> DEFINE F == TrueFarm[e]
<1>1. F \in Farms /\ NoFarm \notin Farms
  BY HistAssumption, FarmsAssumption
<1>2. ASSUME NEW f \in Farms, NEW X \in SUBSET Nat
      PROVE  Count(Earlier(f)', X) = Count(sent[f], X)
  <2>1. sent[f] \in Record
    BY DEF Records
  <2>2. CASE f = F /\ counted'
    <3>1. Earlier(f)' = RemoveLastRequest(AddRequest(sent[f], now))
      BY <2>2 DEF Earlier, Sending, Changed, Records
    <3>2. QED
      BY <2>1, <3>1, AddBack
  <2>3. CASE ~(f = F /\ counted')
    <3>1. Earlier(f)' = sent[f]
      BY <2>3 DEF Earlier, Sending, Records
    <3>2. QED
      BY <3>1
  <2>4. QED
    BY <2>2, <2>3
<1>3. ASSUME NEW f \in Farms, f \notin misled PROVE MoreGlobally(controlGlobal', Earlier(f)')
  <2>1. controlGlobal' = AddRequest(controlGlobal, now) /\ controlGlobal \in Record
    BY DEF Sending, Apply, Changed, Records, Good
  <2>2. controlGlobal' # << >> /\ Back(controlGlobal').time = now
    BY <2>1, AddBack
  <2>3. ASSUME NEW X \in SUBSET Nat, now \in X
        PROVE  Count(Earlier(f)', X) < Count(controlGlobal', X)
    <3>1. /\ Count(sent[f], X) \in Nat /\ Count(controlGlobal', X) \in Nat
          /\ Count(sent[f], X) + 1 <= Count(controlGlobal', X)
      BY <1>3, <2>3, AddedCounts
    <3>2. QED
      BY <1>2, <3>1
  <2>4. QED
    BY <2>2, <2>3 DEF MoreGlobally
<1>4. ASSUME NEW f \in Farms, f \notin misled, hLearn[e] \in {NoFarm, f}
      PROVE  MoreAt(now, controlHmds', controlLazy', hLearn, e, f, Earlier(f)')
  <2> DEFINE c == Target(hLearn, e)
             d == Changed(c, "add")
             E == Here(f) \cup {e}
  <2>1. c \in Record /\ d = AddRequest(c, now)
    BY TargetFacts DEF Changed
  <2>2. ControlsGood(controlGlobal, SettledHmds(hLearn), SettledLazy(hLearn), now)
    BY SettledGood
  <2>3. now \in TimesOf(d)
    <3> HIDE DEF c
    <3>1. QED
      BY <2>1, AddBack
  <2>4. /\ hLearn[e] = NoFarm => now \in TimesOf(controlLazy'[e])
        /\ hLearn[e] = f => now \in TimesOf(controlHmds'[f])
    <3>1. CASE hLearn[e] = NoFarm
      <4>1. controlLazy' = [SettledLazy(hLearn) EXCEPT ![e] = d]
        BY <3>1 DEF Sending, Apply, Target
      <4> HIDE DEF d
      <4>2. controlLazy'[e] = d
        BY <2>2, <4>1 DEF ControlsGood
      <4>3. QED
        BY <1>1, <2>3, <3>1, <4>2
    <3>2. CASE hLearn[e] = f
      <4>1. controlHmds' = [SettledHmds(hLearn) EXCEPT ![f] = d]
        BY <1>1, <3>2 DEF Sending, Apply, Target
      <4> HIDE DEF d
      <4>2. controlHmds'[f] = d
        BY <2>2, <4>1 DEF ControlsGood
      <4>3. QED
        BY <1>1, <2>3, <3>2, <4>2
    <3>3. QED
      BY <1>4, <3>1, <3>2
  <2>5. /\ \A t \in TimesOf(controlHmds'[f]) : t <= now
        /\ \A x \in Exchanges : \A t \in TimesOf(controlLazy'[x]) : t <= now
    BY DEF Records, Good, TimesOf
  <2>6. controlHmds' \in [Farms -> Record] /\ controlLazy' \in [Exchanges -> Record]
    BY DEF Records
  <2>7. ASSUME NEW X \in SUBSET Nat, now \in X
        PROVE  Count(Earlier(f)', X) < Amount(controlHmds', controlLazy', f, E, X)
    <3>1. /\ Count(sent[f], X) \in Nat /\ Total(controlHmds', controlLazy', f, X) \in Nat
          /\ Count(sent[f], X) + (IF Touches(hLearn, e, f) THEN 1 ELSE 0)
               <= Total(controlHmds', controlLazy', f, X)
      BY <1>4, <2>7, AddedCounts
    <3>2. /\ Here(f) \in SUBSET E /\ E \in SUBSET Exchanges /\ e \in E
          /\ controlLazy'[e] \in Record
      BY <2>6, HereFacts
    <3>3. /\ CountAll(controlLazy', Here(f), X) <= CountAll(controlLazy', E, X)
          /\ CountAll(controlLazy', Here(f), X) \in Nat /\ CountAll(controlLazy', E, X) \in Nat
          /\ Count(controlHmds'[f], X) \in Nat
      BY <2>6, <3>2, MoreExchanges, TotalType
    <3>4. CASE Touches(hLearn, e, f)
      BY <1>2, <2>7, <3>1, <3>3, <3>4 DEF Total, Amount
    <3>5. CASE ~Touches(hLearn, e, f)
      <4>1. hLearn[e] = NoFarm /\ e \notin Here(f)
        BY <1>1, <1>4, <3>5 DEF Touches, Here
      <4>2. IsFiniteSet(E) /\ (\A x \in E : controlLazy'[x] \in Record) /\ E \ {e} = Here(f)
        BY <2>6, <3>2, <4>1, FarmsAssumption, FS_Subset
      <4>3. /\ CountAll(controlLazy', E, X)
                 = CountAll(controlLazy', E \ {e}, X) + Count(controlLazy'[e], X)
            /\ Count(controlLazy'[e], X) \in Nat
        BY <2>6, <3>2, OneExchangeMore
      <4>4. Count(controlLazy'[e], X) # 0
        <5>1. PICK i \in DOMAIN controlLazy'[e] : controlLazy'[e][i].time = now
          BY <2>4, <4>1 DEF TimesOf
        <5>2. QED
          BY <2>7, <3>2, <5>1, CountFacts
      <4>5. CountAll(controlLazy', E, X) = CountAll(controlLazy', Here(f), X) + Count(controlLazy'[e], X)
        BY <4>2, <4>3
      <4> HIDE DEF E
      <4>6. QED
        BY <1>2, <2>7, <3>1, <3>3, <3>5, <4>3, <4>4, <4>5 DEF Total, Amount
    <3>6. QED
      BY <3>4, <3>5
  <2>8. QED
    BY <1>4, <2>4, <2>5, <2>7 DEF MoreAt
<1>5. open' = e
  BY DEF Sending
<1>6. QED
  BY <1>3, <1>4, <1>5 DEF Spare, MoreLocally

(* While a farm is active, clear() leaves all its records.                 *)
LEMMA ActiveKept ==
  ASSUME Records, NEW states, ClearControls(states), NEW f \in Farms, states[f] = "OK"
  PROVE  /\ controlGlobal' = controlGlobal /\ controlLazy' = controlLazy
         /\ controlHmds'[f] = controlHmds[f]
<1>1. Actives(states) # {} /\ f \notin Inactives(states)
  BY DEF Actives, Inactives
<1>2. QED
  BY <1>1 DEF ClearControls

LEMMA ReportCovered ==
  ASSUME now \in Nat, Records, Covered, NEW states, ClearControls(states),
         sent' = SentTo(states), misled' = misled
  PROVE  Covered'
<1>1. SUFFICES ASSUME NEW f \in Farms, f \notin misled, NEW X \in SUBSET Nat
      PROVE  /\ Count(sent'[f], X) <= Count(controlGlobal', X)
             /\ Count(sent'[f], X) <= Total(controlHmds', controlLazy', f, X)
  BY DEF Covered
<1>2. CASE states[f] = "OK"
  <2>1. sent'[f] = sent[f]
    BY <1>2 DEF SentTo
  <2>2. /\ controlGlobal' = controlGlobal /\ controlLazy' = controlLazy
        /\ controlHmds'[f] = controlHmds[f]
    BY <1>2, ActiveKept
  <2>3. QED
    BY <1>1, <2>1, <2>2 DEF Covered, Total, Amount
<1>3. CASE states[f] # "OK"
  <2>1. Count(sent'[f], X) = 0
    BY <1>3, CountEmpty DEF SentTo
  <2>2. ControlsGood(controlGlobal', controlHmds', controlLazy', now)
    BY ClearControlsGood
  <2>3. Count(controlGlobal', X) \in Nat
    BY <2>2, CountFacts DEF ControlsGood, Good
  <2>4. ASSUME NEW hmds \in [Farms -> Record], NEW lazy \in [Exchanges -> Record]
        PROVE  Total(hmds, lazy, f, X) \in Nat
    BY TotalType
  <2>5. Total(controlHmds', controlLazy', f, X) \in Nat
    BY <2>2, <2>4 DEF ControlsGood
  <2>6. QED
    BY <2>1, <2>3, <2>5
<1>4. QED
  BY <1>2, <1>3

LEMMA ReportSpare ==
  ASSUME Records, Spare, NEW states, ClearControls(states), sent' = SentTo(states),
         misled' = misled, open' = open, open \in Exchanges \cup {NoExchange}, counted \in BOOLEAN,
         open # NoExchange => counted' = (counted /\ states[TrueFarm[open]] = "OK"),
         \A f \in Farms : sent[f] # << >> => hLearn' = hLearn
  PROVE  Spare'
<1>1. SUFFICES ASSUME open # NoExchange, NEW f \in Farms, f \notin misled, Earlier(f)' # << >>
      PROVE  /\ MoreGlobally(controlGlobal', Earlier(f)')
             /\ MoreLocally(controlHmds', controlLazy', hLearn', open, f, Earlier(f)')
  BY DEF Spare, MoreGlobally, MoreLocally
<1>2. states[f] = "OK" /\ sent[f] # << >> /\ Earlier(f)' = Earlier(f)
  <2>1. RemoveLastRequest(<< >>) = << >>
    BY DEF RemoveLastRequest
  <2>2. sent'[f] # << >>
    BY <1>1, <2>1 DEF Earlier
  <2>3. states[f] = "OK" /\ sent'[f] = sent[f]
    BY <2>2 DEF SentTo
  <2>4. f = TrueFarm[open] => counted' = counted
    BY <1>1, <2>3
  <2>5. QED
    BY <2>2, <2>3, <2>4 DEF Earlier
<1>3. /\ controlGlobal' = controlGlobal /\ controlLazy' = controlLazy
      /\ controlHmds'[f] = controlHmds[f] /\ hLearn' = hLearn
  BY <1>2, ActiveKept
<1>4. MoreGlobally(controlGlobal', Earlier(f)')
  BY <1>1, <1>2, <1>3 DEF Spare
<1>5. MoreLocally(controlHmds', controlLazy', hLearn', open, f, Earlier(f)')
  <2>1. SUFFICES ASSUME hLearn[open] \in {NoFarm, f}
        PROVE  \E T \in Nat : MoreAt(T, controlHmds', controlLazy', hLearn', open, f, Earlier(f)')
    BY <1>3 DEF MoreLocally
  <2>2. PICK T \in Nat : MoreAt(T, controlHmds, controlLazy, hLearn, open, f, Earlier(f))
    BY <1>1, <1>2, <2>1 DEF Spare, MoreLocally
  <2>3. \A E, X : Amount(controlHmds', controlLazy', f, E, X)
                    = Amount(controlHmds, controlLazy, f, E, X)
    BY <1>3 DEF Amount
  <2>4. MoreAt(T, controlHmds', controlLazy', hLearn', open, f, Earlier(f)')
    BY <1>2, <1>3, <2>2, <2>3 DEF MoreAt
  <2>5. QED
    BY <2>4
<1>6. QED
  BY <1>4, <1>5

(* What is learned of an exchange stays, unless the table is dropped.      *)
LEMMA LearnHmdsKeeps ==
  ASSUME FarmTypes, NEW e \in Exchanges, LearnHmds(e)
  PROVE  \A x \in Exchanges : hLearn[x] # NoFarm => hLearn'[x] = hLearn[x]
<1>1. hLearn \in Learning
  BY DEF FarmTypes, Learning
<1>2. ASSUME NEW f \in Farms, hLearn[e] = NoFarm, hLearn' = [hLearn EXCEPT ![e] = f]
      PROVE  \A x \in Exchanges : hLearn[x] # NoFarm => hLearn'[x] = hLearn[x]
  BY <1>1, <1>2 DEF Learning
<1>3. QED
  BY <1>2, LearnedFacts DEF LearnHmds

(* As long as nothing else changes, learning spoils nothing.               *)
LEMMA LearnSpare ==
  ASSUME Spare, UNCHANGED <<controls, sent, counted, open>>, misled \subseteq misled',
         open \in Exchanges, hLearn[open] # NoFarm => hLearn'[open] = hLearn[open]
  PROVE  Spare'
<1>1. SUFFICES ASSUME NEW f \in Farms, f \notin misled'
      PROVE  /\ MoreGlobally(controlGlobal, Earlier(f))
             /\ MoreLocally(controlHmds, controlLazy, hLearn', open, f, Earlier(f))
  BY DEF Spare, MoreGlobally, MoreLocally, MoreAt, Earlier, controls
<1>2. open # NoExchange /\ f # NoFarm /\ f \notin misled
  BY <1>1, FarmsAssumption
<1>3. MoreGlobally(controlGlobal, Earlier(f))
  BY <1>2 DEF Spare
<1>4. ASSUME Earlier(f) # << >>, hLearn'[open] \in {NoFarm, f}
      PROVE  \E T \in Nat : MoreAt(T, controlHmds, controlLazy, hLearn', open, f, Earlier(f))
  <2>1. hLearn[open] \in {NoFarm, f}
    BY <1>4
  <2>2. PICK T \in Nat : MoreAt(T, controlHmds, controlLazy, hLearn, open, f, Earlier(f))
    BY <1>2, <1>4, <2>1 DEF Spare, MoreLocally
  <2>3. MoreAt(T, controlHmds, controlLazy, hLearn', open, f, Earlier(f))
    BY <1>2, <2>2 DEF MoreAt
  <2>4. QED
    BY <2>3
<1>5. QED
  BY <1>3, <1>4 DEF MoreLocally

LEMMA RequestCases ==
  ASSUME NEW left \in Lists, Request(left)
  PROVE  /\ open = NoExchange /\ UNCHANGED <<farms, now>>
         /\ \/ CheckAdd /\ UNCHANGED <<open, sent, counted>>
            \/ \E e \in Exchanges : ~(Wait(e) > 0) /\ Sending(e)
<1>1. PICK i \in Candidates(left) :
        LET e == left[i]
            f == TrueFarm[e]
        IN  IF Wait(e) > 0
            THEN CheckAdd /\ UNCHANGED <<open, sent, counted>>
            ELSE /\ Apply("add", e, hLearn)
                 /\ open' = e /\ counted' = (hStates[f] = "OK")
                 /\ sent' = [sent EXCEPT ![f] = IF hStates[f] = "OK"
                                                THEN Changed(@, "add") ELSE @]
  BY DEF Request
<1> DEFINE e == left[i]
<1>2. e \in Exchanges
  BY CandidateFacts
<1>3. CASE Wait(e) > 0
  BY <1>1, <1>3 DEF Request
<1>4. CASE ~(Wait(e) > 0)
  BY <1>1, <1>2, <1>4 DEF Request, Sending
<1>5. QED
  BY <1>3, <1>4

LEMMA ActivityStep ==
  ASSUME Types, Records, Activity, [Next]_vars
  PROVE  Activity'
<1>1. /\ hStates \in [Farms -> Reported \cup {"NONE"}] /\ counted \in BOOLEAN
      /\ sent \in [Farms -> Record] /\ NoExchange \notin Exchanges
      /\ TrueFarm \in [Exchanges -> Farms]
  BY FarmsAssumption, HistAssumption DEF Types, FarmTypes, Records
<1>2. ASSUME hStates' = hStates, edemoChecked' = edemoChecked, sent' = sent,
             \/ counted' = FALSE
             \/ counted' = counted /\ open' = open
      PROVE  Activity'
  BY <1>2 DEF Activity, Actives
<1>3. CASE Tick \/ UNCHANGED vars
  BY <1>2, <1>3 DEF Tick, vars, farms
<1>4. ASSUME NEW left \in Lists, Request(left) PROVE Activity'
  <2>1. hStates' = hStates /\ edemoChecked' = edemoChecked
    BY <1>4, RequestCases DEF farms
  <2>2. CASE UNCHANGED <<open, sent, counted>>
    BY <1>2, <2>1, <2>2
  <2>3. ASSUME NEW e \in Exchanges, Sending(e) PROVE Activity'
    <3>1. TrueFarm[e] \in Farms /\ sent[TrueFarm[e]] \in Record /\ now \in Nat
      BY <1>1, HistAssumption DEF Types
    <3>2. Changed(sent[TrueFarm[e]], "add") # << >>
      BY <3>1, AddBack DEF Changed
    <3>3. CASE hStates[TrueFarm[e]] = "OK"
      <4>1. /\ sent'[TrueFarm[e]] # << >> /\ open' = e
            /\ \A f \in Farms \ {TrueFarm[e]} : sent'[f] = sent[f]
        BY <1>1, <2>3, <3>1, <3>2, <3>3 DEF Sending
      <4>2. QED
        BY <1>1, <2>1, <3>3, <4>1 DEF Activity, Actives
    <3>4. CASE hStates[TrueFarm[e]] # "OK"
      <4>1. sent' = sent /\ counted' = FALSE
        BY <1>1, <2>3, <3>1, <3>4 DEF Sending
      <4>2. QED
        BY <1>2, <2>1, <4>1
    <3>5. QED
      BY <3>3, <3>4
  <2>4. QED
    BY <1>4, <2>2, <2>3, RequestCases
<1>5. CASE Row \/ Failed \/ HmdsConnected \/ OtherMessage \/ Timeout
  BY <1>2, <1>5 DEF Row, Failed, HmdsConnected, OtherMessage, Timeout, Open, Close,
     LearnHmds, LearnHmdsLastOk, farms
<1>6. CASE NoRoute \/ NoPermission \/ Violation
  <2>1. /\ hStates' = hStates /\ edemoChecked' = edemoChecked /\ counted' = FALSE
        /\ open \in Exchanges
    BY <1>6 DEF NoRoute, NoPermission, Violation, Open, Close, LearnHmds, Types
  <2>2. \E op \in Operations :
          sent' = [sent EXCEPT ![TrueFarm[open]] =
                     IF counted THEN Changed(sent[TrueFarm[open]], op)
                     ELSE sent[TrueFarm[open]]]
    BY <1>6 DEF NoRoute, NoPermission, Violation, TakenBack, Operations
  <2>3. \A f \in Farms : sent'[f] # << >> => sent[f] # << >>
    BY <1>1, <2>1, <2>2 DEF Activity
  <2>4. QED
    BY <2>1, <2>3 DEF Activity, Actives
<1>7. ASSUME NEW states, sent' = SentTo(states), hStates' = states,
             \/ counted' = FALSE
             \/ /\ counted' = (counted /\ states[TrueFarm[open]] = "OK") /\ open' = open
                /\ open \in Exchanges \cup {NoExchange},
             ~edemoChecked' => Actives(states) = {}
      PROVE  Activity'
  <2>1. \A f \in Farms : sent'[f] # << >> => hStates'[f] = "OK"
    BY <1>7 DEF SentTo
  <2>2. ASSUME counted' PROVE open' # NoExchange /\ sent'[TrueFarm[open']] # << >>
    BY <1>1, <1>7, <2>2 DEF SentTo, Activity
  <2>3. QED
    BY <1>7, <2>1, <2>2 DEF Activity
<1>8. ASSUME NEW f \in Farms, NEW state \in Reported, FarmMessage(f, state) PROVE Activity'
  BY <1>7, <1>8 DEF FarmMessage, Notify, Types
<1>9. ASSUME NEW f \in MarketFarms, MarketMessage(f) PROVE Activity'
  BY <1>9 DEF MarketMessage, NotifyMarket, Activity, Actives
<1>10. CASE ConnectionClosed
  <2>1. /\ sent' = SentTo(hStates') /\ counted' = FALSE
        /\ hStates' = [f \in Farms |-> IF hStates[f] = "NONE" THEN "NONE" ELSE "DOWN"]
    BY <1>10 DEF ConnectionClosed, SetAllBroken, Close
  <2>2. Actives(hStates') = {}
    BY <2>1 DEF Actives
  <2>3. QED
    BY <1>7, <2>1, <2>2
<1>11. QED
  BY <1>3, <1>4, <1>5, <1>6, <1>8, <1>9, <1>10 DEF Next

(* The two ways to take back the open request.                             *)
LEMMA TakenBackFacts ==
  ASSUME Types, Records, Known, NoRoute \/ NoPermission
  PROVE  /\ open \in Exchanges /\ open' = NoExchange /\ now' = now
         /\ sent' = [f \in Farms |-> Earlier(f)]
         /\ \E learned : /\ Keeps(learned) /\ Apply("remove", open, learned)
                         /\ \A f \in Farms \ misled' : TrueOf(learned, f)
<1>1. /\ open \in Exchanges /\ open' = NoExchange /\ now' = now /\ sent' = TakenBack
      /\ hLearn \in Learning
  BY DEF NoRoute, NoPermission, Open, Close, Types, FarmTypes, Learning
<1>2. sent' = [f \in Farms |-> Earlier(f)]
  BY <1>1 DEF TakenBack, Earlier, Changed, Records
<1>3. CASE NoRoute
  <2>1. Keeps(hLearn) /\ Apply("remove", open, hLearn) /\ misled' = misled
    BY <1>1, <1>3 DEF Keeps, NoRoute
  <2>2. QED
    BY <1>1, <1>2, <2>1 DEF Known
<1>4. CASE NoPermission
  <2>1. /\ LearnHmds(open) /\ Apply("remove", open, hLearn') /\ FarmTypes
        /\ misled' = misled \cup Mistaken(hLearn')
    BY <1>4 DEF NoPermission, Mislead, Types
  <2>2. hLearn' \in Learning
    BY <1>1, <2>1, LearnedFacts DEF LearnHmds, Learning
  <2>3. \A f \in Farms \ misled' : TrueOf(hLearn', f)
    BY <2>1, NotMistaken
  <2>4. \A x \in Exchanges : hLearn[x] # NoFarm => hLearn'[x] = hLearn[x]
    BY <1>1, <2>1, LearnHmdsKeeps
  <2>5. Keeps(hLearn')
    BY <2>2, <2>4 DEF Keeps
  <2>6. QED
    BY <1>1, <1>2, <2>1, <2>3, <2>5
<1>5. QED
  BY <1>3, <1>4

LEMMA CoveredStep ==
  ASSUME Types, Records, Known, Activity, Covered, Spare, [Next]_vars
  PROVE  Covered'
<1>1. now \in Nat /\ hLearn \in Learning /\ misled \subseteq misled'
  BY HistAssumption, KnownStep DEF Types, FarmTypes, Learning
<1>2. ASSUME UNCHANGED <<controls, sent>> PROVE Covered'
  BY <1>1, <1>2 DEF Covered, controls
<1>3. CASE \/ Tick \/ Row \/ Failed \/ HmdsConnected \/ OtherMessage \/ Timeout \/ UNCHANGED vars
  BY <1>2, <1>3 DEF Tick, Row, Failed, HmdsConnected, OtherMessage, Timeout, vars
<1>4. ASSUME NEW left \in Lists, Request(left) PROVE Covered'
  <2>1. CASE CheckAdd /\ sent' = sent
    <3>1. ControlsGood(controlGlobal', controlHmds', controlLazy', now)
      BY <2>1, SettledGood DEF CheckAdd
    <3>2. ASSUME NEW f \in Farms, f \notin misled, NEW X
          PROVE  Total(controlHmds', controlLazy', f, X) >= Total(controlHmds, controlLazy, f, X)
      <4>1. controlHmds' = SettledHmds(hLearn) /\ controlLazy' = SettledLazy(hLearn)
        BY <2>1 DEF CheckAdd
      <4>2. Total(SettledHmds(hLearn), SettledLazy(hLearn), f, X)
              >= Total(controlHmds, controlLazy, f, X)
        BY <1>1, <3>2, SettledTotal DEF Known, Total
      <4>3. QED
        BY <4>1, <4>2
    <3>3. ASSUME NEW f \in Farms, NEW X
          PROVE  /\ Total(controlHmds', controlLazy', f, X) \in Nat
                 /\ Total(controlHmds, controlLazy, f, X) \in Nat
                 /\ Count(sent[f], X) \in Nat
      <4>1. ASSUME NEW hmds \in [Farms -> Record], NEW lazy \in [Exchanges -> Record]
            PROVE  Total(hmds, lazy, f, X) \in Nat
        BY <4>1, TotalType
      <4>2. QED
        BY <3>1, <4>1, EarlierFacts DEF ControlsGood, Records
    <3>4. SUFFICES ASSUME NEW f \in Farms, f \notin misled, NEW X \in SUBSET Nat
          PROVE  /\ Count(sent[f], X) <= Count(controlGlobal, X)
                 /\ Count(sent[f], X) <= Total(controlHmds', controlLazy', f, X)
      BY <1>1, <2>1 DEF CheckAdd, Covered
    <3>5. /\ Count(sent[f], X) <= Count(controlGlobal, X)
          /\ Count(sent[f], X) <= Total(controlHmds, controlLazy, f, X)
      BY <3>4 DEF Covered
    <3>6. QED
      BY <3>2, <3>3, <3>4, <3>5
  <2>2. ASSUME NEW e \in Exchanges, Sending(e) PROVE Covered'
    <3>1. SUFFICES ASSUME NEW f \in Farms, f \notin misled, NEW X \in SUBSET Nat
          PROVE  /\ Count(sent'[f], X) <= Count(controlGlobal', X)
                 /\ Count(sent'[f], X) <= Total(controlHmds', controlLazy', f, X)
      BY <1>1 DEF Covered
    <3> DEFINE one == IF now \in X THEN 1 ELSE 0
    <3>2. /\ Count(sent[f], X) \in Nat /\ Count(controlGlobal', X) \in Nat
          /\ Total(controlHmds', controlLazy', f, X) \in Nat
          /\ Count(sent'[f], X)
               = Count(sent[f], X) + (IF f = TrueFarm[e] /\ counted' THEN one ELSE 0)
          /\ Count(sent[f], X) + one <= Count(controlGlobal', X)
          /\ Count(sent[f], X) + (IF Touches(hLearn, e, f) THEN one ELSE 0)
               <= Total(controlHmds', controlLazy', f, X)
          /\ f = TrueFarm[e] => Touches(hLearn, e, f)
      BY <1>1, <2>2, <3>1, AddedCounts
    <3>3. one \in 0..1
      OBVIOUS
    <3> HIDE DEF one
    <3>4. QED
      BY <3>2, <3>3
  <2>3. QED
    BY <1>4, <2>1, <2>2, RequestCases
<1>5. CASE NoRoute \/ NoPermission
  BY <1>1, <1>5, TakenBackFacts, RemovalCovered
<1>6. CASE Violation
  <2>1. /\ open \in Exchanges /\ Apply("violation", open, hLearn)
        /\ sent' = [sent EXCEPT ![TrueFarm[open]] =
                      IF counted THEN Changed(sent[TrueFarm[open]], "violation")
                      ELSE sent[TrueFarm[open]]]
        /\ misled' = misled
    BY <1>6 DEF Violation, Open, Types
  <2>2. counted => sent[TrueFarm[open]] # << >>
    BY DEF Activity
  <2>3. QED
    BY <1>1, <2>1, <2>2, ViolationCovered
<1>7. ASSUME NEW f \in Farms, NEW state \in Reported, FarmMessage(f, state) PROVE Covered'
  <2>1. ClearControls(hStates') /\ sent' = SentTo(hStates') /\ misled' = misled
    BY <1>7 DEF FarmMessage
  <2>2. QED
    BY <1>1, <2>1, ReportCovered
<1>8. ASSUME NEW f \in MarketFarms, MarketMessage(f) PROVE Covered'
  <2>1. ClearControls(hStates) /\ sent' = sent /\ misled' = misled
    BY <1>8 DEF MarketMessage
  <2>2. sent' = SentTo(hStates)
    BY <2>1 DEF Activity, SentTo, Records
  <2>3. QED
    BY <1>1, <2>1, <2>2, ReportCovered
<1>9. CASE ConnectionClosed
  <2>1. ClearControls(hStates') /\ sent' = SentTo(hStates') /\ misled' = misled
    BY <1>9 DEF ConnectionClosed
  <2>2. QED
    BY <1>1, <2>1, ReportCovered
<1>10. QED
  BY <1>3, <1>4, <1>5, <1>6, <1>7, <1>8, <1>9 DEF Next

LEMMA SpareStep ==
  ASSUME Types, Records, Known, Activity, Covered, Spare, [Next]_vars
  PROVE  Spare'
<1>1. now \in Nat /\ hLearn \in Learning /\ counted \in BOOLEAN /\ misled \subseteq misled'
  BY HistAssumption, KnownStep DEF Types, FarmTypes, Learning
<1>2. ASSUME open' = NoExchange PROVE Spare'
  BY <1>2 DEF Spare
<1>3. ASSUME UNCHANGED <<controls, sent, counted, open, hLearn, misled>> PROVE Spare'
  BY <1>3 DEF Spare, MoreGlobally, MoreLocally, MoreAt, Earlier, controls
<1>4. CASE Tick \/ OtherMessage \/ UNCHANGED vars
  BY <1>3, <1>4 DEF Tick, OtherMessage, vars, farms
<1>5. CASE Failed \/ NoRoute \/ NoPermission \/ Violation \/ Timeout \/ ConnectionClosed
  BY <1>2, <1>5 DEF Failed, NoRoute, NoPermission, Violation, Timeout, ConnectionClosed, Close
<1>6. ASSUME NEW left \in Lists, Request(left) PROVE Spare'
  <2>1. now' = now /\ hLearn' = hLearn /\ open = NoExchange /\ misled' = misled
    BY <1>6, RequestCases DEF farms, Request
  <2>2. ASSUME NEW e \in Exchanges, Sending(e) PROVE Spare'
    BY <1>1, <2>1, <2>2, AddedSpare, RecordsStep
  <2>3. QED
    BY <1>2, <1>6, <2>1, <2>2, RequestCases
<1>7. CASE Row
  <2>1. open \in Exchanges /\ LearnHmds(open) /\ FarmTypes
    BY <1>7 DEF Row, Open, Types
  <2>2. hLearn[open] # NoFarm => hLearn'[open] = hLearn[open]
    BY <2>1, LearnHmdsKeeps
  <2>3. CASE UNCHANGED <<open, counted>>
    BY <1>1, <1>7, <2>1, <2>2, <2>3, LearnSpare DEF Row
  <2>4. QED
    BY <1>2, <1>7, <2>3 DEF Row, Close
<1>8. CASE HmdsConnected
  <2>1. open \in Exchanges /\ UNCHANGED <<controls, sent, counted, open>>
    BY <1>8 DEF HmdsConnected, Open, Types
  <2>2. hLearn[open] # NoFarm => hLearn'[open] = hLearn[open]
    BY <1>8 DEF HmdsConnected, LearnHmdsLastOk
  <2>3. QED
    BY <1>1, <2>1, <2>2, LearnSpare
<1>9. ASSUME NEW f \in Farms, hLearn' = IF DropTable(f) THEN [e \in Exchanges |-> NoFarm] ELSE hLearn
      PROVE  \A g \in Farms : sent[g] # << >> => hLearn' = hLearn
  <2>1. ASSUME NEW g \in Farms, sent[g] # << >> PROVE edemoChecked
    BY <2>1 DEF Activity, Actives
  <2>2. QED
    BY <1>9, <2>1 DEF DropTable
<1>10. ASSUME NEW f \in Farms, NEW state \in Reported, FarmMessage(f, state) PROVE Spare'
  <2>1. /\ ClearControls(hStates') /\ sent' = SentTo(hStates') /\ open' = open
        /\ misled' = misled
        /\ counted' = (counted /\ hStates'[TrueFarm[open]] = "OK")
        /\ hLearn' = IF DropTable(f) THEN [e \in Exchanges |-> NoFarm] ELSE hLearn
    BY <1>10 DEF FarmMessage, Notify
  <2>2. QED
    BY <1>1, <1>9, <2>1, ReportSpare DEF Types
<1>11. ASSUME NEW f \in MarketFarms, MarketMessage(f) PROVE Spare'
  <2>1. /\ ClearControls(hStates) /\ sent' = sent /\ open' = open /\ counted' = counted
        /\ misled' = misled
        /\ hLearn' = IF DropTable(f) THEN [e \in Exchanges |-> NoFarm] ELSE hLearn
    BY <1>11 DEF MarketMessage, NotifyMarket
  <2>2. sent' = SentTo(hStates)
    BY <2>1 DEF Activity, SentTo, Records
  <2>3. open # NoExchange => counted' = (counted /\ hStates[TrueFarm[open]] = "OK")
    BY <1>1, <2>1, HistAssumption DEF Activity, Types
  <2>4. \A g \in Farms : sent[g] # << >> => hLearn' = hLearn
    BY <2>1 DEF Activity, Actives, DropTable
  <2>5. QED
    BY <1>1, <2>1, <2>2, <2>3, <2>4, ReportSpare DEF Types
<1>12. QED
  BY <1>4, <1>5, <1>6, <1>7, <1>8, <1>10, <1>11 DEF Next

(***************************************************************************)
(* The control that is asked.                                              *)
(***************************************************************************)

LEMMA ControlOfGood ==
  ASSUME Records, hLearn \in Learning, NEW e \in Exchanges
  PROVE  Good(ControlOf(e), now)
<1>1. ASSUME NEW f \in Farms PROVE Good(SettledHmds(hLearn)[f], now)
  BY SettledFacts
<1>2. hLearn[e] \in Farms \/ hLearn[e] = NoFarm
  BY DEF Learning
<1>3. QED
  BY <1>1, <1>2 DEF ControlOf, Records

(* It has of each set of times at least as many entries as the farm got.   *)
LEMMA ControlCovers ==
  ASSUME Records, Covered, Known, hLearn \in Learning,
         NEW e \in Exchanges, TrueFarm[e] \notin misled,
         NEW X \in SUBSET Nat
  PROVE  Count(sent[TrueFarm[e]], X) <= Count(ControlOf(e), X)
<1> DEFINE F == TrueFarm[e]
           A == AtFarm(hLearn, F)
<1>1. F \in Farms /\ F # NoFarm /\ hLearn[e] \in {NoFarm, F}
  BY HistAssumption, FarmsAssumption DEF Known, TrueOf, Here
<1>2. /\ Count(sent[F], X) <= Count(controlGlobal, X)
      /\ Count(sent[F], X) <= Total(controlHmds, controlLazy, F, X)
  BY <1>1 DEF Covered
<1>3. CASE hLearn[e] = NoFarm \/ ~LaziesAreCleared
  BY <1>2, <1>3 DEF ControlOf
<1>4. CASE hLearn[e] = F /\ LaziesAreCleared
  <2>1. ControlOf(e) = SettledHmds(hLearn)[F]
    BY <1>1, <1>4 DEF ControlOf
  <2>2. Count(SettledHmds(hLearn)[F], X)
          = Count(controlHmds[F], X) + CountAll(controlLazy, A, X)
    BY <1>1, SettledFacts
  <2> DEFINE D == Here(F) \cap A
  <2>3. /\ D \in SUBSET Here(F) /\ D \in SUBSET A /\ A \in SUBSET Exchanges
        /\ \A x \in Here(F) \ D : controlLazy[x] = << >>
    BY <1>1, <1>4 DEF AtFarm, Here, Known, TrueOf, LaziesAreCleared
  <2>4. controlLazy \in [Exchanges -> Record] /\ controlHmds \in [Farms -> Record]
        /\ sent \in [Farms -> Record]
    BY DEF Records
  <2> HIDE DEF A, D
  <2>5. CountAll(controlLazy, Here(F), X) = CountAll(controlLazy, D, X)
    BY <2>3, CountAllSame
  <2>6. /\ CountAll(controlLazy, D, X) <= CountAll(controlLazy, A, X)
        /\ CountAll(controlLazy, D, X) \in Nat /\ CountAll(controlLazy, A, X) \in Nat
    BY <2>3, <2>4, MoreExchanges
  <2>7. Count(controlHmds[F], X) \in Nat /\ Count(sent[F], X) \in Nat
    BY <1>1, <2>4, CountFacts
  <2>8. QED
    BY <1>2, <2>1, <2>2, <2>5, <2>6, <2>7 DEF Total, Amount
<1>5. QED
  BY <1>1, <1>3, <1>4

LEMMA RecordedByCover ==
  ASSUME Types, Records, Covered, Known
  PROVE  Recorded
<1>1. SUFFICES ASSUME NEW e \in Exchanges, TrueFarm[e] \notin misled,
                      NEW t \in TimesOf(sent[TrueFarm[e]])
      PROVE  t \in TimesOf(ControlOf(e))
  BY DEF Recorded
<1> DEFINE s == sent[TrueFarm[e]]
           c == ControlOf(e)
<1>2. hLearn \in Learning /\ TrueFarm[e] \in Farms
  BY HistAssumption DEF Types, FarmTypes, Learning
<1>3. s \in Record /\ c \in Record
  BY <1>2, ControlOfGood DEF Records, Good
<1>4. t \in Nat /\ \E i \in DOMAIN s : s[i].time = t
  <2>1. PICK i \in DOMAIN s : s[i].time = t
    BY DEF TimesOf
  <2>2. s[i].time \in Nat
    BY <1>3, <2>1, RecordFacts
  <2>3. QED
    BY <2>1, <2>2
<1>5. Count(s, {t}) <= Count(c, {t})
  BY <1>1, <1>2, <1>4, ControlCovers
<1> HIDE DEF s, c
<1>6. Count(s, {t}) > 0 /\ Count(s, {t}) \in Nat /\ Count(c, {t}) \in Nat
  BY <1>3, <1>4, CountOne, CountFacts
<1>7. Count(c, {t}) > 0
  BY <1>5, <1>6
<1>8. \E i \in DOMAIN c : c[i].time = t
  BY <1>3, <1>7, CountOne
<1>9. QED
  BY <1>8 DEF TimesOf, c

LEMMA BudgetStep ==
  ASSUME Types, Records, Known, Activity, Covered, Budget, [Next]_vars
  PROVE  Budget'
<1>1. /\ now \in Nat /\ hLearn \in Learning /\ sent \in [Farms -> Record]
      /\ TrueFarm \in [Exchanges -> Farms]
      /\ \A f \in Farms : sent[f] \in Record /\ Good(sent[f], now)
      /\ \A f \in Farms \ misled : WithinBurst(sent[f])
      /\ misled \subseteq misled'
  BY HistAssumption, KnownStep DEF Types, FarmTypes, Learning, Records, Budget
<1>2. ASSUME sent' = sent PROVE Budget'
  BY <1>1, <1>2 DEF Budget
<1>3. CASE \/ Tick \/ Row \/ Failed \/ HmdsConnected \/ OtherMessage \/ Timeout \/ UNCHANGED vars
           \/ \E f \in MarketFarms : MarketMessage(f)
  BY <1>2, <1>3 DEF Tick, Row, Failed, HmdsConnected, OtherMessage, Timeout, vars, MarketMessage
<1>4. ASSUME NEW g \in Farms, NEW c, g \notin misled => WithinBurst(c),
             sent' = sent \/ sent' = [sent EXCEPT ![g] = c]
      PROVE  Budget'
  BY <1>1, <1>4 DEF Budget
<1>5. ASSUME NEW left \in Lists, Request(left) PROVE Budget'
  <2>1. ASSUME NEW e \in Exchanges, ~(Wait(e) > 0), Sending(e) PROVE Budget'
    <3> DEFINE F == TrueFarm[e]
               c == ControlOf(e)
    <3>1. F \in Farms /\ Good(c, now)
      BY <1>1, ControlOfGood
    <3>2. GoodTime(c, now) <= 0
      <4>1. GoodTime(c, now) \in Int
        BY <1>1, <3>1, GoodTimeType DEF Good
      <4>2. QED
        BY <2>1, <4>1 DEF Wait
    <3>3. Young(now) \in SUBSET Nat
      BY DEF Young
    <3>4. F \notin misled => Count(sent[F], Young(now)) <= Count(c, Young(now))
      BY <1>1, <3>3, ControlCovers
    <3> HIDE DEF c
    <3>5. Count(c, Young(now)) < MaxRequests
      BY <1>1, <3>1, <3>2, RoomLeft
    <3>6. Count(sent[F], Young(now)) \in Nat /\ Count(c, Young(now)) \in Nat /\ MaxRequests \in Nat
      BY <1>1, <3>1, CountFacts, PacingAssumption DEF Good
    <3>7. F \notin misled => Count(sent[F], Young(now)) < MaxRequests
      BY <3>4, <3>5, <3>6
    <3>8. F \notin misled => WithinBurst(AddRequest(sent[F], now))
      BY <1>1, <3>1, <3>7, AddWithinBurst
    <3>9. sent' = sent \/ sent' = [sent EXCEPT ![F] = AddRequest(sent[F], now)]
      BY <1>1, <2>1 DEF Sending, Changed
    <3>10. QED
      BY <1>4, <3>1, <3>8, <3>9
  <2>2. QED
    BY <1>2, <1>5, <2>1, RequestCases
<1>6. CASE NoRoute \/ NoPermission
  <2>1. sent' = [f \in Farms |-> Earlier(f)]
    BY <1>6, TakenBackFacts
  <2>2. \A f \in Farms \ misled : WithinBurst(RemoveLastRequest(sent[f]))
    BY <1>1, RemoveWithinBurst
  <2>3. QED
    BY <1>1, <2>1, <2>2 DEF Earlier, Budget
<1>7. CASE Violation
  <2> DEFINE F == TrueFarm[open]
  <2>1. /\ F \in Farms
        /\ sent' = [sent EXCEPT ![F] = IF counted THEN Changed(sent[F], "violation") ELSE sent[F]]
    BY <1>1, <1>7 DEF Violation, Open, Types
  <2>2. CASE counted
    <3>1. sent[F] # << >>
      BY <2>2 DEF Activity
    <3>2. F \notin misled => WithinBurst(NotifyViolation(sent[F], now))
      BY <1>1, <2>1, <3>1, NotifyWithinBurst
    <3>3. sent' = [sent EXCEPT ![F] = NotifyViolation(sent[F], now)]
      BY <2>1, <2>2 DEF Changed
    <3>4. QED
      BY <1>4, <2>1, <3>2, <3>3
  <2>3. CASE ~counted
    BY <1>1, <1>2, <2>1, <2>3
  <2>4. QED
    BY <2>2, <2>3
<1>8. CASE ConnectionClosed \/ \E f \in Farms, state \in Reported : FarmMessage(f, state)
  <2>1. sent' = SentTo(hStates')
    BY <1>8 DEF ConnectionClosed, FarmMessage
  <2>2. QED
    BY <1>1, <2>1, EmptyWithinBurst DEF SentTo, Budget
<1>9. QED
  BY <1>3, <1>5, <1>6, <1>7, <1>8 DEF Next

(* A wait longer than minPacingTime means that no farm had budget left.    *)
LEMMA NoNeedlessWaitHolds ==
  ASSUME Types, Records
  PROVE  NoNeedlessWait
<1>1. now \in Nat /\ hLearn \in Learning
  BY HistAssumption DEF Types, FarmTypes, Learning
<1>2. SUFFICES ASSUME NEW left \in Lists, NEW i \in Candidates(left),
                      Wait(left[i]) > MinPacingTime,
                      NEW j \in DOMAIN left
               PROVE  Wait(left[j]) > 0
  BY DEF NoNeedlessWait
<1>3. /\ left \in Seq(Exchanges) /\ left[i] \in Exchanges /\ left[j] \in Exchanges
      /\ Ready(left) # {} => CountLeft(ControlOf(left[i]), now) > 0
  BY CandidateFacts, HistAssumption
<1>4. ASSUME NEW e \in Exchanges
      PROVE  /\ Wait(e) \in Int
             /\ Wait(e) <= 0 => CountLeft(ControlOf(e), now) > 0
             /\ CountLeft(ControlOf(e), now) > 0 => Wait(e) <= MinPacingTime
  <2>1. Good(ControlOf(e), now)
    BY <1>1, ControlOfGood
  <2>2. GoodTime(ControlOf(e), now) \in Int
    BY <1>1, <2>1, GoodTimeType DEF Good
  <2>3. QED
    BY <1>1, <2>1, <2>2, WaitsAgree DEF Wait
<1>5. Ready(left) = {}
  <2>1. Wait(left[i]) \in Int /\ MinPacingTime \in Nat
    BY <1>3, <1>4, PacingAssumption
  <2>2. ~(Wait(left[i]) <= MinPacingTime)
    BY <1>2, <2>1
  <2>3. QED
    BY <1>3, <1>4, <2>2
<1> DEFINE f == hLearn[left[j]]
           k == First(left, f)
<1>6. f \in Farms \cup {NoFarm} /\ j \in Of(left, f)
  BY <1>1, <1>3 DEF Learning, Of
<1>7. k \in DOMAIN left /\ hLearn[left[k]] = f
  <2>1. k \in Of(left, f)
    BY <1>3, <1>6, FirstFacts
  <2>2. QED
    BY <2>1 DEF Of
<1>8. ControlOf(left[j]) = ControlOf(left[k])
  BY <1>7 DEF ControlOf
<1>9. ~(CountLeft(ControlOf(left[k]), now) > 0)
  BY <1>5, <1>6 DEF Ready
<1>10. QED
  BY <1>3, <1>4, <1>8, <1>9

(***************************************************************************)
(* The theorems.                                                           *)
(***************************************************************************)

LEMMA InitHolds ==
  ASSUME Init
  PROVE  /\ Types /\ Records /\ Memo /\ Activity /\ Covered /\ Spare /\ Budget
         /\ Known
<1>1. Types
  <2>1. FarmTypes
    BY FarmsAssumption DEF Init, FarmsInit, FarmTypes
  <2>2. now = 0 /\ open = NoExchange /\ reports = 0
    BY DEF Init
  <2>3. aborted \in BOOLEAN /\ counted \in BOOLEAN
    BY DEF Init
  <2>4. 0 \in 0..MaxTime /\ 0 \in 0..MaxReports
    BY HistAssumption
  <2>5. misled \subseteq Farms
    BY HistAssumption DEF Init, Mistaken
  <2>6. QED
    BY <2>1, <2>2, <2>3, <2>4, <2>5 DEF Types
<1>2. /\ Good(<< >>, now) /\ << >> \in Record /\ \A X : Count(<< >>, X) = 0
  BY EmptyGood, CountEmpty DEF Good
<1>3. /\ controlGlobal = << >> /\ controlHmds = [f \in Farms |-> << >>]
      /\ controlLazy = [e \in Exchanges |-> << >>] /\ sent = [f \in Farms |-> << >>]
      /\ counted = FALSE /\ open = NoExchange
  BY DEF Init, ControlsInit
<1>4. Records
  BY <1>2, <1>3 DEF Records
<1>5. Memo /\ Spare /\ Known
  BY <1>3, NotMistaken DEF Init, FarmsInit, Memo, Spare, Known
<1>6. Activity
  BY <1>3 DEF Init, FarmsInit, Activity, Actives
<1>7. Budget
  BY <1>3, EmptyWithinBurst DEF Budget
<1>8. Covered
  <2>1. SUFFICES ASSUME NEW f \in Farms, NEW X \in SUBSET Nat
        PROVE  /\ Count(sent[f], X) <= Count(controlGlobal, X)
               /\ Count(sent[f], X) <= Total(controlHmds, controlLazy, f, X)
    BY DEF Covered
  <2>2. Count(sent[f], X) = 0 /\ Count(controlGlobal, X) = 0
    BY <1>2, <1>3
  <2>3. Total(controlHmds, controlLazy, f, X) \in Nat
    BY <1>4, TotalType DEF Records
  <2>4. QED
    BY <2>2, <2>3
<1>9. QED
  BY <1>1, <1>4, <1>5, <1>6, <1>7, <1>8

LEMMA TypesAndOrder ==
  ASSUME Types, Records
  PROVE  TypeOK
<1>1. ASSUME NEW c \in Controls \cup {sent[f] : f \in Farms} PROVE Good(c, now)
  BY <1>1 DEF Controls, Records
<1>2. ASSUME NEW c, Good(c, now)
      PROVE  InOrder(c) /\ \A i \in DOMAIN c : c[i] \in Entry /\ c[i].time <= now
  BY <1>2, RecordFacts DEF Good
<1>3. QED
  BY <1>1, <1>2 DEF Types, TypeOK

(* The invariant that needs nothing of the table of the program.           *)
Sound == Types /\ Records /\ Memo

(* Types and records hold in every state, and the exchange last learned is *)
(* never skipped wrongly (DataFarmStates), whatever the table says.         *)
THEOREM SoundAlways == Spec => []Sound
<1>1. Init => Sound
  BY InitHolds DEF Sound
<1>2. Sound /\ [Next]_vars => Sound'
  BY TypesStep, RecordsStep, MemoStep DEF Sound
<1>3. QED
  BY <1>1, <1>2, PTL DEF Spec

(* Every variable keeps its type, and merge(), clear() and the three       *)
(* changes keep every record in the order of its times, none in the future.*)
THEOREM RecordsStayInOrder == Spec => []TypeOK
<1>1. Sound => TypeOK
  BY TypesAndOrder DEF Sound
<1>2. QED
  BY <1>1, SoundAlways, PTL

(* The memo of learnHmds() never hides something to learn.                 *)
THEOREM MemoIsSafe == Spec => []MemoSkipsNothing
<1>1. Sound => MemoSkipsNothing
  BY MemoMeans DEF Sound, Types
<1>2. QED
  BY <1>1, SoundAlways, PTL

(* checkoutOpt() never sleeps longer than minPacingTime while a request    *)
(* could go out.                                                           *)
THEOREM ChoiceNeverOversleeps == Spec => []NoNeedlessWait
<1>1. Sound => NoNeedlessWait
  BY NoNeedlessWaitHolds DEF Sound
<1>2. QED
  BY <1>1, SoundAlways, PTL

Accounted == Types /\ Records /\ Known /\ Activity /\ Covered /\ Spare /\ Budget

(* The pacers' accounts cover every request the TWS counts                 *)
(* (PacingGod::addRequest and its callers), for every farm no exchange of  *)
(* which was taken to be elsewhere, whatever the table says and the TWS    *)
(* reports.                                                                *)
THEOREM AccountedAlways == Spec => []Accounted
<1>1. Init => Accounted
  BY InitHolds DEF Accounted
<1>2. Accounted /\ [Next]_vars => Accounted'
  BY TypesStep, RecordsStep, KnownStep, ActivityStep, CoveredStep, SpareStep, BudgetStep
     DEF Accounted
<1>3. QED
  BY <1>1, <1>2, PTL DEF Spec

(* What such a farm got is on the record that is asked before the next     *)
(* request for it, before and after its exchanges are learned.             *)
THEOREM RequestsAreRecorded == Spec => []Recorded
<1>1. Accounted => Recorded
  BY RecordedByCover DEF Accounted
<1>2. QED
  BY <1>1, AccountedAlways, PTL

(* No such farm gets more than maxRequests within checkInterval.           *)
THEOREM FarmBudgetsKept == Spec => []Budget
<1>1. Accounted => Budget
  BY DEF Accounted
<1>2. QED
  BY <1>1, AccountedAlways, PTL
=============================================================================
