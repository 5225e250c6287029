--------------------------- MODULE AdmissionProofs ---------------------------
(***************************************************************************)
(* What decides whether a new deal may start, for every value of the       *)
(* constants. Admission never takes more slots than max_bots and           *)
(* implements the pool of slots, as long as a mission is not stopped while *)
(* its re-entry buy is in flight; the green phase neither flickers nor     *)
(* sticks; its extra deals are funded; trust is backed by a recent refresh.*)
(***************************************************************************)
EXTENDS MCAdmission, SumTheorems

(***************************************************************************)
(* The inductive invariant.  SlotsBounded alone says nothing of a decision *)
(* taken on rows read earlier: that needs SeenCoversDeals, which needs     *)
(* that only reserved symbols and waiting missions can become deals.       *)
(***************************************************************************)
\* Symbols the plugin has reserved and not yet bought.
Unbought == IF pc \in {"sizing", "buying"} THEN lease
            ELSE IF pc = "bought" THEN lease \ {current} ELSE {}

BatchInv ==
    /\ lease \subseteq pending
    /\ pc \in {"buying", "bought"} => current \in lease
    /\ Unbought \cap Deals = {}

ReentryInv == \A s \in reentry : rows[s] = "waiting"

AdmissionInv == TypeOK /\ BatchInv /\ ReentryInv /\ SeenCoversDeals

\* A set of symbols is finite.
LEMMA FiniteSlots ==
    ASSUME NEW S \in SUBSET Symbols
    PROVE  IsFiniteSet(S) /\ Cardinality(S) \in Nat
  BY SlotAssumption, FS_Subset, FS_CardinalityType

\* No plugin runs and nothing is reserved at first.
LEMMA InvInit == Init => AdmissionInv
  BY SlotAssumption
  DEF Init, AdmissionInv, TypeOK, BatchInv, Unbought, ReentryInv, SeenCoversDeals, Deals

-----------------------------------------------------------------------------
\* The plugin's own steps.
LEMMA InvDecision ==
    ASSUME AdmissionInv, Decision
    PROVE  AdmissionInv'
<1> USE DEF AdmissionInv, TypeOK, BatchInv, Unbought, ReentryInv, SeenCoversDeals, Deals
<1> USE DEF others, batch
<1>1. ASSUME NEW p \in Plugins, NEW symbols \in SUBSET Symbols, Start(p, symbols)
      PROVE  AdmissionInv'
  BY <1>1 DEF Start
<1>2. CASE Paused
  BY <1>2 DEF Paused
<1>3. CASE ReadActive
  BY <1>3 DEF ReadActive, Active
<1>4. ASSUME NEW admitted \in SUBSET cands, NEW blocked \in SUBSET cands,
             NEW limit \in Limits, Decide(admitted, limit, blocked)
      PROVE  AdmissionInv'
  <2>1. admitted \subseteq Symbols /\ admitted \cap seen = {}
    BY <1>4 DEF Decide, Ranked
  <2> QED
    BY <1>4, <2>1 DEF Decide, Admitted
<1> QED
  BY <1>1, <1>2, <1>3, <1>4 DEF Decision

\* Buying and releasing what the batch has reserved.
LEMMA InvEntry ==
    ASSUME AdmissionInv, Entry
    PROVE  AdmissionInv'
<1> USE SlotAssumption
<1> USE DEF AdmissionInv, TypeOK, BatchInv, Unbought, ReentryInv, SeenCoversDeals, Deals
<1> USE DEF others, batch
<1>1. CASE EntriesSized
  BY <1>1 DEF EntriesSized, BuyNext
<1>2. CASE HistoryMissing
  BY <1>2 DEF HistoryMissing, ReleaseAll
<1>3. CASE BuyFills
  BY <1>3 DEF BuyFills, SetRow
<1>4. CASE BuyFails
  BY <1>4 DEF BuyFails
<1>5. CASE ReleaseSymbol
  BY <1>5 DEF ReleaseSymbol, BuyNext
<1>6. CASE CancelPlugin
  BY <1>6 DEF CancelPlugin, ReleaseAll
<1> QED
  BY <1>1, <1>2, <1>3, <1>4, <1>5, <1>6 DEF Entry

\* Closes, exits, re-entries and statistics, between any two of them.
LEMMA InvDeals ==
    ASSUME ~StopsDuringReentry, AdmissionInv, NEW s \in Symbols, DealStep(s)
    PROVE  AdmissionInv'
<1> USE DEF AdmissionInv, TypeOK, BatchInv, Unbought, ReentryInv, SeenCoversDeals, Deals
<1> USE DEF others, unattended, batch, SetRow
<1>1. CASE CloseDeal(s)
  BY <1>1 DEF CloseDeal
<1>2. CASE SidestepExit(s)
  BY <1>2 DEF SidestepExit
<1>3. CASE StopCampaign(s)
  BY <1>3 DEF StopCampaign
<1>4. CASE ReentryStarts(s)
  BY <1>4 DEF ReentryStarts
<1>5. CASE ReentryFills(s)
  BY <1>5 DEF ReentryFills
<1>6. CASE ReentryFails(s)
  BY <1>6 DEF ReentryFails
<1>7. CASE FindRow(s)
  BY <1>7 DEF FindRow
<1>8. CASE ForceRemove(s)
  BY <1>8 DEF ForceRemove
<1> QED
  BY <1>1, <1>2, <1>3, <1>4, <1>5, <1>6, <1>7, <1>8 DEF DealStep

\* Every step of the specification preserves the invariant.
LEMMA InvStep == ~StopsDuringReentry => (AdmissionInv /\ [Next]_vars => AdmissionInv')
<1> SUFFICES ASSUME ~StopsDuringReentry, AdmissionInv, [Next]_vars
             PROVE  AdmissionInv'
  OBVIOUS
<1> USE DEF AdmissionInv, TypeOK, BatchInv, Unbought, ReentryInv, SeenCoversDeals, Deals
<1>1. CASE Decision
  BY <1>1, InvDecision
<1>2. CASE Entry
  BY <1>2, InvEntry
<1>3. ASSUME NEW s \in Symbols, DealStep(s) PROVE AdmissionInv'
  BY <1>3, InvDeals
<1>4. CASE WriteStatistics
  BY <1>4, SlotAssumption DEF WriteStatistics, unattended, batch
<1>5. CASE Restart
  BY <1>5, SlotAssumption DEF Restart
<1>6. CASE UNCHANGED vars
  BY <1>6 DEF vars
<1> QED
  BY <1>1, <1>2, <1>3, <1>4, <1>5, <1>6 DEF Next

-----------------------------------------------------------------------------
(***************************************************************************)
(* What a step does to the slots: only a decision takes any, and it takes  *)
(* no more than are free; every other step gives some back or none.        *)
(***************************************************************************)
\* Disjoint sets of symbols take the slots of both.
LEMMA DisjointSlots ==
    ASSUME NEW S \in SUBSET Symbols, NEW T \in SUBSET Symbols, S \cap T = {}
    PROVE  Cardinality(S \cup T) = Cardinality(S) + Cardinality(T)
<1>1. IsFiniteSet(S) /\ IsFiniteSet(T) /\ Cardinality(S) \in Nat /\ Cardinality(T) \in Nat
  BY FiniteSlots
<1>2. Cardinality(S \cap T) = 0
  BY FS_EmptySet
<1>3. Cardinality(S \cup T) = Cardinality(S) + Cardinality(T) - Cardinality(S \cap T)
  BY <1>1, FS_Union, Zenon
<1> QED
  BY <1>1, <1>2, <1>3

\* A decision takes free slots only, and no more than max_bots leaves free.
LEMMA DecisionFits ==
    ASSUME AdmissionInv, NEW admitted \in SUBSET cands, NEW blocked \in SUBSET cands,
           NEW limit \in Limits, Decide(admitted, limit, blocked), admitted # {}
    PROVE  /\ admitted \cap Taken = {}
           /\ Taken' = Taken \cup admitted
           /\ Cardinality(Taken \cup admitted) <= MaxBots
<1> USE DEF AdmissionInv, TypeOK
<1> DEFINE occupied == seen \cup pending
<1>1. /\ admitted \subseteq Symbols
      /\ admitted \cap occupied = {}
      /\ Taken \subseteq occupied
  BY DEF Decide, Ranked, SeenCoversDeals, Taken
<1>2. Taken' = Taken \cup admitted
  BY DEF Decide, Admitted, Taken, Deals
<1>3. /\ Cardinality(occupied) \in Nat /\ Cardinality(admitted) \in Nat
      /\ Cardinality(cands \ (seen \cup pending \cup blocked)) \in Nat
      /\ IsFiniteSet(occupied) /\ IsFiniteSet(admitted)
  BY <1>1, FiniteSlots
<1>4. Cardinality(admitted) # 0
  BY <1>3, FS_EmptySet
<1>5. limit \in Nat /\ limit <= MaxBots /\ MaxBots \in Nat
  BY SlotAssumption
<1>6. Cardinality(occupied) + Cardinality(admitted) <= limit
  BY <1>3, <1>4, <1>5 DEF Decide, Ranked, Available
<1>7. Cardinality(occupied \cup admitted) = Cardinality(occupied) + Cardinality(admitted)
  <2>1. occupied \in SUBSET Symbols /\ admitted \in SUBSET Symbols /\ occupied \cap admitted = {}
    BY <1>1
  <2> QED
    BY <2>1, DisjointSlots, Zenon
<1>8. Cardinality(Taken \cup admitted) <= Cardinality(occupied \cup admitted)
  BY <1>1, FiniteSlots, FS_Subset
<1>9. Cardinality(Taken \cup admitted) \in Nat
  BY <1>1, FiniteSlots
<1> QED
  BY <1>1, <1>2, <1>3, <1>5, <1>6, <1>7, <1>8, <1>9

\* Buying, re-entering, releasing and closing move symbols inside the slots.
LEMMA OnlyDecisionsTake ==
    ASSUME AdmissionInv, [Next]_vars,
           ~\E admitted, blocked \in SUBSET cands, limit \in Limits :
               admitted # {} /\ Decide(admitted, limit, blocked)
    PROVE  Taken' \subseteq Taken
<1> USE DEF AdmissionInv, TypeOK, BatchInv, Unbought, ReentryInv, Deals, Taken
<1> USE DEF others, unattended, batch, SetRow
<1>1. CASE Decision
  BY <1>1 DEF Decision, Start, Paused, ReadActive, Decide, Admitted
<1>2. CASE Entry
  BY <1>2
  DEF Entry, EntriesSized, HistoryMissing, ReleaseAll, BuyFills, BuyFails, ReleaseSymbol,
      CancelPlugin
<1>3. ASSUME NEW s \in Symbols, DealStep(s) PROVE Taken' \subseteq Taken
  BY <1>3
  DEF DealStep, CloseDeal, SidestepExit, StopCampaign, ReentryStarts, ReentryFills, ReentryFails,
      FindRow, ForceRemove
<1>4. CASE WriteStatistics
  BY <1>4 DEF WriteStatistics
<1>5. CASE Restart
  BY <1>5 DEF Restart
<1>6. CASE UNCHANGED vars
  BY <1>6 DEF vars
<1> QED
  BY <1>1, <1>2, <1>3, <1>4, <1>5, <1>6 DEF Next

-----------------------------------------------------------------------------
\* The invariant holds in every reachable state.
LEMMA AdmissionInvariant == ~StopsDuringReentry => (Spec => []AdmissionInv)
<1> SUFFICES ASSUME ~StopsDuringReentry
             PROVE  Spec => []AdmissionInv
  OBVIOUS
<1>1. AdmissionInv /\ [Next]_vars => AdmissionInv'
  BY InvStep
<1> QED
  BY InvInit, <1>1, PTL DEF Spec

\* A step of admission is a step of the pool, or stutters.
LEMMA PoolStep == AdmissionInv /\ [Next]_vars => [Pool!Next]_Taken
<1> SUFFICES ASSUME AdmissionInv, [Next]_vars
             PROVE  Pool!Next \/ Taken' = Taken
  OBVIOUS
<1>1. CASE \E admitted, blocked \in SUBSET cands, limit \in Limits :
               admitted # {} /\ Decide(admitted, limit, blocked)
  <2>1. PICK admitted \in SUBSET cands, blocked \in SUBSET cands, limit \in Limits :
                admitted # {} /\ Decide(admitted, limit, blocked)
    BY <1>1
  <2>2. /\ admitted \cap Taken = {}
        /\ Taken' = Taken \cup admitted
        /\ Cardinality(Taken \cup admitted) <= MaxBots
    BY <2>1, DecisionFits
  <2>3. Pool!Cardinality(Taken \cup admitted) = Cardinality(Taken \cup admitted)
    BY DEF Pool!Cardinality, Cardinality
  <2>4. Pool!Admit(admitted)
    BY <2>2, <2>3 DEF Pool!Admit
  <2>5. admitted \in SUBSET Symbols
    BY DEF AdmissionInv, TypeOK
  <2> QED
    BY <2>4, <2>5 DEF Pool!Next
<1>2. CASE Taken' \subseteq Taken
  <2>1. Taken \ Taken' \in SUBSET Symbols
    BY DEF AdmissionInv, TypeOK, Taken, Deals
  <2>2. Pool!Vacate(Taken \ Taken')
    BY <1>2 DEF Pool!Vacate
  <2> QED
    BY <2>1, <2>2 DEF Pool!Next
<1> QED
  BY <1>1, <1>2, OnlyDecisionsTake

\* Admission implements the pool of slots: every step of the plugin, the worker
\* and the operator takes slots that are free, gives some back, or stutters.
THEOREM AdmissionIsAPool == ~StopsDuringReentry => (Spec => ImplementsSlotPool)
<1>1. Init => Pool!Init
  BY DEF Init, Pool!Init, Taken, Deals
<1> QED
  BY <1>1, AdmissionInvariant, PoolStep, PTL DEF Spec, Pool!Spec, ImplementsSlotPool

\* Deals and reservations together never exceed the largest effective max_bots.
THEOREM SlotsAreBounded == ~StopsDuringReentry => (Spec => []SlotsBounded)
<1>1. Init => SlotsBounded
  <2>1. Init => Taken = {}
    BY DEF Init, Taken, Deals
  <2> QED
    BY <2>1, FS_EmptySet, SlotAssumption DEF SlotsBounded
<1>2. AdmissionInv /\ SlotsBounded /\ [Next]_vars => SlotsBounded'
  <2> SUFFICES ASSUME AdmissionInv, SlotsBounded, [Next]_vars
               PROVE  SlotsBounded'
    OBVIOUS
  <2>1. CASE \E admitted, blocked \in SUBSET cands, limit \in Limits :
                 admitted # {} /\ Decide(admitted, limit, blocked)
    BY <2>1, DecisionFits DEF SlotsBounded
  <2>2. CASE Taken' \subseteq Taken
    <3>1. Taken \in SUBSET Symbols /\ Taken' \in SUBSET Symbols
      BY <2>2 DEF AdmissionInv, TypeOK, Taken, Deals
    <3>2. Cardinality(Taken') <= Cardinality(Taken)
      BY <2>2, <3>1, FiniteSlots, FS_Subset
    <3> QED
      BY <3>1, <3>2, FiniteSlots, SlotAssumption DEF SlotsBounded
  <2> QED
    BY <2>1, <2>2, OnlyDecisionsTake
<1> QED
  BY <1>1, <1>2, AdmissionInvariant, PTL DEF Spec

\* When the resolver decides, every deal is among the symbols it has read.
THEOREM SeenIsSafe == ~StopsDuringReentry => (Spec => []SeenCoversDeals)
  BY AdmissionInvariant, PTL DEF AdmissionInv
-----------------------------------------------------------------------------
(***************************************************************************)
(* The green phase.  The counters of the code restart where the streaks of *)
(* the history do not, and still agree with them where they are read:      *)
(* confirm outside a phase, release inside one.                            *)
(***************************************************************************)
GreenInv ==
    /\ IsFiniteSet(closes)
    /\ confirm \in Nat /\ release \in Nat /\ entering \in Nat /\ leaving \in Nat
    /\ state.detected \in BOOLEAN
    /\ reading.pc \in {"idle", "rows"}
    /\ ~state.detected => confirm = entering /\ entering < Confirm
    /\ state.detected => release = leaving /\ leaving < Release

\* Among finitely many closes, an evaluation that is promising is not fading.
LEMMA CandidatesExclude ==
    ASSUME NEW found, IsFiniteSet(found), NEW at, Green!EnterCandidate(found, at)
    PROVE  ~Green!ExitCandidate(found, at)
<1> DEFINE recent == Green!Wins(Green!RecentRows(found, at))
           ramp == Green!Wins(Green!RampRows(found, at))
<1>1. recent \in Nat /\ ramp \in Nat
  <2>1. ASSUME NEW S, S \subseteq found
        PROVE  Green!Wins(S) \in Nat
    <3>1. IsFiniteSet({c \in S : c.win})
      BY <2>1, FS_Subset
    <3> QED
      BY <3>1, FS_CardinalityType DEF Green!Wins, Green!Cardinality, Cardinality
  <2> QED
    BY <2>1 DEF Green!RecentRows, Green!RampRows
<1>2. /\ Green!RecentSpeed(found, at) = recent * Ramp
      /\ Green!BaselineSpeed(found, at) = ramp * Recent
  BY DEF Green!RecentSpeed, Green!BaselineSpeed
<1> HIDE DEF recent, ramp
<1>3. recent * Ramp \in Nat /\ ramp * Recent \in Nat
  BY <1>1, AdmissionAssumption
<1> QED
  BY <1>2, <1>3 DEF Green!EnterCandidate, Green!ExitCandidate

\* Before the first evaluation there is no phase and no streak.
LEMMA GreenInit == Green!Init => GreenInv
  BY AdmissionAssumption, FS_EmptySet DEF Green!Init, Green!NoState, Green!Idle, GreenInv

\* An evaluation moves the counters, the streaks and the phase together.
LEMMA AnalyzeStep ==
    ASSUME GreenInv, Green!Analyze
    PROVE  /\ GreenInv'
           /\ ~state.detected /\ state'.detected => entering' >= Confirm
           /\ state.detected /\ ~state'.detected => leaving' >= Release \/ ~state'.ready
<1> USE AdmissionAssumption
<1> DEFINE at == reading.at
           ready == Green!RampReady(closes, at)
           promising == Green!EnterCandidate(closes, at)
           fading == Green!ExitCandidate(closes, at)
           detected == ready /\ Green!Detected(closes, at)
           extra == IF detected /\ MaxExtra > 0 THEN Green!ExtraDeals(closes, at) ELSE 0
<1>1. ~(promising /\ fading)
  BY CandidatesExclude DEF GreenInv
<1>2. /\ state' = [ready |-> ready, detected |-> detected, extra |-> extra]
      /\ confirm' = IF ready THEN Green!NextConfirm(closes, at) ELSE 0
      /\ release' = IF ready THEN Green!NextRelease(closes, at) ELSE 0
      /\ entering' = IF ready /\ promising
                     THEN (IF entering < Confirm THEN entering + 1 ELSE entering) ELSE 0
      /\ leaving' = IF ready /\ fading
                    THEN (IF leaving < Release THEN leaving + 1 ELSE leaving) ELSE 0
      /\ closes' = closes /\ reading' = Green!Idle
  BY DEF Green!Analyze
<1>3. /\ confirm' = IF ready /\ ~state.detected /\ promising /\ confirm + 1 < Confirm
                    THEN confirm + 1 ELSE 0
      /\ release' = IF ready /\ state.detected /\ fading /\ release + 1 < Release
                    THEN release + 1 ELSE 0
  BY <1>2 DEF Green!NextConfirm, Green!NextRelease
<1>4. /\ state'.ready <=> ready
      /\ state'.detected <=> /\ ready
                             /\ IF state.detected THEN ~(fading /\ release + 1 >= Release)
                                ELSE promising /\ confirm + 1 >= Confirm
      /\ state'.detected \in BOOLEAN
  BY <1>2 DEF Green!Detected
<1> HIDE DEF ready, promising, fading, detected, extra
<1>5. /\ confirm' \in Nat /\ release' \in Nat /\ entering' \in Nat /\ leaving' \in Nat
  BY <1>2, <1>3 DEF GreenInv
<1>6. CASE state.detected
  <2>1. release = leaving /\ leaving < Release /\ leaving \in Nat /\ entering \in Nat
    BY <1>6 DEF GreenInv
  <2>2. /\ ~state'.detected => confirm' = entering' /\ entering' < Confirm
        /\ state'.detected => release' = leaving' /\ leaving' < Release
        /\ ~state'.detected => leaving' >= Release \/ ~state'.ready
    BY <1>6, <2>1, <1>1, <1>2, <1>3, <1>4
  <2> QED
    BY <1>6, <2>2, <1>2, <1>4, <1>5 DEF GreenInv, Green!Idle
<1>7. CASE ~state.detected
  <2>1. confirm = entering /\ entering < Confirm /\ leaving \in Nat /\ entering \in Nat
    BY <1>7 DEF GreenInv
  <2>2. /\ ~state'.detected => confirm' = entering' /\ entering' < Confirm
        /\ state'.detected => release' = leaving' /\ leaving' < Release
        /\ state'.detected => entering' >= Confirm
    BY <1>7, <2>1, <1>1, <1>2, <1>3, <1>4
  <2> QED
    BY <1>7, <2>2, <1>2, <1>4, <1>5 DEF GreenInv, Green!Idle
<1> QED
  BY <1>6, <1>7

\* Nothing else moves them, save that a disabled phase forgets everything.
LEMMA GreenStep ==
    ASSUME GreenInv, [Green!Next]_greenVars
    PROVE  /\ GreenInv'
           /\ ~state.detected /\ state'.detected => entering' >= Confirm
           /\ state.detected /\ ~state'.detected => leaving' >= Release \/ ~state'.ready
<1> USE AdmissionAssumption
<1>1. CASE Green!Reset
  BY <1>1 DEF GreenInv, Green!Reset, Green!NoState
<1>2. CASE Green!ReadRows
  BY <1>2 DEF GreenInv, Green!ReadRows
<1>3. CASE Green!ReadFails
  BY <1>3 DEF GreenInv, Green!ReadFails, Green!Idle
<1>4. CASE Green!Analyze
  BY <1>4, AnalyzeStep
<1>5. CASE Green!CloseDeal
  <2>1. PICK row : closes' = closes \cup {row}
    BY <1>5 DEF Green!CloseDeal
  <2>2. IsFiniteSet(closes')
    BY <2>1, FS_AddElement DEF GreenInv
  <2> QED
    BY <1>5, <2>2 DEF GreenInv, Green!CloseDeal
<1>6. CASE Green!Clock
  BY <1>6 DEF GreenInv, Green!Clock
<1>7. CASE Green!ConfigChange
  BY <1>7 DEF GreenInv, Green!ConfigChange
<1>8. CASE UNCHANGED greenVars
  BY <1>8 DEF GreenInv, greenVars
<1> QED
  BY <1>1, <1>2, <1>3, <1>4, <1>5, <1>6, <1>7, <1>8 DEF Green!Next

-----------------------------------------------------------------------------
(***************************************************************************)
(* The extra deals.  A resolution reads the reserve of the open deals, then *)
(* the free balance, and the deal it admits opens later still: until then   *)
(* safety orders cost as much as they free of the reserve, and closed deals *)
(* free both.                                                               *)
(***************************************************************************)
AutoInv ==
    /\ deals \in [0 .. SafetyOrders -> Int]
    /\ quote \in Int /\ green \in Nat
    /\ run.pc \in {"idle", "balance", "persist", "write", "done"}
    /\ DOMAIN run = {"pc", "mode", "base", "locked", "reserve", "extra"}
    /\ grant.extra \in Nat
    /\ run.pc = "balance" => run.locked \in Int /\ run.reserve \in Int /\ run.extra \in Nat
    /\ run.pc = "balance" /\ ~crossed => Pilot!OpenReserve <= run.reserve
    /\ run.pc \in {"persist", "write", "done"} /\ ~crossed /\ grant.extra > 0 =>
           quote >= Pilot!OpenReserve + Pilot!FullTradeBudget

\* What the open deals still reserve, deal by deal.
Reserves(d) == [n \in 0 .. SafetyOrders |-> d[n] * (SafetyOrders - n)]
Reserve(d) == SumFunction(Reserves(d))

\* It is what a resolution adds up,
LEMMA ReserveIs == Pilot!OpenReserve = Reserve(deals)
<1>1. [n \in 0 .. SafetyOrders |->
          deals[n] * [k \in 0 .. SafetyOrders |-> Pilot!RemainingReserve(k)][n]]
      = Reserves(deals)
  BY DEF Pilot!RemainingReserve, Reserves
<1>2. Pilot!SumFunction(Reserves(deals)) = SumFunction(Reserves(deals))
  BY DEF Pilot!SumFunction, SumFunction, Pilot!SumFunctionOnSet, SumFunctionOnSet,
         Pilot!FoldFunctionOnSet, FoldFunctionOnSet, Pilot!MapThenFoldSet, MapThenFoldSet
<1> QED
  BY <1>1, <1>2 DEF Pilot!OpenReserve, Pilot!OverDeals, Reserve

\* a number,
LEMMA ReserveType ==
    ASSUME NEW d \in [0 .. SafetyOrders -> Int]
    PROVE  /\ Reserves(d) \in [0 .. SafetyOrders -> Int]
           /\ Reserve(d) \in Int
<1> USE AdmissionAssumption
<1>1. Reserves(d) \in [0 .. SafetyOrders -> Int]
  <2>1. \A n \in 0 .. SafetyOrders : d[n] \in Int /\ SafetyOrders - n \in Int
    OBVIOUS
  <2>2. \A a \in Int, b \in Int : a * b \in Int
    OBVIOUS
  <2> QED
    BY <2>1, <2>2 DEF Reserves
<1>2. IsFiniteSet(0 .. SafetyOrders)
  BY FS_Interval
<1> HIDE DEF Reserves
<1> QED
  BY <1>1, <1>2, SumIsInt DEF Reserve

\* and one deal more or less, at some place of the ladder, moves it.
LEMMA ReserveMoves ==
    ASSUME NEW d \in [0 .. SafetyOrders -> Int], NEW n \in 0 .. SafetyOrders, NEW by \in Int
    PROVE  /\ [d EXCEPT ![n] = @ + by] \in [0 .. SafetyOrders -> Int]
           /\ Reserve([d EXCEPT ![n] = @ + by]) = Reserve(d) + by * (SafetyOrders - n)
<1> USE AdmissionAssumption
<1> DEFINE e == [d EXCEPT ![n] = @ + by]
           f == Reserves(d)
           g == Reserves(e)
<1>1. e \in [0 .. SafetyOrders -> Int] /\ e[n] = d[n] + by
      /\ \A m \in (0 .. SafetyOrders) \ {n} : e[m] = d[m]
  OBVIOUS
<1>2. \A a \in Int, b \in Int : a * b \in Int
  OBVIOUS
<1>3. \A c \in [0 .. SafetyOrders -> Int] :
        /\ Reserves(c) \in [0 .. SafetyOrders -> Int]
        /\ \A m \in 0 .. SafetyOrders : Reserves(c)[m] = c[m] * (SafetyOrders - m)
  BY <1>2 DEF Reserves
<1> HIDE DEF e
<1>4. /\ f \in [0 .. SafetyOrders -> Int] /\ g \in [0 .. SafetyOrders -> Int]
      /\ f[n] = d[n] * (SafetyOrders - n) /\ g[n] = (d[n] + by) * (SafetyOrders - n)
      /\ \A m \in (0 .. SafetyOrders) \ {n} : f[m] = g[m]
  BY <1>1, <1>3 DEF e
<1> HIDE DEF f, g
<1>5. SumFunction(g) = SumFunction(f) - f[n] + g[n] /\ SumFunction(f) \in Int
  <2> DEFINE S == 0 .. SafetyOrders
  <2>1. IsFiniteSet(S)
    BY FS_Interval
  <2>2. /\ n \in S /\ f \in [S -> Int] /\ g \in [S -> Int]
        /\ \A m \in S \ {n} : f[m] = g[m]
    BY <1>4
  <2> HIDE DEF S
  <2>3. SumFunction(g) = SumFunction(f) - f[n] + g[n]
    BY ONLY <2>1, <2>2, SumUpdate
  <2>4. SumFunction(f) \in Int
    BY ONLY <2>1, <2>2, SumIsInt
  <2> QED
    BY <2>3, <2>4
<1>6. \A a \in Int, b \in Int, c \in Int : (a + b) * c = a * c + b * c
  OBVIOUS
<1>7. g[n] = f[n] + by * (SafetyOrders - n)
  BY <1>4, <1>6
<1>8. f[n] \in Int /\ by * (SafetyOrders - n) \in Int
  BY <1>4, <1>2
<1> QED
  BY <1>1, <1>5, <1>7, <1>8 DEF Reserve, e, f, g

\* A deal that comes to a place of the ladder, and one that leaves it.
LEMMA ReserveSteps ==
    ASSUME NEW d \in [0 .. SafetyOrders -> Int], NEW n \in 0 .. SafetyOrders
    PROVE  /\ [d EXCEPT ![n] = @ + 1] \in [0 .. SafetyOrders -> Int]
           /\ Reserve([d EXCEPT ![n] = @ + 1]) = Reserve(d) + (SafetyOrders - n)
           /\ [d EXCEPT ![n] = @ - 1] \in [0 .. SafetyOrders -> Int]
           /\ Reserve([d EXCEPT ![n] = @ - 1]) = Reserve(d) - (SafetyOrders - n)
<1> USE AdmissionAssumption
<1>1. [d EXCEPT ![n] = @ - 1] = [d EXCEPT ![n] = @ + (-1)]
  OBVIOUS
<1>2. \A a \in Int : 1 * a = a /\ (-1) * a = -a
  OBVIOUS
<1>3. SafetyOrders - n \in Int /\ Reserve(d) \in Int
  BY ReserveType
<1>4. /\ Reserve([d EXCEPT ![n] = @ + 1]) = Reserve(d) + 1 * (SafetyOrders - n)
      /\ Reserve([d EXCEPT ![n] = @ + (-1)]) = Reserve(d) + (-1) * (SafetyOrders - n)
  BY ReserveMoves, 1 \in Int, -1 \in Int
<1> QED
  BY <1>1, <1>2, <1>3, <1>4

\* What the open deals have cost is a number as well.
LEMMA LockedIsInt ==
    ASSUME deals \in [0 .. SafetyOrders -> Int]
    PROVE  Pilot!FundsLocked \in Int
<1> USE AdmissionAssumption
<1> DEFINE f == [n \in 0 .. SafetyOrders |-> deals[n] * (1 + n)]
<1>1. f \in [0 .. SafetyOrders -> Int]
  <2>1. \A n \in 0 .. SafetyOrders : deals[n] \in Int /\ 1 + n \in Int
    OBVIOUS
  <2>2. \A a \in Int, b \in Int : a * b \in Int
    OBVIOUS
  <2> QED
    BY <2>1, <2>2
<1>2. [n \in 0 .. SafetyOrders |-> deals[n] * [k \in 0 .. SafetyOrders |-> 1 + k][n]] = f
  OBVIOUS
<1> HIDE DEF f
<1>3. Pilot!SumFunction(f) = SumFunction(f)
  BY DEF Pilot!SumFunction, SumFunction, Pilot!SumFunctionOnSet, SumFunctionOnSet,
         Pilot!FoldFunctionOnSet, FoldFunctionOnSet, Pilot!MapThenFoldSet, MapThenFoldSet
<1>4. IsFiniteSet(0 .. SafetyOrders)
  BY FS_Interval
<1> QED
  BY <1>1, <1>2, <1>3, <1>4, SumIsInt DEF Pilot!FundsLocked, Pilot!OverDeals

\* At first nothing is open and nothing is granted.
LEMMA AutoInit == Pilot!Init => AutoInv
<1> SUFFICES ASSUME Pilot!Init
             PROVE  AutoInv
  OBVIOUS
<1> USE AdmissionAssumption
<1>1. deals \in [0 .. SafetyOrders -> Int] /\ quote \in Int /\ green = 0 /\ grant.extra = 0
  BY DEF Pilot!Init, Pilot!NoGrant
<1> QED
  BY <1>1 DEF AutoInv, Pilot!Init, Pilot!Idle

\* The guardrails grant nothing, or as many deals as are funded.
LEMMA GrantedIsFunded ==
    ASSUME NEW wanted \in Nat, NEW locked, NEW reserve, NEW free,
           NEW e, e = Pilot!Granted(wanted, locked, reserve, free)
    PROVE  \/ e = 0
           \/ e \in Nat \ {0} /\ Pilot!Funded(e, locked, reserve, free)
<1> DEFINE most == IF wanted < MaxExtra THEN wanted ELSE MaxExtra
           fit == {k \in 1 .. most : Pilot!Funded(k, locked, reserve, free)}
<1>1. CASE fit = {}
  BY <1>1 DEF Pilot!Granted
<1>2. CASE fit # {}
  <2>1. most \in Nat
    BY AdmissionAssumption
  <2>2. \E k \in fit : \A f \in fit : f <= k
    <3> DEFINE Above == {T \in SUBSET (1 .. most) : \E u \in Nat : T = 1 .. u /\ fit \subseteq T}
    <3>1. 1 .. most \in Above
      BY <2>1
    <3>2. PICK T \in Above : \A U \in Above : U \subseteq T => U = T
      <4> DEFINE R == 1 .. most
      <4>1. IsFiniteSet(R)
        BY <2>1, FS_Interval
      <4>2. Above \subseteq SUBSET R /\ Above # {}
        BY <3>1
      <4> HIDE DEF Above, most, R
      <4> QED
        BY <4>1, <4>2, SubsetMinimal
    <3>3. PICK u \in Nat : T = 1 .. u /\ fit \subseteq 1 .. u
      BY <3>2
    <3>4. u # 0
      BY <1>2, <3>3
    <3>5. u \in fit
      <4>1. SUFFICES ASSUME u \notin fit
                     PROVE  FALSE
        OBVIOUS
      <4>2. u - 1 \in Nat /\ fit \subseteq 1 .. (u - 1) /\ 1 .. (u - 1) \subseteq 1 .. u
        BY <3>3, <3>4, <4>1
      <4>3. 1 .. (u - 1) \in Above
        BY <3>2, <3>3, <4>2
      <4>4. 1 .. (u - 1) = 1 .. u
        BY <3>2, <3>3, <4>2, <4>3
      <4>5. u \in 1 .. u /\ u \notin 1 .. (u - 1)
        BY <3>4
      <4> QED
        BY <4>4, <4>5
    <3> QED
      BY <3>3, <3>5
  <2>3. e = CHOOSE k \in fit : \A f \in fit : f <= k
    BY <1>2 DEF Pilot!Granted
  <2>4. e \in fit
    BY <2>2, <2>3
  <2> QED
    BY <2>1, <2>4
<1> QED
  BY <1>1, <1>2

\* What a fresh grant needs: the reserve has not grown since it was read.
LEMMA GuardrailsStep ==
    ASSUME AutoInv, Pilot!Guardrails
    PROVE  AutoInv'
<1> USE AdmissionAssumption
<1>1. PICK free \in {quote, MaxFund - run.locked} :
        LET e == Pilot!Granted(run.extra, run.locked, run.reserve, free)
        IN  /\ run.pc = "balance"
            /\ grant' = [limit |-> Pilot!Limit(run.mode, e), extra |-> e]
            /\ crossed' = (crossed \/ free > quote)
            /\ run' = [run EXCEPT !.pc = "persist"]
            /\ UNCHANGED <<enabled, deals, quote, green, mode>>
  BY DEF Pilot!Guardrails
<1> DEFINE e == Pilot!Granted(run.extra, run.locked, run.reserve, free)
<1>2. e = 0 \/ (e \in Nat \ {0} /\ Pilot!Funded(e, run.locked, run.reserve, free))
  BY <1>1, GrantedIsFunded DEF AutoInv
<1>3. grant'.extra = e /\ run'.pc = "persist" /\ DOMAIN run' = DOMAIN run
  BY <1>1 DEF AutoInv
<1> HIDE DEF e
<1>4. ASSUME ~crossed', e # 0
      PROVE  quote >= Pilot!OpenReserve + Pilot!FullTradeBudget
  <2>1. run.pc = "balance" /\ ~crossed /\ ~(free > quote)
    BY <1>1, <1>4
  <2>6. quote \in Int /\ run.locked \in Int /\ run.reserve \in Int
        /\ Pilot!OpenReserve <= run.reserve
    BY <2>1 DEF AutoInv
  <2>7. free \in Int /\ free <= quote
    BY <1>1, <2>1, <2>6
  <2>2. Pilot!OpenReserve \in Int /\ quote \in Int
    BY ReserveIs, ReserveType DEF AutoInv
  <2>3. Pilot!FullTradeBudget = 1 + SafetyOrders
    BY DEF Pilot!FullTradeBudget, Pilot!RemainingReserve
  <2>4. e * (1 + SafetyOrders) >= 1 + SafetyOrders /\ e * (1 + SafetyOrders) \in Int
    <3>1. e - 1 \in Nat /\ 1 + SafetyOrders \in Nat
      BY <1>2, <1>4
    <3>2. \A a \in Nat, b \in Nat : a * b \in Nat /\ (a + 1) * b = a * b + b
      OBVIOUS
    <3>3. ((e - 1) + 1) * (1 + SafetyOrders) = (e - 1) * (1 + SafetyOrders) + (1 + SafetyOrders)
      BY <3>1, <3>2
    <3>4. (e - 1) * (1 + SafetyOrders) \in Nat /\ (e - 1) + 1 = e
      BY <3>1, <3>2, <1>2
    <3> QED
      BY <3>1, <3>3, <3>4
  <2>5. free >= run.reserve + e * (1 + SafetyOrders)
    BY <1>2, <1>4, <2>3 DEF Pilot!Funded
  <2> QED
    BY <2>2, <2>3, <2>4, <2>5, <2>6, <2>7
<1>5. Pilot!OpenReserve' = Pilot!OpenReserve /\ Pilot!FullTradeBudget' = Pilot!FullTradeBudget
  BY <1>1 DEF Pilot!OpenReserve, Pilot!OverDeals, Pilot!RemainingReserve, Pilot!FullTradeBudget
<1> QED
  BY <1>1, <1>2, <1>3, <1>4, <1>5 DEF AutoInv

\* A deal that opens takes what one extra deal is granted, and no other opens in between; a
\* safety order takes from the balance what it frees of the reserve.
LEMMA AutoStep ==
    ASSUME AutoInv, [Pilot!Next]_autoVars
    PROVE  /\ AutoInv'
           /\ (/\ run.pc = "done" /\ run'.pc = "idle" /\ deals' # deals
               /\ grant.extra > 0 /\ ~crossed) => quote' >= Pilot!OpenReserve'
<1> USE AdmissionAssumption
<1> DEFINE Opening == /\ run.pc = "done" /\ run'.pc = "idle" /\ deals' # deals
                      /\ grant.extra > 0 /\ ~crossed
<1>1. /\ Pilot!OpenReserve = Reserve(deals) /\ Pilot!OpenReserve' = Reserve(deals')
      /\ Reserve(deals) \in Int
      /\ Pilot!FullTradeBudget = 1 + SafetyOrders /\ Pilot!FullTradeBudget' = 1 + SafetyOrders
  <2>1. (Pilot!OpenReserve = Reserve(deals))'
    BY ReserveIs, PTL
  <2> QED
    BY <2>1, ReserveIs, ReserveType DEF AutoInv, Pilot!FullTradeBudget, Pilot!RemainingReserve
<1>2. deals \in [0 .. SafetyOrders -> Int] /\ 0 \in 0 .. SafetyOrders
  BY DEF AutoInv
<1>3. Pilot!Opened \in [0 .. SafetyOrders -> Int]
      /\ Reserve(Pilot!Opened) = Reserve(deals) + SafetyOrders
  <2>1. Reserve([deals EXCEPT ![0] = @ + 1]) = Reserve(deals) + (SafetyOrders - 0)
    BY <1>2, ReserveSteps
  <2>2. [deals EXCEPT ![0] = @ + 1] \in [0 .. SafetyOrders -> Int]
    BY <1>2, ReserveSteps
  <2> QED
    BY <2>1, <2>2 DEF Pilot!Opened
<1>4. CASE Pilot!ResolveOff
  BY <1>1, <1>4 DEF AutoInv, Pilot!ResolveOff, Pilot!Idle
<1>5. CASE Pilot!Resolve
  <2>1. Pilot!FundsLocked \in Int
    BY LockedIsInt DEF AutoInv
  <2> QED
    BY <1>1, <1>5, <2>1 DEF AutoInv, Pilot!Resolve
<1>6. CASE Pilot!Guardrails
  BY <1>6, GuardrailsStep DEF Pilot!Guardrails
<1>7. CASE Pilot!PersistMode
  BY <1>1, <1>7 DEF AutoInv, Pilot!PersistMode
<1>8. CASE Pilot!WriteMode
  BY <1>1, <1>8 DEF AutoInv, Pilot!WriteMode
<1>9. CASE Pilot!WriteFails
  BY <1>1, <1>9 DEF AutoInv, Pilot!WriteFails, Pilot!Idle
<1>10. CASE Pilot!OpenDeal
  <2>1. deals' = Pilot!Opened /\ quote' = quote - 1 /\ run' = Pilot!Idle /\ run.pc = "done"
        /\ UNCHANGED <<enabled, green, mode, grant, crossed>>
    BY <1>10 DEF Pilot!OpenDeal
  <2> QED
    BY <1>1, <1>3, <2>1 DEF AutoInv, Pilot!Idle
<1>11. CASE Pilot!Discard
  BY <1>1, <1>11 DEF AutoInv, Pilot!Discard, Pilot!Idle
<1>12. CASE Pilot!ManualDeal
  BY <1>1, <1>3, <1>12 DEF AutoInv, Pilot!ManualDeal
<1>13. CASE Pilot!BuySafetyOrder
  <2>1. PICK n \in 0 .. SafetyOrders - 1 :
              /\ deals' = [deals EXCEPT ![n] = @ - 1, ![n + 1] = @ + 1]
              /\ quote' = quote - 1
              /\ UNCHANGED <<enabled, green, run, mode, grant, crossed>>
    BY <1>13 DEF Pilot!BuySafetyOrder
  <2> DEFINE first == [deals EXCEPT ![n] = @ - 1]
  <2>2. n \in 0 .. SafetyOrders /\ n + 1 \in 0 .. SafetyOrders /\ n # n + 1
    OBVIOUS
  <2>3. /\ first \in [0 .. SafetyOrders -> Int]
        /\ Reserve(first) = Reserve(deals) - (SafetyOrders - n)
    BY <1>2, <2>2, ReserveSteps
  <2>4. deals' = [first EXCEPT ![n + 1] = @ + 1]
    BY <1>2, <2>1, <2>2
  <2> HIDE DEF first
  <2>5. /\ deals' \in [0 .. SafetyOrders -> Int]
        /\ Reserve(deals') = Reserve(first) + (SafetyOrders - (n + 1))
    BY <2>2, <2>3, <2>4, ReserveSteps
  <2>6. Reserve(deals') = Reserve(deals) - 1
    BY <1>1, <2>2, <2>3, <2>5
  <2> QED
    BY <1>1, <2>1, <2>5, <2>6, SMTT(60) DEF AutoInv
<1>14. CASE Pilot!CloseDeal
  <2>1. PICK n \in 0 .. SafetyOrders :
              /\ deals' = [deals EXCEPT ![n] = @ - 1]
              /\ quote' = quote + 1 + n
              /\ UNCHANGED <<enabled, green, run, mode, grant, crossed>>
    BY <1>14 DEF Pilot!CloseDeal
  <2>2. /\ deals' \in [0 .. SafetyOrders -> Int]
        /\ Reserve(deals') = Reserve(deals) - (SafetyOrders - n)
    BY <1>2, <2>1, ReserveSteps
  <2> QED
    BY <1>1, <2>1, <2>2 DEF AutoInv
<1>15. CASE Pilot!GreenPhaseChanges
  BY <1>1, <1>15 DEF AutoInv, Pilot!GreenPhaseChanges
<1>16. CASE Pilot!Switch
  BY <1>1, <1>16 DEF AutoInv, Pilot!Switch
<1>17. CASE Pilot!Restart
  BY <1>1, <1>17 DEF AutoInv, Pilot!Restart, Pilot!Idle
<1>18. CASE UNCHANGED autoVars
  BY <1>1, <1>18 DEF AutoInv, autoVars
<1> QED
  BY <1>4, <1>5, <1>6, <1>7, <1>8, <1>9, <1>10, <1>11, <1>12, <1>13, <1>14, <1>15, <1>16,
     <1>17, <1>18 DEF Pilot!Next
-----------------------------------------------------------------------------
(***************************************************************************)
(* The symbol memory.  A refresh that fails must leave its mark in both    *)
(* copies: the one in memory is read, the stored one replaces it at a      *)
(* restart.                                                                *)
(***************************************************************************)
States == [status : {"empty", "warming_up", "fresh", "stale"},
           reason : {"none", "refresh_failed", "snapshot_expired"}, success : Int]

MemoryInv ==
    /\ clock \in Int
    /\ mem \in States /\ stored.state \in States /\ refresh.state \in States
    /\ DOMAIN stored = {"state", "profiles"}
    /\ DOMAIN refresh = {"pc", "state", "profiles", "events"}
    /\ failed \in BOOLEAN /\ unmarked \in BOOLEAN
    /\ failed /\ ~unmarked /\ refresh.pc # "mark" =>
           mem.status = "stale" /\ stored.state.status = "stale"

\* A refresh that is over, or goes on elsewhere, holds nothing.
LEMMA NoRefresh ==
    /\ Memory!Empty \in States
    /\ \A p : LET r == [Memory!Idle EXCEPT !.pc = p]
              IN  r.pc = p /\ r.state = Memory!Empty
                  /\ DOMAIN r = {"pc", "state", "profiles", "events"}
    /\ Memory!Idle.pc = "idle" /\ Memory!Idle.state = Memory!Empty
    /\ DOMAIN Memory!Idle = {"pc", "state", "profiles", "events"}
<1>1. Memory!Empty \in States
  BY DEF Memory!Empty, States
<1> QED
  BY <1>1 DEF Memory!Idle

\* What is read is the snapshot, or the snapshot with a warning.
LEMMA CurrentState ==
    ASSUME MemoryInv
    PROVE  /\ Memory!Current \in States
           /\ Memory!Current.status = "fresh" =>
                  mem.status = "fresh" /\ clock - mem.success <= StaleAfter
<1> DEFINE old == clock - mem.success > StaleAfter /\ mem.status \notin {"empty", "warming_up"}
<1>1. CASE old
  <2>1. Memory!Current = [mem EXCEPT !.status = "stale",
                !.reason = IF @ = "none" THEN "snapshot_expired" ELSE @]
    BY <1>1 DEF Memory!Current
  <2>2. ASSUME NEW r \in States
        PROVE  LET q == [r EXCEPT !.status = "stale",
                           !.reason = IF @ = "none" THEN "snapshot_expired" ELSE @]
               IN  q \in States /\ q.status = "stale"
    BY DEF States
  <2> QED
    BY <2>1, <2>2 DEF MemoryInv
<1>2. CASE ~old
  <2>1. Memory!Current = mem
    BY <1>2 DEF Memory!Current
  <2>2. clock \in Int /\ mem.success \in Int /\ mem \in States /\ StaleAfter \in Int
    BY AdmissionAssumption DEF MemoryInv, States
  <2> QED
    BY <1>2, <2>1, <2>2
<1> QED
  BY <1>1, <1>2

\* Nothing has failed at first.
LEMMA MemoryInit == Memory!Init => MemoryInv
<1> SUFFICES ASSUME Memory!Init
             PROVE  MemoryInv
  OBVIOUS
<1>1. /\ stored.state = Memory!Empty /\ DOMAIN stored = {"state", "profiles"}
      /\ mem = Memory!Empty /\ refresh = Memory!Idle
      /\ clock \in Int
  BY DEF Memory!Init
<1>3. ~failed /\ failed \in BOOLEAN /\ unmarked \in BOOLEAN
  BY Zenon DEF Memory!Init
<1>2. Memory!Empty \in States /\ Memory!Idle.state = Memory!Empty
      /\ DOMAIN Memory!Idle = {"pc", "state", "profiles", "events"}
  BY NoRefresh
<1> QED
  BY <1>1, <1>2, <1>3 DEF MemoryInv

\* A refresh replaces both copies or marks both, and a marker that was not written is known.
LEMMA MemoryStep ==
    ASSUME MemoryInv, [Memory!Next]_memoryVars
    PROVE  MemoryInv'
<1>1. CASE Memory!Refresh
  BY <1>1 DEF MemoryInv, States, Memory!Refresh
<1>2. CASE Memory!Compute
  <2>1. Memory!Computed \in States
    <3>1. ASSUME NEW st \in {"warming_up", "fresh"}
          PROVE  [status |-> st, reason |-> "none", success |-> clock] \in States
      BY DEF MemoryInv, States
    <3> QED
      BY <3>1, NoRefresh DEF Memory!Computed
  <2> QED
    BY <1>2, <2>1 DEF MemoryInv, Memory!Compute
<1>3. CASE Memory!Persist
  BY <1>3, NoRefresh DEF MemoryInv, Memory!Persist
<1>4. CASE Memory!LoadEvents
  BY <1>4, NoRefresh DEF MemoryInv, Memory!LoadEvents
<1>5. CASE Memory!RefreshFails
  BY <1>5, NoRefresh DEF MemoryInv, Memory!RefreshFails
<1>6. CASE Memory!MarkStale
  <2> DEFINE marked == [Memory!Current EXCEPT !.status = "stale", !.reason = "refresh_failed"]
  <2>1. marked \in States /\ marked.status = "stale"
    <3>1. ASSUME NEW r \in States
          PROVE  LET q == [r EXCEPT !.status = "stale", !.reason = "refresh_failed"]
                 IN  q \in States /\ q.status = "stale"
      BY DEF States
    <3> QED
      BY <3>1, CurrentState
  <2>2. /\ stored' = [stored EXCEPT !.state = marked] /\ mem' = marked
        /\ refresh' = Memory!Idle
        /\ UNCHANGED <<clock, failed, unmarked>>
    BY <1>6 DEF Memory!MarkStale
  <2> HIDE DEF marked
  <2>3. stored'.state = marked /\ DOMAIN stored' = DOMAIN stored
    BY <2>2 DEF MemoryInv
  <2> QED
    BY <2>1, <2>2, <2>3, NoRefresh DEF MemoryInv
<1>7. CASE Memory!MarkFails
  BY <1>7, NoRefresh DEF MemoryInv, Memory!MarkFails
<1>8. CASE Memory!Restart
  BY <1>8, NoRefresh DEF MemoryInv, Memory!Restart
<1>9. CASE Memory!CloseDeal
  BY <1>9 DEF MemoryInv, Memory!CloseDeal
<1>10. CASE Memory!DeleteDeals
  BY <1>10 DEF MemoryInv, Memory!DeleteDeals
<1>11. CASE Memory!Clock
  BY <1>11 DEF MemoryInv, Memory!Clock
<1>12. CASE Memory!Switch
  BY <1>12 DEF MemoryInv, Memory!Switch
<1>13. CASE UNCHANGED memoryVars
  BY <1>13 DEF MemoryInv, memoryVars
<1> QED
  BY <1>1, <1>2, <1>3, <1>4, <1>5, <1>6, <1>7, <1>8, <1>9, <1>10, <1>11, <1>12, <1>13
  DEF Memory!Next

\* Trust is used only while the snapshot is fresh, and a marked one is not.
LEMMA TrustIsBacked == MemoryInv => TrustBacked
<1> SUFFICES ASSUME MemoryInv, NEW s \in Coins,
                    Memory!TakeProfit(s) # Baseline \/ Memory!Ranked(s)
             PROVE  /\ clock - mem.success <= StaleAfter
                    /\ failed => unmarked \/ refresh.pc = "mark"
  BY DEF TrustBacked, Memory!TrustBacked
<1>1. Memory!Current.status = "fresh"
  BY DEF Memory!TakeProfit, Memory!Ranked
<1> QED
  BY <1>1, CurrentState DEF MemoryInv

-----------------------------------------------------------------------------
(***************************************************************************)
(* The instance: a step of it is a step of one part, and stutters in the   *)
(* others.                                                                 *)
(***************************************************************************)
allVars == <<part, vars, greenVars, autoVars, memoryVars>>

\* What a step of the instance is to each of its parts.
LEMMA PartSteps ==
    ASSUME [MCNext]_allVars
    PROVE  /\ [Next]_vars /\ [Green!Next]_greenVars
           /\ [Pilot!Next]_autoVars /\ [Memory!Next]_memoryVars
<1>1. CASE part = "admission" /\ OfAdmission(Next)
  BY <1>1 DEF OfAdmission
<1>2. CASE part = "green" /\ OfGreen(Green!Next)
  BY <1>2 DEF OfGreen
<1>3. CASE part = "auto" /\ OfAuto(Pilot!Next)
  BY <1>3 DEF OfAuto
<1>4. CASE part = "memory" /\ OfMemory(Memory!Next)
  BY <1>4 DEF OfMemory
<1>5. CASE UNCHANGED allVars
  BY <1>5 DEF allVars
<1> QED
  BY <1>1, <1>2, <1>3, <1>4, <1>5 DEF MCNext

\* The phase is neither nervous nor deaf (green_phase_logic.py 166-200): whatever closes, fails
\* and is reconfigured between the evaluations, it is entered and left by whole streaks.
THEOREM PhaseIsSteady == MCSpec => Hysteresis
<1> DEFINE Streaks == /\ entering = Confirm => state.detected
                      /\ leaving = Release => ~state.detected
           Turns == /\ ~state.detected /\ state'.detected => entering' >= Confirm
                    /\ state.detected /\ ~state'.detected => leaving' >= Release \/ ~state'.ready
<1>1. MCInit => GreenInv
  BY GreenInit DEF MCInit
<1>2. GreenInv /\ [MCNext]_allVars => GreenInv' /\ [Turns]_greenVars
  BY GreenStep, PartSteps
<1>3. GreenInv => Streaks
  BY AdmissionAssumption DEF GreenInv
<1>4. []Streaks /\ [][Turns]_greenVars => Hysteresis
  BY DEF Hysteresis, Green!Hysteresis, greenVars, Green!greenVars
<1> HIDE DEF Streaks, Turns
<1> QED
  BY <1>1, <1>2, <1>3, <1>4, PTL DEF MCSpec, allVars

\* An extra deal leaves enough for the safety orders of every open deal
\* (green_phase_logic.py 285-336), whatever is bought and sold between the two reads of the
\* resolution and after them.
THEOREM ExtraDealsAreFunded == MCSpec => ExtraDealsFunded
<1> DEFINE Opens == (/\ run.pc = "done" /\ run'.pc = "idle" /\ deals' # deals
                     /\ grant.extra > 0 /\ ~crossed) => quote' >= Pilot!OpenReserve'
<1>1. MCInit => AutoInv
  BY AutoInit DEF MCInit
<1>2. AutoInv /\ [MCNext]_allVars => AutoInv' /\ [Opens]_autoVars
  BY AutoStep, PartSteps
<1>3. [][Opens]_autoVars => ExtraDealsFunded
  BY DEF ExtraDealsFunded, Pilot!ExtraDealsFunded, autoVars, Pilot!autoVars
<1> HIDE DEF Opens
<1> QED
  BY <1>1, <1>2, <1>3, PTL DEF MCSpec, allVars

\* Trust moves prices and ranks only while the last refresh succeeded and is recent
\* (autopilot_memory.py 577-617, 778-850), through failures, markers and restarts.
THEOREM TrustIsRecent == MCSpec => []TrustBacked
<1>1. MCInit => MemoryInv
  BY MemoryInit DEF MCInit
<1>2. MemoryInv /\ [MCNext]_allVars => MemoryInv'
  BY MemoryStep, PartSteps
<1> QED
  BY <1>1, <1>2, TrustIsBacked, PTL DEF MCSpec, allVars

\* The instance is one of admission: what its specification promises holds of it.
THEOREM InstanceIsAdmission == MCSpec => Spec
<1>1. MCInit => Init
  BY DEF MCInit
<1>2. [MCNext]_allVars => [Next]_vars
  BY PartSteps
<1> QED
  BY <1>1, <1>2, PTL DEF MCSpec, Spec, allVars
==============================================================================
