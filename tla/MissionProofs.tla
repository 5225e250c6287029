------------------------------ MODULE MissionProofs ------------------------------
(***************************************************************************)
(* MissionsAgree and MissionBookedOnce for any number of campaigns, legs,   *)
(* mode switches and whatever a leg may earn. Neither is inductive. A mission *)
(* ends with the amount a sale computed some steps before from the row as it *)
(* was then, so the invariant follows every task that has sold: unless a     *)
(* dashboard request crossed it, it will write what the mission has earned.  *)
(***************************************************************************)
EXTENDS Missions, TLAPS

States == {"none", "active", "waiting", "done", "stopped"}

Rows == [leg : Nat, camp : Campaigns \cup {0}, mode : {"none", "classic", "sidestep"},
         exposure : {"none", "long", "waiting"}, paused : BOOLEAN]

Camps == [state : States, realized : Int, cooling : BOOLEAN, paused : BOOLEAN]

Contexts == [camp : Campaigns \cup {0}, create : BOOLEAN, state : States, realized : Int,
             profit : Int]

Tasks ==
    [pc : {"idle", "buying", "bought", "selling", "sold", "stopping", "pausing", "ensure",
           "lookup", "repair", "search", "attach", "act"},
     kind : {"none", "entry", "reentry", "safety", "exit", "tp", "sl", "manual", "stop",
             "pause", "resume", "tick"},
     snap : Rows, ctx : Contexts, found : Rows]

TypeInv ==
    /\ row \in Rows /\ camps \in [Campaigns -> Camps]
    /\ actor \in [Actors -> Tasks]
    /\ legs \in Nat
    /\ earned \in [Campaigns \cup {0} -> Int] /\ closed \in [Campaigns \cup {0} -> Int]

Live(c) == camps[c].state \in LiveStates
Ended(c) == camps[c].state \in {"done", "stopped"}
Selling == {"selling", "sold"}

\* A task names campaigns that exist, or the one it is about to create.
NamesInv(t) ==
    /\ t.snap.camp # 0 => t.snap.camp \in Created
    /\ t.ctx.camp # 0 /\ ~t.ctx.create => t.ctx.camp \in Created
    /\ t.found.camp # 0 => t.found.camp \in Created

\* Only a new deal and a tick that finds none create a campaign; a mission that is bought
\* back keeps its own.
BuysInv(a, t) ==
    /\ t.ctx.create =>
         /\ \/ a = "bot" /\ t.kind = "entry" /\ t.pc = "bought"
            \/ a = "worker" /\ t.pc = "attach"
         /\ t.ctx.camp # 0 /\ t.ctx.realized = 0
         /\ camps[t.ctx.camp].state = "none" \/ t.ctx.camp \in crossed
    /\ t.pc = "attach" => t.ctx.camp # 0
    /\ t.pc \in {"buying", "bought"} =>
         /\ t.kind \in {"entry", "reentry", "safety"}
         /\ t.kind = "entry" <=> a = "bot"
         /\ t.kind = "reentry" => t.snap.camp # 0
    /\ t.pc = "bought" =>
         /\ t.ctx.camp # 0 => t.ctx.state = "active"
         /\ t.kind = "reentry" => t.ctx.camp # 0

\* The context of a sale says how the mission goes on.
SellsInv(a, t) ==
    /\ t.pc \in Selling => a # "bot"
    /\ t.pc = "stopping" => a = "dash" /\ t.ctx.state = "stopped"
    /\ t.pc \in Selling /\ t.kind = "exit" => Created # {} /\ a = "worker"
    /\ t.pc = "sold" /\ t.kind = "exit" => t.ctx.camp # 0 /\ t.ctx.state = "waiting"
    /\ t.pc = "sold" /\ t.kind # "exit" => t.ctx.state \in {"done", "stopped"}

TaskInv(a, t) == NamesInv(t) /\ BuysInv(a, t) /\ SellsInv(a, t)

\* The row names a live campaign, or one that was crossed; no other opens while one is bought.
RowInv ==
    /\ row.camp # 0 => row.camp \in Created /\ (Live(row.camp) \/ row.camp \in crossed)
    /\ actor["bot"].pc # "idle" => row = NoRow \/ row.camp # 0

\* Two tasks never create the same campaign.
ApartInv ==
    \A a, b \in Actors :
        a # b /\ actor[a].ctx.create /\ actor[b].ctx.create => actor[a].ctx.camp # actor[b].ctx.camp

\* One task sells at a time.
AloneInv == ~(actor["worker"].pc \in Selling /\ actor["dash"].pc \in Selling)

HasSold(a, c) == actor[a].pc = "sold" /\ actor[a].snap.camp = c

\* A live campaign is the row's, and says what its legs have earned, or whoever has sold the
\* last of them is about to write it.
LiveClean(c) ==
    /\ row.camp = c
    /\ camps[c].state = "waiting" <=> row.exposure = "waiting"
    /\ closed[c] = 0
    /\ \A a \in Actors : HasSold(a, c) => actor[a].ctx.camp = c /\ actor[a].ctx.realized = earned[c]
    /\ (\A a \in Actors : ~HasSold(a, c)) => camps[c].realized = earned[c]

\* One that has ended is booked, and nobody sells for it any more.
EndedClean(c) ==
    /\ closed[c] = earned[c]
    /\ \A a \in Actors : ~(actor[a].pc \in Selling /\ actor[a].snap.camp = c)

\* One that was not created yet has earned nothing.
Blank(c) == camps[c].state = "none" => camps[c].realized = 0 /\ earned[c] = 0 /\ closed[c] = 0

Clean(c) == c \notin crossed => (Live(c) => LiveClean(c)) /\ (Ended(c) => EndedClean(c))

MissionInv ==
    /\ TypeInv /\ RowInv /\ ApartInv /\ AloneInv
    /\ \A a \in Actors : TaskInv(a, actor[a])
    /\ \A c \in Campaigns : Clean(c) /\ Blank(c)

\* What a campaign is numbered by is a number, and so is what a leg earns.
Whole == MaxCampaigns \in Nat /\ Profits \subseteq Int

-----------------------------------------------------------------------------
\* The most recent of some campaigns is one of them.
LEMMA RecentIsOne ==
    ASSUME NEW S \in SUBSET Campaigns
    PROVE  /\ S = {} => Recent(S) = 0
           /\ S # {} => Recent(S) \in S
  BY DEF Recent

\* The campaigns that exist, and those of them that are active or live, are campaigns.
LEMMA Existing ==
    ASSUME Whole, TypeInv
    PROVE  /\ \A S : InState(S) \in SUBSET Campaigns
           /\ Created \in SUBSET Campaigns
           /\ InState({"active"}) \subseteq Created /\ InState(LiveStates) \subseteq Created
           /\ 0 \notin Campaigns /\ \A c \in Campaigns : c \in Created <=> camps[c].state # "none"
  BY DEF InState, Created, LiveStates, Campaigns, Whole

\* Before the first deal there is nothing to disagree about.
LEMMA MissionInit == Whole /\ Init => MissionInv
<1> SUFFICES ASSUME Whole, Init
             PROVE  MissionInv
  OBVIOUS
<1> USE DEF Init, NoRow, NoCampaign, Idle, NoContext
<1>1. 0 .. MaxCampaigns = Campaigns \cup {0}
  BY DEF Whole, Campaigns
<1>2. TypeInv
  BY <1>1 DEF TypeInv, Rows, Camps, States, Tasks, Contexts
<1>3. RowInv /\ ApartInv /\ AloneInv
  BY DEF RowInv, ApartInv, AloneInv, Actors, Selling
<1>4. \A a \in Actors : TaskInv(a, actor[a])
  BY DEF TaskInv, NamesInv, BuysInv, SellsInv, Selling
<1>5. \A c \in Campaigns : Clean(c) /\ Blank(c)
  BY <1>1 DEF Clean, Blank, Live, Ended, LiveStates
<1> QED
  BY <1>2, <1>3, <1>4, <1>5 DEF MissionInv

-----------------------------------------------------------------------------
(***************************************************************************)
(* The state keeps its shape.                                              *)
(***************************************************************************)
\* A task that ends forgets its snapshot.
LEMMA DoneType ==
    ASSUME TypeInv, NEW a \in Actors, Done(a)
    PROVE  /\ actor' \in [Actors -> Tasks] /\ actor'[a] = Idle
           /\ \A b \in Actors \ {a} : actor'[b] = actor[b]
<1>1. Idle \in Tasks
  BY DEF Idle, NoRow, NoContext, Tasks, Rows, Contexts, States
<1> QED
  BY <1>1 DEF Done, TypeInv

\* The row as the worker derives it is a row of the same campaign.
LEMMA DerivedType ==
    ASSUME Whole, TypeInv
    PROVE  Derived(row) \in Rows /\ Derived(row).camp = row.camp
<1> USE DEF TypeInv, Rows, Camps, States
<1>1. CASE row.camp = 0
  BY <1>1 DEF Derived
<1>2. CASE row.camp # 0
  <2>1. camps[row.camp] \in Camps
    BY <1>2
  <2> DEFINE x == CASE camps[row.camp].state = "waiting" -> "waiting"
                    [] camps[row.camp].state = "active" -> "long"
                    [] OTHER -> row.exposure
  <2>2. x \in {"none", "long", "waiting"}
    OBVIOUS
  <2>3. Derived(row) = [row EXCEPT !.mode = "sidestep", !.paused = camps[row.camp].paused,
                                   !.exposure = x]
    BY <1>2 DEF Derived
  <2> HIDE DEF x
  <2> QED
    BY <2>1, <2>2, <2>3
<1> QED
  BY <1>1, <1>2

\* What a sale is about to write is a context; so is what a buy is about to.
LEMMA CloseType ==
    ASSUME Whole, TypeInv, RowInv, NEW kind, NEW p \in Int
    PROVE  /\ CloseContext(kind, p) \in Contexts
           /\ CloseContext(kind, p).camp # 0 => CloseContext(kind, p).camp \in Created
           /\ ~CloseContext(kind, p).create
           /\ Created # {} => CloseContext(kind, p).camp # 0
<1> DEFINE c == IF row.camp # 0 THEN row.camp ELSE Recent(Created)
           r == (IF c = 0 THEN 0 ELSE camps[c].realized) + p
           st == CASE kind = "exit" -> "waiting" [] kind = "tp" -> "done" [] OTHER -> "stopped"
<1>1. Created \in SUBSET Campaigns /\ 0 \notin Campaigns
  BY Existing
<1>2. c \in Campaigns \cup {0}
  BY <1>1, RecentIsOne DEF TypeInv, Rows
<1>3. r \in Int
  BY <1>2, <1>1 DEF TypeInv, Camps
<1>4. st \in States
  BY DEF States
<1>5. CloseContext(kind, p) = [camp |-> c, create |-> FALSE, profit |-> p, realized |-> r, state |-> st]
  BY DEF CloseContext
<1>6. /\ c # 0 => c \in Created
      /\ Created # {} => c # 0
  BY <1>1, RecentIsOne DEF RowInv
<1> HIDE DEF c, r, st
<1> QED
  BY <1>1, <1>2, <1>3, <1>4, <1>5, <1>6 DEF Contexts

-----------------------------------------------------------------------------
(***************************************************************************)
(* The invariant is kept.                                                  *)
(***************************************************************************)
\* A task that does nothing stays as sound as it was, whatever the others create or cross.
LEMMA TaskKept ==
    ASSUME Whole, TypeInv, NEW a \in Actors, TaskInv(a, actor[a]), actor'[a] = actor[a],
           Created \subseteq Created', crossed \subseteq crossed',
           actor[a].ctx.create /\ camps[actor[a].ctx.camp].state = "none"
             => \/ camps'[actor[a].ctx.camp].state = "none"
                \/ actor[a].ctx.camp \in crossed'
    PROVE  TaskInv(a, actor[a])'
<1>1. NamesInv(actor[a])'
  BY DEF TaskInv, NamesInv
<1>2. BuysInv(a, actor[a])'
  BY DEF TaskInv, BuysInv
<1>3. SellsInv(a, actor[a])'
  BY DEF TaskInv, SellsInv
<1> QED
  BY <1>1, <1>2, <1>3 DEF TaskInv

\* A task that creates nothing new stays apart from the others.
LEMMA ApartKept ==
    ASSUME ApartInv, NEW a \in Actors, \A b \in Actors \ {a} : actor'[b] = actor[b],
           \/ ~actor'[a].ctx.create
           \/ actor'[a].ctx = actor[a].ctx
           \/ \A b \in Actors \ {a} : actor[b].ctx.camp # actor'[a].ctx.camp
    PROVE  ApartInv'
  BY DEF ApartInv

\* A step that neither sells nor writes a campaign: one task moves, nothing is crossed out.
LEMMA QuietStep ==
    ASSUME Whole, MissionInv, TypeInv',
           NEW a \in Actors, \A b \in Actors \ {a} : actor'[b] = actor[b],
           TaskInv(a, actor[a])',
           actor[a].pc # "sold", actor'[a].pc # "sold",
           actor'[a].pc = "selling" =>
             \/ actor'[a] = actor[a]
             \/ /\ actor'[a].snap.camp = row.camp
                /\ \A b \in Actors \ {a} : actor[b].pc \notin Selling,
           \/ ~actor'[a].ctx.create
           \/ actor'[a].ctx = actor[a].ctx
           \/ \A b \in Actors \ {a} : actor[b].ctx.camp # actor'[a].ctx.camp,
           actor["bot"].pc = "idle" /\ actor'["bot"].pc # "idle" => row = NoRow,
           \A c \in Campaigns : /\ camps'[c].state = camps[c].state
                                /\ camps'[c].realized = camps[c].realized,
           UNCHANGED <<earned, closed>>, crossed \subseteq crossed',
           row'.camp = row.camp, row = NoRow => row' = NoRow,
           \/ row'.exposure = row.exposure
           \/ row.camp = 0 \/ row.camp \in crossed'
           \/ row'.exposure = "waiting" <=> camps[row.camp].state = "waiting"
    PROVE  MissionInv'
<1> USE DEF MissionInv
<1>1. /\ Created \in SUBSET Campaigns /\ Created' = Created /\ 0 \notin Campaigns
      /\ \A c \in Campaigns : c \in Created <=> camps[c].state # "none"
  BY Existing DEF Created
<1>2. ASSUME NEW c \in Campaigns
      PROVE  (Live(c)' <=> Live(c)) /\ (Ended(c)' <=> Ended(c))
  BY DEF Live, Ended
<1>3. \A b \in Actors : TaskInv(b, actor[b])'
  <2> SUFFICES ASSUME NEW b \in Actors \ {a}
               PROVE  TaskInv(b, actor[b])'
    OBVIOUS
  <2>1. actor[b].ctx.create => actor[b].ctx.camp \in Campaigns
    BY DEF TypeInv, Tasks, Contexts, TaskInv, BuysInv
  <2> QED
    BY <1>1, <2>1, TaskKept
<1>4. RowInv' /\ ApartInv'
  <2>1. RowInv'
    BY <1>1, <1>2 DEF RowInv
  <2>2. ApartInv'
    BY ApartKept
  <2> QED
    BY <2>1, <2>2
<1>5. AloneInv'
  <2>1. \A b \in Actors \ {a} : actor'[b].pc \in Selling <=> actor[b].pc \in Selling
    OBVIOUS
  <2>2. actor'[a].pc \in Selling => actor'[a].pc = "selling"
    BY DEF Selling
  <2>3. "worker" \in Actors /\ "dash" \in Actors
    BY DEF Actors
  <2> QED
    BY <2>1, <2>2, <2>3 DEF AloneInv
<1>6. ASSUME NEW c \in Campaigns
      PROVE  (Clean(c) /\ Blank(c))'
  <2>1. Blank(c)'
    BY DEF Blank
  <2>2. \A b \in Actors : HasSold(b, c)' <=> HasSold(b, c)
    BY DEF HasSold
  <2>3. \A b \in Actors : HasSold(b, c) => actor'[b] = actor[b]
    BY DEF HasSold
  <2>4. ASSUME c \notin crossed', Live(c)
        PROVE  LiveClean(c)'
    <3>1. LiveClean(c)
      BY <2>4 DEF Clean
    <3>2. row.camp = c /\ c # 0
      BY <3>1, <1>1 DEF LiveClean
    <3>3. camps'[c].state = "waiting" <=> row'.exposure = "waiting"
      BY <3>1, <3>2, <2>4 DEF LiveClean
    <3> QED
      BY <3>1, <3>2, <3>3, <2>2, <2>3 DEF LiveClean
  <2>5. ASSUME c \notin crossed', Ended(c)
        PROVE  EndedClean(c)'
    <3>1. EndedClean(c)
      BY <2>5 DEF Clean
    <3>2. row.camp # c
      BY <2>5, <1>1 DEF RowInv, Ended, Live, LiveStates
    <3>3. \A b \in Actors : ~(actor'[b].pc \in Selling /\ actor'[b].snap.camp = c)
      BY <3>1, <3>2 DEF EndedClean, Selling
    <3> QED
      BY <3>1, <3>3 DEF EndedClean
  <2> QED
    BY <2>1, <2>4, <2>5, <1>2 DEF Clean
<1> QED
  BY <1>3, <1>4, <1>5, <1>6

\* A task that ends what it was doing
LEMMA EndsStep ==
    ASSUME Whole, MissionInv, NEW a \in Actors, Done(a), actor[a].pc # "sold",
           UNCHANGED <<row, camps, earned, closed, crossed, legs>>
    PROVE  MissionInv'
<1>1. /\ actor' \in [Actors -> Tasks] /\ actor'[a] = Idle
      /\ \A b \in Actors \ {a} : actor'[b] = actor[b]
  BY DoneType DEF MissionInv
<1>2. TypeInv'
  BY <1>1 DEF TypeInv, MissionInv
<1>3. TaskInv(a, actor[a])'
  BY <1>1 DEF TaskInv, NamesInv, BuysInv, SellsInv, Idle, NoRow, NoContext, Selling
<1>4. actor'["bot"].pc # "idle" => actor'["bot"] = actor["bot"]
  BY <1>1 DEF Idle, Actors
<1>5. ~actor'[a].ctx.create
  BY <1>1 DEF Idle, NoContext
<1> QED
  BY <1>1, <1>2, <1>3, <1>4, <1>5, QuietStep DEF Idle

\* A task that sets out to do something
LEMMA SubmitStep ==
    ASSUME Whole, MissionInv, NEW a \in Actors, NEW r \in Rows,
           NEW pc \in {"buying", "selling", "stopping", "pausing", "ensure", "act"},
           NEW kind \in {"entry", "reentry", "safety", "exit", "tp", "sl", "manual", "pause",
                         "resume", "tick"},
           Submit(a, pc, kind, r), actor[a].pc # "sold", pc # "stopping",
           r.camp # 0 => r.camp \in Created,
           pc = "buying" => /\ kind \in {"entry", "reentry", "safety"}
                            /\ kind = "entry" <=> a = "bot"
                            /\ kind = "reentry" => r.camp # 0,
           pc = "selling" => /\ a # "bot" /\ r = row
                             /\ \A b \in Actors \ {a} : actor[b].pc \notin Selling
                             /\ kind = "exit" => Created # {} /\ a = "worker",
           a = "bot" => row = NoRow,
           UNCHANGED <<row, camps, earned, closed, crossed, legs>>
    PROVE  MissionInv'
<1>1. /\ actor' \in [Actors -> Tasks]
      /\ actor'[a] = [pc |-> pc, kind |-> kind, snap |-> r, ctx |-> NoContext, found |-> NoRow]
      /\ \A b \in Actors \ {a} : actor'[b] = actor[b]
  <2>1. NoContext \in Contexts /\ NoRow \in Rows
    BY DEF NoContext, Contexts, States, NoRow, Rows
  <2>2. [pc |-> pc, kind |-> kind, snap |-> r, ctx |-> NoContext, found |-> NoRow] \in Tasks
    BY <2>1 DEF Tasks
  <2> QED
    BY <2>2 DEF Submit, MissionInv, TypeInv
<1>2. TypeInv'
  BY <1>1 DEF TypeInv, MissionInv
<1>3. Created' = Created
  BY DEF Created
<1>4. NamesInv(actor[a])'
  BY <1>1, <1>3 DEF NamesInv, NoContext, NoRow
<1>5. BuysInv(a, actor[a])'
  BY <1>1 DEF BuysInv, NoContext
<1>6. SellsInv(a, actor[a])'
  BY <1>1, <1>3 DEF SellsInv, Selling
<1>7. "bot" \in Actors
  BY DEF Actors
<1>8. actor'[a].pc = pc /\ actor'[a].snap = r /\ ~actor'[a].ctx.create
  BY <1>1 DEF NoContext
<1> QED
  BY <1>1, <1>2, <1>4, <1>5, <1>6, <1>7, <1>8, QuietStep DEF TaskInv

\* The steps by which a task sets out with the row it reads: signal, tick, request, re-entry.
LEMMA SubmitSteps ==
    ASSUME Whole, MissionInv,
           \/ Enter \/ ResolvePause \/ Tick \/ Reenter
           \/ \E c \in Campaigns : Activate(c)
           \/ \E kind \in {"tp", "safety"} : ManualOrder(kind)
           \/ \E kind \in {"exit", "tp", "sl", "safety"} : Trade(kind)
    PROVE  MissionInv'
<1> USE DEF books, Selling
<1>1. /\ row \in Rows /\ "bot" \in Actors /\ "worker" \in Actors /\ "dash" \in Actors
      /\ \A a \in Actors : actor[a].snap \in Rows
  BY DEF MissionInv, TypeInv, Tasks, Actors
<1>2. /\ row.camp # 0 => row.camp \in Created
      /\ \A a \in Actors : actor[a].snap.camp # 0 => actor[a].snap.camp \in Created
  BY DEF MissionInv, RowInv, TaskInv, NamesInv
<1>3. actor["bot"].pc \notin Selling
  BY <1>1 DEF MissionInv, TaskInv, SellsInv
<1>4. Actors \ {"dash"} = {"bot", "worker"} /\ Actors \ {"worker"} = {"bot", "dash"}
  BY DEF Actors
<1>a. CASE Enter
  BY <1>a, <1>1, <1>2, SubmitStep DEF Enter
<1>b. CASE ResolvePause
  BY <1>b, <1>1, <1>2, SubmitStep DEF ResolvePause
<1>c. CASE Tick
  <2>1. PICK pc \in {"ensure", "act"} : Submit("worker", pc, "tick", Derived(row))
    BY <1>c DEF Tick
  <2> QED
    BY <1>c, <2>1, <1>1, <1>2, DerivedType, SubmitStep DEF Tick, MissionInv
<1>d. CASE Reenter
  BY <1>d, <1>1, <1>2, SubmitStep DEF Reenter
<1>e. ASSUME NEW c \in Campaigns, Activate(c)
      PROVE  MissionInv'
  <2>1. c \in Created /\ c # 0
    BY <1>e, Existing DEF Activate, MissionInv
  <2>2. [row EXCEPT !.camp = c] \in Rows /\ [row EXCEPT !.camp = c].camp = c
    BY <1>1 DEF Rows
  <2> QED
    BY <1>e, <2>1, <2>2, <1>1, SubmitStep DEF Activate
<1>f. ASSUME NEW kind \in {"tp", "safety"}, ManualOrder(kind)
      PROVE  MissionInv'
  <2>1. CASE kind = "tp"
    BY <1>f, <2>1, <1>1, <1>2, <1>3, <1>4, SubmitStep DEF ManualOrder
  <2>2. CASE kind = "safety"
    BY <1>f, <2>2, <1>1, <1>2, SubmitStep DEF ManualOrder
  <2> QED
    BY <2>1, <2>2
<1>g. ASSUME NEW kind \in {"exit", "tp", "sl", "safety"}, Trade(kind)
      PROVE  MissionInv'
  <2>1. CASE kind = "safety"
    BY <1>g, <2>1, <1>1, <1>2, SubmitStep DEF Trade
  <2>2. CASE kind # "safety"
    <3>1. kind = "exit" => Created # {}
      BY <1>g, <1>1, <1>2 DEF Trade
    <3> QED
      BY <1>g, <2>2, <3>1, <1>1, <1>2, <1>3, <1>4, SubmitStep DEF Trade
  <2> QED
    BY <2>1, <2>2
<1> QED
  BY <1>a, <1>b, <1>c, <1>d, <1>e, <1>f, <1>g

\* A task that goes on, with the same snapshot
LEMMA BuyFillsStep ==
    ASSUME Whole, MissionInv, NEW a \in Actors, BuyFills(a)
    PROVE  MissionInv'
<1> DEFINE kind == actor[a].kind
           explicit == actor[a].snap.camp
           live == Recent(InState(LiveStates))
           bare == IF row.camp # 0 THEN row.camp ELSE Recent(InState({"active"}))
           Resume(c) == [camp |-> c, create |-> FALSE, state |-> "active",
                         realized |-> camps[c].realized, profit |-> 0]
           Bare(c) == [NoContext EXCEPT !.camp = c, !.state = "active"]
           New(c) == [NoContext EXCEPT !.camp = c, !.create = TRUE, !.state = "active"]
<1>1. /\ actor[a].pc = "buying" /\ actor[a].snap \in Rows /\ actor[a] \in Tasks
      /\ UNCHANGED <<row, camps, legs, earned, closed, crossed>>
  BY DEF BuyFills, books, MissionInv, TypeInv, Tasks
<1>2. /\ kind \in {"entry", "reentry", "safety"} /\ (kind = "entry" <=> a = "bot")
      /\ kind = "reentry" => explicit # 0
      /\ explicit # 0 => explicit \in Created
      /\ actor[a].found.camp # 0 => actor[a].found.camp \in Created
  BY <1>1 DEF MissionInv, TaskInv, BuysInv, NamesInv
<1>3. /\ Created \in SUBSET Campaigns /\ InState(LiveStates) \subseteq Created
      /\ InState({"active"}) \subseteq Created /\ 0 \notin Campaigns /\ Created' = Created
      /\ \A c \in Campaigns : c \in Created <=> camps[c].state # "none"
  BY <1>1, Existing DEF MissionInv, Created
<1>4. /\ live # 0 => live \in Created
      /\ bare # 0 => bare \in Created
  BY <1>3, RecentIsOne DEF MissionInv, RowInv
<1>5. /\ Fresh \subseteq Campaigns \ Created
      /\ \A c \in Fresh, b \in Actors : actor[b].ctx.camp # c
  BY DEF Fresh, Unused
<1>6. \A c \in Created : /\ Resume(c) \in Contexts /\ Resume(c).camp = c
                         /\ ~Resume(c).create /\ Resume(c).state = "active"
  BY <1>3 DEF Contexts, MissionInv, TypeInv, Camps, States
<1>7. /\ NoContext \in Contexts /\ NoContext.camp = 0 /\ ~NoContext.create
      /\ \A c \in Campaigns \cup {0} :
           Bare(c) \in Contexts /\ Bare(c).camp = c /\ ~Bare(c).create /\ Bare(c).state = "active"
      /\ \A c \in Campaigns : /\ New(c) \in Contexts /\ New(c).camp = c /\ New(c).create
                              /\ New(c).state = "active" /\ New(c).realized = 0
  <2>1. /\ NoContext \in Contexts /\ NoContext.camp = 0 /\ ~NoContext.create
        /\ NoContext.realized = 0
    BY DEF Contexts, NoContext, States
  <2>2. ASSUME NEW c \in Campaigns \cup {0}
        PROVE  Bare(c) \in Contexts /\ Bare(c).camp = c /\ ~Bare(c).create /\ Bare(c).state = "active"
    BY <2>1 DEF Contexts, States
  <2>3. ASSUME NEW c \in Campaigns
        PROVE  /\ New(c) \in Contexts /\ New(c).camp = c /\ New(c).create
               /\ New(c).state = "active" /\ New(c).realized = 0
    BY <2>1 DEF Contexts, States
  <2> QED
    BY <2>1, <2>2, <2>3
<1> HIDE DEF Resume, Bare, New, live, bare, kind, explicit
<1>8. PICK ctx : /\ actor' = [actor EXCEPT ![a].pc = "bought", ![a].ctx = ctx]
                 /\ \/ kind = "reentry" /\ ctx = Resume(explicit)
                    \/ kind = "safety" /\ ctx = Bare(bare)
                    \/ kind = "entry" /\ ctx = NoContext
                    \/ kind = "entry" /\ live # 0 /\ ctx = Resume(live)
                    \/ kind = "entry" /\ \E c \in Fresh : ctx = New(c)
  BY <1>2 DEF BuyFills, Resume, Bare, New, live, bare, kind, explicit
<1>9. /\ ctx \in Contexts
      /\ ctx.camp # 0 => ctx.state = "active"
      /\ ctx.camp # 0 /\ ~ctx.create => ctx.camp \in Created
      /\ kind = "reentry" => ctx.camp # 0
      /\ ctx.create => /\ kind = "entry" /\ ctx.camp # 0 /\ ctx.realized = 0
                       /\ camps[ctx.camp].state = "none"
                       /\ \A b \in Actors : actor[b].ctx.camp # ctx.camp
  <2>1. CASE kind = "reentry"
    BY <1>8, <2>1, <1>2, <1>3, <1>6
  <2>2. CASE kind = "safety"
    BY <1>8, <2>2, <1>4, <1>3, <1>7
  <2>3. CASE kind = "entry"
    BY <1>8, <2>3, <1>3, <1>4, <1>5, <1>6, <1>7
  <2> QED
    BY <2>1, <2>2, <2>3, <1>2
<1>10. /\ actor'[a] = [actor[a] EXCEPT !.pc = "bought", !.ctx = ctx]
       /\ \A b \in Actors \ {a} : actor'[b] = actor[b]
  BY <1>8 DEF MissionInv, TypeInv
<1>11. [actor[a] EXCEPT !.pc = "bought", !.ctx = ctx] \in Tasks
  BY <1>1, <1>9 DEF Tasks
<1>12. TypeInv'
  <2>1. actor' = [actor EXCEPT ![a] = [actor[a] EXCEPT !.pc = "bought", !.ctx = ctx]]
    BY <1>8
  <2>2. actor' \in [Actors -> Tasks]
    BY <2>1, <1>11 DEF MissionInv, TypeInv
  <2> QED
    BY <2>2, <1>1 DEF MissionInv, TypeInv
<1>13. /\ actor'[a].pc = "bought" /\ actor'[a].ctx = ctx /\ actor'[a].kind = kind
       /\ actor'[a].snap.camp = explicit /\ actor'[a].found = actor[a].found
  BY <1>10, <1>1 DEF Tasks, kind, explicit
<1>14. TaskInv(a, actor[a])'
  <2>1. NamesInv(actor[a])'
    BY <1>13, <1>9, <1>2, <1>3 DEF NamesInv
  <2>2. BuysInv(a, actor[a])'
    BY <1>13, <1>9, <1>2, <1>1 DEF BuysInv
  <2>3. SellsInv(a, actor[a])'
    BY <1>13 DEF SellsInv, Selling
  <2> QED
    BY <2>1, <2>2, <2>3 DEF TaskInv
<1>15. actor["bot"].pc # "idle" \/ actor'["bot"].pc = "idle"
  BY <1>10, <1>1 DEF Actors
<1>16. ~actor'[a].ctx.create \/ \A b \in Actors \ {a} : actor[b].ctx.camp # actor'[a].ctx.camp
  BY <1>9, <1>13
<1> QED
  BY <1>1, <1>10, <1>12, <1>13, <1>14, <1>15, <1>16, QuietStep

\* No task moves.
LEMMA StandStill ==
    ASSUME Whole, MissionInv, TypeInv', UNCHANGED <<row, actor, earned, closed, crossed>>,
           \A c \in Campaigns : /\ camps'[c].state = camps[c].state
                                /\ camps'[c].realized = camps[c].realized
    PROVE  MissionInv'
<1>1. "bot" \in Actors /\ actor["bot"].pc # "sold"
  BY DEF MissionInv, TaskInv, SellsInv, Actors, Selling
<1>2. Created' = Created
  BY DEF Created
<1>3. actor["bot"].ctx.create => actor["bot"].ctx.camp \in Campaigns
  BY <1>1 DEF MissionInv, TypeInv, Tasks, Contexts, TaskInv, BuysInv
<1>4. TaskInv("bot", actor["bot"])'
  BY <1>1, <1>2, <1>3, TaskKept DEF MissionInv
<1> QED
  BY <1>1, <1>4, QuietStep

\* The steps that change no row, no campaign's state and no task: a cool-down, a switch of mode.
LEMMA UnmovedSteps ==
    ASSUME Whole, MissionInv, SwitchMode \/ UNCHANGED vars \/ \E c \in Campaigns : CoolDown(c)
    PROVE  MissionInv'
<1>a. CASE SwitchMode \/ UNCHANGED vars
  <2>1. TypeInv'
    BY <1>a DEF SwitchMode, vars, books, MissionInv, TypeInv
  <2> QED
    <3>1. UNCHANGED <<row, camps, actor, earned, closed, crossed>>
      BY <1>a DEF SwitchMode, vars, books
    <3> QED
      BY <2>1, <3>1, StandStill
<1>b. ASSUME NEW c \in Campaigns, CoolDown(c)
      PROVE  MissionInv'
  <2>1. TypeInv'
    <3> DEFINE cool == [camps[c] EXCEPT !.cooling = FALSE]
    <3>1. /\ camps' = [camps EXCEPT ![c] = cool] /\ camps \in [Campaigns -> Camps]
          /\ cool \in Camps
      BY <1>b DEF CoolDown, MissionInv, TypeInv, Camps
    <3> HIDE DEF cool
    <3>2. camps' \in [Campaigns -> Camps]
      BY <3>1
    <3> QED
      BY <1>b, <3>2 DEF CoolDown, books, MissionInv, TypeInv
  <2>2. \A d \in Campaigns : /\ camps'[d].state = camps[d].state
                             /\ camps'[d].realized = camps[d].realized
    BY <1>b DEF CoolDown, MissionInv, TypeInv, Camps
  <2> QED
    BY <1>b, <2>1, <2>2, StandStill DEF CoolDown, books
<1> QED
  BY <1>a, <1>b

\* The steps by which a task ends with nothing written: a failed order, the end of a tick.
LEMMA EndingSteps ==
    ASSUME Whole, MissionInv,
           EndTick \/ \E a \in Actors : BuyFails(a) \/ SellFails(a)
    PROVE  MissionInv'
<1>1. "worker" \in Actors
  BY DEF Actors
<1> QED
  BY <1>1, EndsStep DEF EndTick, BuyFails, SellFails, books

\* The dashboard sets out to stop the deal, with the close context it reads first.
LEMMA StopDealStep ==
    ASSUME Whole, MissionInv, StopDeal
    PROVE  MissionInv'
<1> DEFINE ctx == CloseContext("stop", 0)
           t == [pc |-> "stopping", kind |-> "stop", snap |-> row, ctx |-> ctx, found |-> NoRow]
<1>1. /\ "dash" \in Actors /\ actor["dash"].pc = "idle"
      /\ actor' = [actor EXCEPT !["dash"] = t]
      /\ UNCHANGED <<row, camps, legs, earned, closed, crossed>>
  BY DEF StopDeal, books, Actors
<1>2. /\ ctx \in Contexts
      /\ ctx.camp # 0 => ctx.camp \in Created
      /\ ~ctx.create /\ ctx.state = "stopped"
  <2>1. ctx.state = "stopped"
    BY DEF CloseContext
  <2> QED
    BY <2>1, CloseType DEF MissionInv
<1> HIDE DEF ctx
<1>3. /\ t \in Tasks /\ t.pc = "stopping" /\ t.kind = "stop" /\ t.snap = row /\ t.ctx = ctx
      /\ t.found.camp = 0 /\ row \in Rows
  <2>1. row \in Rows /\ NoRow \in Rows /\ NoRow.camp = 0
    BY DEF MissionInv, TypeInv, NoRow, Rows
  <2> QED
    BY <1>2, <2>1 DEF Tasks
<1> HIDE DEF t
<1>4. /\ actor' \in [Actors -> Tasks] /\ actor'["dash"] = t
      /\ \A b \in Actors \ {"dash"} : actor'[b] = actor[b]
  BY <1>1, <1>3 DEF MissionInv, TypeInv
<1>5. TypeInv'
  BY <1>1, <1>4 DEF MissionInv, TypeInv
<1>6. TaskInv("dash", actor["dash"])'
  <2>1. Created' = Created /\ (row.camp # 0 => row.camp \in Created)
    BY <1>1 DEF Created, MissionInv, RowInv
  <2>2. NamesInv(actor["dash"])'
    <3>1. /\ actor'["dash"].snap.camp = row.camp /\ actor'["dash"].ctx.camp = ctx.camp
          /\ actor'["dash"].found.camp = 0
      BY <1>3, <1>4
    <3> QED
      BY <1>2, <2>1, <3>1 DEF NamesInv
  <2>3. BuysInv("dash", actor["dash"])'
    BY <1>2, <1>3, <1>4 DEF BuysInv
  <2>4. SellsInv("dash", actor["dash"])'
    BY <1>2, <1>3, <1>4 DEF SellsInv, Selling
  <2> QED
    BY <2>2, <2>3, <2>4 DEF TaskInv
<1>7. actor'["bot"] = actor["bot"] /\ ~actor'["dash"].ctx.create
  BY <1>2, <1>3, <1>4 DEF Actors
<1> QED
  BY <1>1, <1>3, <1>4, <1>5, <1>6, <1>7, QuietStep

\* The pause of a mission is written to its row and its campaign.
LEMMA WritePauseStep ==
    ASSUME Whole, MissionInv, WritePause
    PROVE  MissionInv'
<1> DEFINE c == actor["dash"].snap.camp
           paused == actor["dash"].kind = "pause"
<1>1. /\ "dash" \in Actors /\ actor["dash"].pc = "pausing" /\ Done("dash")
      /\ UNCHANGED <<legs, earned, closed, crossed>>
      /\ \/ c # 0 /\ camps' = [camps EXCEPT ![c].paused = paused] /\ row' = row
         \/ row' = (IF row = NoRow THEN row ELSE [row EXCEPT !.paused = paused]) /\ camps' = camps
  BY DEF WritePause, books, Actors
<1>2. c # 0 => c \in Campaigns
  BY <1>1 DEF MissionInv, TypeInv, Tasks, Rows
<1>3. paused \in BOOLEAN
  OBVIOUS
<1> HIDE DEF c, paused
<1>4. /\ row' \in Rows /\ row'.camp = row.camp /\ row'.exposure = row.exposure
      /\ row = NoRow => row' = NoRow
      /\ camps' \in [Campaigns -> Camps]
      /\ \A d \in Campaigns : /\ camps'[d].state = camps[d].state
                              /\ camps'[d].realized = camps[d].realized
  <2>1. row \in Rows /\ camps \in [Campaigns -> Camps]
    BY DEF MissionInv, TypeInv
  <2>2. CASE c # 0 /\ camps' = [camps EXCEPT ![c].paused = paused] /\ row' = row
    BY <2>1, <2>2, <1>2, <1>3 DEF Camps
  <2>3. CASE row' = (IF row = NoRow THEN row ELSE [row EXCEPT !.paused = paused]) /\ camps' = camps
    BY <2>1, <2>3, <1>3 DEF Rows
  <2> QED
    BY <2>2, <2>3, <1>1
<1>5. /\ actor' \in [Actors -> Tasks] /\ actor'["dash"] = Idle
      /\ \A b \in Actors \ {"dash"} : actor'[b] = actor[b]
  BY <1>1, DoneType DEF MissionInv
<1>6. TypeInv'
  BY <1>1, <1>4, <1>5 DEF MissionInv, TypeInv
<1>7. TaskInv("dash", actor["dash"])'
  BY <1>5 DEF TaskInv, NamesInv, BuysInv, SellsInv, Idle, NoRow, NoContext, Selling
<1>8. actor'["bot"] = actor["bot"] /\ Idle.pc = "idle" /\ ~actor'["dash"].ctx.create
  BY <1>5 DEF Actors, Idle, NoContext
<1> QED
  BY <1>1, <1>4, <1>5, <1>6, <1>7, <1>8, QuietStep

\* A step that writes campaigns: what is left to show is what it writes.
LEMMA WriteStep ==
    ASSUME Whole, MissionInv, TypeInv', RowInv',
           NEW a \in Actors, \A b \in Actors \ {a} : actor'[b] = actor[b],
           TaskInv(a, actor[a])',
           actor'[a].pc \in Selling => actor[a].pc \in Selling,
           Created \subseteq Created', crossed \subseteq crossed',
           \A d \in Campaigns : camps[d].state = "none" =>
               \/ camps'[d].state = "none"
               \/ actor[a].ctx.create /\ actor[a].ctx.camp = d,
           ~actor'[a].ctx.create \/ actor'[a].ctx = actor[a].ctx,
           \A d \in Campaigns : (Clean(d) /\ Blank(d))'
    PROVE  MissionInv'
<1>1. \A b \in Actors : TaskInv(b, actor[b])'
  <2> SUFFICES ASSUME NEW b \in Actors, b # a
               PROVE  TaskInv(b, actor[b])'
    OBVIOUS
  <2>1. TaskInv(b, actor[b]) /\ actor'[b] = actor[b]
    BY DEF MissionInv
  <2>2. actor[b].ctx.create =>
          /\ actor[b].ctx.camp \in Campaigns
          /\ actor[a].ctx.create => actor[a].ctx.camp # actor[b].ctx.camp
    BY <2>1 DEF MissionInv, TypeInv, Tasks, Contexts, TaskInv, BuysInv, ApartInv
  <2> QED
    BY <2>1, <2>2, TaskKept DEF MissionInv
<1>2. ApartInv' /\ AloneInv'
  <2>1. "worker" \in Actors /\ "dash" \in Actors /\ AloneInv
    BY DEF Actors, MissionInv
  <2>2. \A b \in Actors : actor'[b].pc \in Selling => actor[b].pc \in Selling
    OBVIOUS
  <2>3. AloneInv'
    BY <2>1, <2>2 DEF AloneInv
  <2>4. ApartInv'
    BY ApartKept DEF MissionInv
  <2> QED
    BY <2>3, <2>4
<1> QED
  BY <1>1, <1>2 DEF MissionInv

\* The row and every live campaign nobody crossed name each other.
LEMMA LiveIsRow ==
    ASSUME Whole, MissionInv, NEW d \in Campaigns
    PROVE  /\ d \notin crossed /\ Live(d) => row.camp = d
           /\ row.camp = d => Live(d) \/ d \in crossed
           /\ d # 0
  BY Existing DEF MissionInv, Clean, LiveClean, RowInv

\* A campaign a step leaves alone stays as clean, unless it is live and no longer the row's.
LEMMA Untouched ==
    ASSUME Whole, MissionInv, NEW d \in Campaigns,
           camps'[d].state = camps[d].state, camps'[d].realized = camps[d].realized,
           earned'[d] = earned[d], closed'[d] = closed[d],
           crossed \subseteq crossed', Live(d) => d \in crossed',
           \A b \in Actors : actor'[b].pc \in Selling =>
               actor[b].pc \in Selling /\ actor'[b].snap = actor[b].snap
    PROVE  (Clean(d) /\ Blank(d))'
<1>1. Clean(d) /\ Blank(d)
  BY DEF MissionInv
<1>2. Live(d)' => d \in crossed'
  BY DEF Live
<1>3. d \notin crossed /\ Ended(d) => EndedClean(d)
  BY <1>1 DEF Clean
<1>4. d \notin crossed' /\ Ended(d)' => EndedClean(d)'
  <2> SUFFICES ASSUME d \notin crossed', Ended(d)'
               PROVE  EndedClean(d)'
    OBVIOUS
  <2>1. EndedClean(d)
    BY <1>3 DEF Ended
  <2> QED
    BY <2>1 DEF EndedClean
<1> QED
  BY <1>1, <1>2, <1>4 DEF Clean, Blank

\* Of a task that is idle nothing is asked.
LEMMA IdleInv ==
    ASSUME NEW a \in Actors, actor'[a] = Idle
    PROVE  TaskInv(a, actor[a])'
  BY DEF TaskInv, NamesInv, BuysInv, SellsInv, Idle, NoRow, NoContext, Selling

\* The worker has read a row, and is yet to say which campaign it acts for.
Ensuring == {"ensure", "lookup", "repair", "search", "attach"}

\* The worker takes a step within its tick.
LEMMA WorkerMoves ==
    ASSUME MissionInv, NEW t \in Tasks, actor' = [actor EXCEPT !["worker"] = t]
    PROVE  /\ "worker" \in Actors /\ actor["worker"] \in Tasks
           /\ actor' \in [Actors -> Tasks] /\ actor'["worker"] = t
           /\ \A b \in Actors \ {"worker"} : actor'[b] = actor[b]
           /\ actor'["bot"] = actor["bot"]
<1>1. actor \in [Actors -> Tasks] /\ "worker" \in Actors /\ "bot" \in Actors \ {"worker"}
  BY DEF MissionInv, TypeInv, Actors
<1> QED
  BY <1>1

\* ensure_campaign_for_open_trade hands the worker a snapshot that names a campaign.
LEMMA EnsuredTask ==
    ASSUME Whole, MissionInv, actor["worker"].pc \in Ensuring,
           NEW c \in Campaigns \cup {0}, c # 0 => c \in Created', Created \subseteq Created',
           Ensured(c)
    PROVE  /\ actor' \in [Actors -> Tasks] /\ actor'["worker"].pc = "act"
           /\ ~actor'["worker"].ctx.create
           /\ \A b \in Actors \ {"worker"} : actor'[b] = actor[b]
           /\ actor'["bot"] = actor["bot"]
           /\ TaskInv("worker", actor["worker"])'
<1> DEFINE w == actor["worker"]
           s == IF w.snap.camp # 0 THEN w.snap ELSE [w.snap EXCEPT !.camp = c, !.mode = "sidestep"]
           t == [w EXCEPT !.pc = "act", !.ctx = NoContext, !.found = NoRow, !.snap = s]
<1>1. w \in Tasks /\ TaskInv("worker", w) /\ w.snap \in Rows
  BY DEF MissionInv, TypeInv, Actors, Tasks
<1>2. s \in Rows /\ (s.camp # 0 => s.camp \in Created')
  <2>1. w.snap.camp # 0 => w.snap.camp \in Created'
    BY <1>1 DEF TaskInv, NamesInv
  <2>2. CASE w.snap.camp # 0
    <3>1. s = w.snap
      BY <2>2
    <3> HIDE DEF w, s
    <3> QED
      BY <1>1, <2>1, <2>2, <3>1
  <2>3. CASE w.snap.camp = 0
    <3>1. s = [w.snap EXCEPT !.camp = c, !.mode = "sidestep"]
      BY <2>3
    <3> HIDE DEF w, s
    <3>2. s \in Rows /\ s.camp = c
      BY <1>1, <3>1 DEF Rows
    <3> QED
      BY <3>2
  <2> QED
    BY <2>2, <2>3
<1>3. actor' = [actor EXCEPT !["worker"] = t]
  BY DEF Ensured
<1>4. NoContext \in Contexts /\ NoContext.camp = 0 /\ ~NoContext.create /\ NoRow \in Rows /\ NoRow.camp = 0
  BY DEF NoContext, Contexts, States, NoRow, Rows
<1> HIDE DEF s
<1>5. t \in Tasks /\ t.pc = "act" /\ t.ctx = NoContext /\ t.found = NoRow /\ t.snap = s
  BY <1>1, <1>2, <1>4 DEF Tasks
<1> HIDE DEF w, t
<1>6. /\ actor' \in [Actors -> Tasks] /\ actor'["worker"] = t /\ actor'["bot"] = actor["bot"]
      /\ \A b \in Actors \ {"worker"} : actor'[b] = actor[b]
  BY <1>3, <1>5, WorkerMoves
<1>7. NamesInv(actor["worker"])'
  BY <1>2, <1>4, <1>5, <1>6 DEF NamesInv
<1>8. BuysInv("worker", actor["worker"])'
  BY <1>4, <1>5, <1>6 DEF BuysInv
<1>9. SellsInv("worker", actor["worker"])'
  BY <1>5, <1>6 DEF SellsInv, Selling
<1> QED
  BY <1>4, <1>5, <1>6, <1>7, <1>8, <1>9 DEF TaskInv

\* The row that ensure finds is remembered; nothing else happens.
LEMMA ReadRowStep ==
    ASSUME Whole, MissionInv, ReadRow
    PROVE  MissionInv'
<1> DEFINE w == actor["worker"]
           t == [w EXCEPT !.pc = IF row.camp # 0 THEN "lookup" ELSE "search", !.found = row]
<1>1. /\ w.pc = "ensure" /\ w \in Tasks /\ TaskInv("worker", w) /\ row \in Rows
      /\ UNCHANGED <<row, camps, legs, earned, closed, crossed>>
  BY DEF ReadRow, books, MissionInv, TypeInv, Actors
<1>2. /\ t \in Tasks /\ t.pc \in {"lookup", "search"} /\ t.found = row /\ t.snap = w.snap
      /\ t.ctx = w.ctx
  BY <1>1 DEF Tasks
<1>3. actor' = [actor EXCEPT !["worker"] = t]
  BY DEF ReadRow
<1> HIDE DEF t
<1>4. /\ "worker" \in Actors /\ actor' \in [Actors -> Tasks] /\ actor'["worker"] = t
      /\ \A b \in Actors \ {"worker"} : actor'[b] = actor[b]
      /\ actor'["bot"] = actor["bot"]
  BY <1>2, <1>3, WorkerMoves
<1>5. TypeInv'
  BY <1>1, <1>4 DEF MissionInv, TypeInv
<1>6. Created' = Created /\ ~t.ctx.create /\ (row.camp # 0 => row.camp \in Created)
  BY <1>1, <1>2 DEF Created, TaskInv, BuysInv, MissionInv, RowInv
<1>7. TaskInv("worker", actor["worker"])'
  <2>1. NamesInv(actor["worker"])'
    BY <1>1, <1>2, <1>4, <1>6 DEF NamesInv, TaskInv
  <2>2. BuysInv("worker", actor["worker"])'
    BY <1>2, <1>4, <1>6 DEF BuysInv
  <2>3. SellsInv("worker", actor["worker"])'
    BY <1>2, <1>4 DEF SellsInv, Selling
  <2> QED
    BY <2>1, <2>2, <2>3 DEF TaskInv
<1> QED
  BY <1>1, <1>2, <1>4, <1>5, <1>6, <1>7, QuietStep

\* The campaign of the row is looked up, and compared with the row.
LEMMA LookUpStep ==
    ASSUME Whole, MissionInv, LookUp
    PROVE  MissionInv'
<1> DEFINE w == actor["worker"]
           t == [w EXCEPT !.pc = "repair", !.found.exposure = Expected(w.found.camp)]
<1>1. /\ w.pc = "lookup" /\ w \in Tasks /\ TaskInv("worker", w) /\ w.found \in Rows
      /\ UNCHANGED <<row, camps, legs, earned, closed, crossed>>
      /\ "worker" \in Actors
  BY DEF LookUp, books, MissionInv, TypeInv, Actors, Tasks
<1>2. /\ Created' = Created /\ w.found.camp \in Campaigns \cup {0}
      /\ w.found.camp # 0 => w.found.camp \in Created
  BY <1>1 DEF Created, TaskInv, NamesInv, Rows
<1>a. CASE Ensured(w.found.camp)
  <2>1. /\ actor' \in [Actors -> Tasks] /\ actor'["worker"].pc = "act"
        /\ ~actor'["worker"].ctx.create
        /\ \A b \in Actors \ {"worker"} : actor'[b] = actor[b]
        /\ actor'["bot"] = actor["bot"]
        /\ TaskInv("worker", actor["worker"])'
    BY <1>1, <1>2, <1>a, EnsuredTask DEF Ensuring
  <2>2. TypeInv'
    BY <1>1, <2>1 DEF MissionInv, TypeInv
  <2> QED
    BY <1>1, <2>1, <2>2, QuietStep
<1>b. CASE actor' = [actor EXCEPT !["worker"].pc = "repair",
                                  !["worker"].found.exposure = Expected(w.found.camp)]
  <2>1. actor' = [actor EXCEPT !["worker"] = t]
    BY <1>b
  <2>2. Expected(w.found.camp) \in {"waiting", "long"}
    BY DEF Expected
  <2>3. /\ t \in Tasks /\ t.pc = "repair" /\ t.found.camp = w.found.camp /\ t.snap = w.snap
        /\ t.ctx = w.ctx
    <3>1. [w.found EXCEPT !.exposure = Expected(w.found.camp)] \in Rows
      BY <1>1, <2>2 DEF Rows
    <3> QED
      BY <1>1, <3>1 DEF Tasks, Rows
  <2> HIDE DEF t
  <2>4. /\ actor' \in [Actors -> Tasks] /\ actor'["worker"] = t
        /\ \A b \in Actors \ {"worker"} : actor'[b] = actor[b]
        /\ actor'["bot"] = actor["bot"]
    BY <2>1, <2>3, WorkerMoves
  <2>5. TypeInv'
    BY <1>1, <2>4 DEF MissionInv, TypeInv
  <2>6. ~t.ctx.create
    BY <1>1, <2>3 DEF TaskInv, BuysInv
  <2>7. TaskInv("worker", actor["worker"])'
    <3>1. NamesInv(actor["worker"])'
      BY <1>1, <1>2, <2>3, <2>4 DEF NamesInv, TaskInv
    <3>2. BuysInv("worker", actor["worker"])'
      BY <2>3, <2>4, <2>6 DEF BuysInv
    <3>3. SellsInv("worker", actor["worker"])'
      BY <2>3, <2>4 DEF SellsInv, Selling
    <3> QED
      BY <3>1, <3>2, <3>3 DEF TaskInv
  <2> QED
    BY <1>1, <2>3, <2>4, <2>5, <2>6, <2>7, QuietStep
<1> QED
  BY <1>a, <1>b DEF LookUp

\* What the campaign said is written to the row, unless it says something else by now.
LEMMA RepairStep ==
    ASSUME Whole, MissionInv, Repair
    PROVE  MissionInv'
<1> DEFINE found == actor["worker"].found
           foreign == row.camp # found.camp \/ Expected(found.camp) # found.exposure
<1>1. /\ actor["worker"].pc = "repair" /\ "worker" \in Actors
      /\ row' = IF row = NoRow THEN row
                ELSE [row EXCEPT !.mode = "sidestep", !.exposure = found.exposure]
      /\ Cross(IF foreign THEN {row.camp} ELSE {})
      /\ Ensured(found.camp)
      /\ UNCHANGED <<camps, legs, earned, closed>>
  BY DEF Repair, books, Actors
<1>2. /\ found \in Rows /\ found.camp \in Campaigns \cup {0}
      /\ found.camp # 0 => found.camp \in Created
      /\ Created' = Created /\ row \in Rows
  BY <1>1 DEF MissionInv, TypeInv, Tasks, TaskInv, NamesInv, Rows, Created
<1>3. /\ crossed \subseteq crossed'
      /\ foreign /\ row.camp # 0 => row.camp \in crossed'
  BY <1>1 DEF Cross
<1>4. /\ row' \in Rows /\ row'.camp = row.camp /\ (row = NoRow => row' = NoRow)
      /\ row # NoRow => row'.exposure = found.exposure
  BY <1>1, <1>2 DEF Rows
<1>5. ~foreign => (found.exposure = "waiting" <=> camps[row.camp].state = "waiting")
  BY DEF Expected
<1> HIDE DEF foreign
<1>6. /\ actor' \in [Actors -> Tasks] /\ actor'["worker"].pc = "act"
      /\ ~actor'["worker"].ctx.create
      /\ \A b \in Actors \ {"worker"} : actor'[b] = actor[b]
      /\ actor'["bot"] = actor["bot"]
      /\ TaskInv("worker", actor["worker"])'
  BY <1>1, <1>2, EnsuredTask DEF Ensuring
<1> HIDE DEF found
<1>7. TypeInv'
  BY <1>1, <1>4, <1>6 DEF MissionInv, TypeInv
<1>8. \/ row'.exposure = row.exposure
      \/ row.camp = 0 \/ row.camp \in crossed'
      \/ row'.exposure = "waiting" <=> camps[row.camp].state = "waiting"
  BY <1>3, <1>4, <1>5
<1> QED
  BY <1>1, <1>3, <1>4, <1>6, <1>7, <1>8, QuietStep

\* The worker finds an active campaign, or draws the id of a new one.
LEMMA SearchStep ==
    ASSUME Whole, MissionInv, Search
    PROVE  MissionInv'
<1> DEFINE w == actor["worker"]
           active == Recent(InState({"active"}))
<1>1. /\ w.pc = "search" /\ w \in Tasks /\ TaskInv("worker", w) /\ "worker" \in Actors
      /\ UNCHANGED <<row, camps, legs, earned, closed, crossed>>
  BY DEF Search, books, MissionInv, TypeInv, Actors
<1>2. /\ Created \in SUBSET Campaigns /\ InState({"active"}) \subseteq Created
      /\ 0 \notin Campaigns /\ Created' = Created
      /\ \A c \in Campaigns : c \in Created <=> camps[c].state # "none"
  BY <1>1, Existing DEF MissionInv, Created
<1>3. active # 0 => active \in Created
  BY <1>2, RecentIsOne
<1>4. /\ Fresh \subseteq Campaigns \ Created
      /\ \A c \in Fresh, b \in Actors : actor[b].ctx.camp # c
  BY DEF Fresh, Unused
<1>5. PICK c \in IF active # 0 THEN {active} ELSE Fresh :
        actor' = [actor EXCEPT !["worker"].pc = "attach",
                               !["worker"].ctx = [NoContext EXCEPT !.camp = c, !.create = active = 0]]
  BY DEF Search
<1> DEFINE ctx == [NoContext EXCEPT !.camp = c, !.create = active = 0]
           t == [w EXCEPT !.pc = "attach", !.ctx = ctx]
<1>6. /\ c \in Campaigns
      /\ active # 0 => c \in Created
      /\ active = 0 => camps[c].state = "none" /\ \A b \in Actors : actor[b].ctx.camp # c
  BY <1>2, <1>3, <1>4, <1>5
<1>7. ctx \in Contexts /\ ctx.camp = c /\ (ctx.create <=> active = 0) /\ ctx.realized = 0
  <2>1. NoContext \in Contexts /\ NoContext.realized = 0
    BY DEF Contexts, NoContext, States
  <2> QED
    BY <1>6, <2>1 DEF Contexts
<1> HIDE DEF ctx, active
<1>8. t \in Tasks /\ t.pc = "attach" /\ t.ctx = ctx /\ t.snap = w.snap /\ t.found = w.found
  BY <1>1, <1>7 DEF Tasks
<1>9. actor' = [actor EXCEPT !["worker"] = t]
  BY <1>5 DEF ctx, active
<1> HIDE DEF t
<1>10. /\ actor' \in [Actors -> Tasks] /\ actor'["worker"] = t
       /\ \A b \in Actors \ {"worker"} : actor'[b] = actor[b]
       /\ actor'["bot"] = actor["bot"]
  BY <1>8, <1>9, WorkerMoves
<1>11. TypeInv'
  BY <1>1, <1>10 DEF MissionInv, TypeInv
<1>12. TaskInv("worker", actor["worker"])'
  <2>1. NamesInv(actor["worker"])'
    BY <1>1, <1>2, <1>6, <1>7, <1>8, <1>10 DEF NamesInv, TaskInv
  <2>2. BuysInv("worker", actor["worker"])'
    <3>1. t.ctx.create => c # 0 /\ camps'[c].state = "none"
      BY <1>1, <1>2, <1>6, <1>7, <1>8
    <3> QED
      BY <3>1, <1>7, <1>8, <1>10 DEF BuysInv
  <2>3. SellsInv("worker", actor["worker"])'
    BY <1>8, <1>10 DEF SellsInv, Selling
  <2> QED
    BY <2>1, <2>2, <2>3 DEF TaskInv
<1>13. \/ ~actor'["worker"].ctx.create
       \/ \A b \in Actors \ {"worker"} : actor[b].ctx.camp # actor'["worker"].ctx.camp
  BY <1>6, <1>7, <1>8, <1>10
<1> QED
  BY <1>1, <1>8, <1>10, <1>11, <1>12, <1>13, QuietStep

\* The campaign is attached to the row of the symbol: to the one that has none, or, crossing
\* both, to one that has another by now.
LEMMA AttachStep ==
    ASSUME Whole, MissionInv, Attach
    PROVE  MissionInv'
<1> DEFINE c == actor["worker"].ctx.camp
           create == actor["worker"].ctx.create
           foreign == \/ row = NoRow /\ create
                      \/ row.camp \notin {0, c}
                      \/ ~create /\ camps[c].state # "active"
                      \/ row.exposure = "waiting"
<1>1. /\ actor["worker"].pc = "attach" /\ "worker" \in Actors
      /\ IF create
         THEN camps' = [camps EXCEPT ![c] = [NoCampaign EXCEPT !.state = "active"]]
         ELSE camps' = camps
      /\ row' = IF row = NoRow THEN row ELSE [row EXCEPT !.camp = c, !.mode = "sidestep"]
      /\ Cross(IF foreign THEN {c, row.camp} ELSE {})
      /\ Ensured(c)
      /\ UNCHANGED <<legs, earned, closed>>
  BY DEF Attach, books, Actors
<1>2. /\ Created \in SUBSET Campaigns /\ 0 \notin Campaigns
      /\ \A d \in Campaigns : d \in Created <=> camps[d].state # "none"
  BY Existing DEF MissionInv
<1>3. /\ actor["worker"] \in Tasks /\ TaskInv("worker", actor["worker"])
      /\ camps \in [Campaigns -> Camps] /\ row \in Rows
  BY <1>1 DEF MissionInv, TypeInv
<1>4. /\ c \in Campaigns \cup {0} /\ c # 0
      /\ ~create => c \in Created
      /\ create => camps[c].state = "none" \/ c \in crossed
  BY <1>1, <1>3 DEF Tasks, Contexts, TaskInv, NamesInv, BuysInv
<1>5. /\ crossed \subseteq crossed'
      /\ foreign => (c # 0 => c \in crossed') /\ (row.camp # 0 => row.camp \in crossed')
  BY <1>1 DEF Cross
<1>6. /\ camps' \in [Campaigns -> Camps]
      /\ create => camps'[c].state = "active" /\ camps'[c].realized = 0
      /\ ~create => camps' = camps
      /\ \A d \in Campaigns \ {c} : camps'[d] = camps[d]
  <2>1. CASE ~create
    BY <1>1, <1>3, <2>1
  <2>2. CASE create
    <3> DEFINE new == [NoCampaign EXCEPT !.state = "active"]
    <3>1. new \in Camps /\ new.state = "active" /\ new.realized = 0
      <4>1. NoCampaign \in Camps /\ NoCampaign.realized = 0
        BY DEF NoCampaign, Camps, States
      <4> QED
        BY <4>1 DEF Camps, States
    <3>2. camps' = [camps EXCEPT ![c] = new]
      BY <1>1, <2>2
    <3> HIDE DEF new
    <3> QED
      BY <1>3, <1>4, <2>2, <3>1, <3>2
  <2> QED
    BY <2>1, <2>2
<1>7. /\ row' \in Rows /\ (row = NoRow => row' = NoRow)
      /\ row # NoRow => row'.camp = c /\ row'.exposure = row.exposure
  BY <1>1, <1>3, <1>4 DEF Rows
<1>8. NoRow.camp = 0 /\ NoRow.exposure # "waiting"
  BY DEF NoRow
<1>9. /\ Created \subseteq Created' /\ (c # 0 => c \in Created')
  BY <1>2, <1>4, <1>6 DEF Created
<1>10. /\ ~foreign => row.camp \in {0, c} /\ row.exposure # "waiting" /\ (create => row # NoRow)
       /\ ~foreign /\ ~create => camps[c].state = "active"
  OBVIOUS
<1>11. c # 0 /\ ~create /\ c \notin crossed' => camps[c].state = "active"
  BY <1>5, <1>10
<1>12. /\ actor' \in [Actors -> Tasks] /\ actor'["worker"].pc = "act"
       /\ ~actor'["worker"].ctx.create
       /\ \A b \in Actors \ {"worker"} : actor'[b] = actor[b]
       /\ actor'["bot"] = actor["bot"]
       /\ TaskInv("worker", actor["worker"])'
  BY <1>1, <1>4, <1>9, EnsuredTask DEF Ensuring
<1> HIDE DEF foreign
<1>13. TypeInv'
  BY <1>1, <1>6, <1>7, <1>12 DEF MissionInv, TypeInv
<1>14. RowInv'
  <2>1. ASSUME row'.camp # 0
        PROVE  row'.camp \in Created' /\ (Live(row.camp)' \/ row'.camp \in crossed')
    <3>1. row'.camp = c /\ c # 0
      BY <2>1, <1>7, <1>8
    <3>2. create => camps'[c].state = "active"
      BY <1>6
    <3>3. ~create => camps'[c].state = "active" \/ c \in crossed'
      BY <3>1, <1>6, <1>11
    <3> QED
      BY <3>1, <3>2, <3>3, <1>9 DEF Live, LiveStates
  <2>2. actor'["bot"].pc # "idle" => row' = NoRow \/ row'.camp # 0
    <3>1. actor["bot"].pc # "idle" => row = NoRow \/ row.camp # 0
      BY DEF MissionInv, RowInv
    <3> QED
      BY <3>1, <1>4, <1>7, <1>12
  <2> QED
    BY <2>1, <2>2 DEF RowInv
<1>15. \A b \in Actors : actor'[b].pc \in Selling =>
         actor[b].pc \in Selling /\ actor'[b].snap = actor[b].snap
  BY <1>12 DEF Selling
<1>16. ASSUME NEW d \in Campaigns
       PROVE  (Clean(d) /\ Blank(d))'
  <2>1. Clean(d) /\ Blank(d) /\ d # 0
    BY LiveIsRow DEF MissionInv
  <2>2. CASE d # c
    <3>1. Live(d) => d \in crossed'
      <4>1. Live(d) /\ d \notin crossed => row.camp = d
        BY LiveIsRow
      <4> QED
        BY <4>1, <2>1, <2>2, <1>5, <1>10
    <3> QED
      BY <2>2, <3>1, <1>1, <1>5, <1>6, <1>15, Untouched
  <2>3. CASE d = c /\ create
    <3>1. camps'[d].state = "active" /\ camps'[d].realized = 0
      BY <2>3, <1>6
    <3>2. ASSUME d \notin crossed'
          PROVE  LiveClean(d)'
      <4>1. camps[d].state = "none" /\ row # NoRow /\ row.exposure # "waiting"
        BY <2>1, <2>3, <3>2, <1>4, <1>5, <1>10
      <4>2. closed[d] = 0 /\ earned[d] = 0
        BY <2>1, <4>1 DEF Blank
      <4>3. \A b \in Actors : ~HasSold(b, d)'
        <5>1. \A b \in Actors : actor[b].snap.camp # d
          BY <4>1, <1>2, <2>1 DEF MissionInv, TaskInv, NamesInv
        <5> QED
          BY <5>1, <1>15 DEF HasSold, Selling
      <4> QED
        BY <4>1, <4>2, <4>3, <3>1, <2>3, <1>1, <1>7 DEF LiveClean
    <3> QED
      BY <3>1, <3>2 DEF Clean, Blank, Ended
  <2>4. CASE d = c /\ ~create
    <3>1. camps'[d] = camps[d]
      BY <2>4, <1>6
    <3>2. d \in Created
      BY <2>1, <2>4, <1>4
    <3>3. ASSUME d \notin crossed'
          PROVE  LiveClean(d)' /\ camps[d].state = "active"
      <4>1. camps[d].state = "active" /\ d \notin crossed
        BY <2>1, <2>4, <3>3, <1>5, <1>11
      <4>2. LiveClean(d)
        BY <4>1, <2>1 DEF Clean, Live, LiveStates
      <4>3. row.camp = d /\ row # NoRow
        BY <4>2, <1>8, <2>1 DEF LiveClean
      <4>4. row'.camp = d /\ row'.exposure = row.exposure
        BY <4>3, <2>4, <1>7
      <4>5. \A b \in Actors : /\ HasSold(b, d)' <=> HasSold(b, d)
                              /\ HasSold(b, d) => actor'[b] = actor[b]
        BY <1>1, <1>12 DEF HasSold
      <4> QED
        BY <4>1, <4>2, <4>4, <4>5, <3>1, <1>1 DEF LiveClean
    <3>4. Blank(d)'
      BY <3>1, <3>2, <1>2 DEF Blank
    <3> QED
      BY <3>1, <3>3, <3>4 DEF Clean, Ended
  <2> QED
    BY <2>2, <2>3, <2>4
<1>17. \A d \in Campaigns : camps[d].state = "none" => camps'[d].state = "none" \/ (create /\ c = d)
  BY <1>6
<1>18. actor'["worker"].pc \notin Selling
  BY <1>12 DEF Selling
<1> QED
  BY <1>1, <1>5, <1>9, <1>12, <1>13, <1>14, <1>16, <1>17, <1>18, WriteStep

\* The dashboard ends a campaign, and books what it had realized.
LEMMA StopCampaignStep ==
    ASSUME Whole, MissionInv, NEW c \in Campaigns, StopCampaign(c)
    PROVE  MissionInv'
<1>1. /\ Live(c) /\ row' = NoRow /\ UNCHANGED <<actor, legs, earned>>
      /\ camps' = [camps EXCEPT ![c].state = "stopped", ![c].cooling = FALSE]
      /\ closed' = [closed EXCEPT ![c] = @ + camps[c].realized]
      /\ crossed' = crossed \union ((InFlight(Actors) \union ({row.camp} \ {c})) \ {0})
  BY DEF StopCampaign, Cross, Live
<1>2. camps \in [Campaigns -> Camps] /\ closed \in [Campaigns \cup {0} -> Int]
  BY DEF MissionInv, TypeInv
<1>3. /\ camps' \in [Campaigns -> Camps] /\ camps'[c].state = "stopped"
      /\ camps'[c].realized = camps[c].realized
      /\ \A d \in Campaigns \ {c} : camps'[d] = camps[d]
  BY <1>1, <1>2 DEF Camps, States
<1>4. /\ closed' \in [Campaigns \cup {0} -> Int] /\ closed'[c] = closed[c] + camps[c].realized
      /\ \A d \in Campaigns \ {c} : closed'[d] = closed[d]
  BY <1>1, <1>2 DEF Camps
<1>5. TypeInv'
  <2>1. NoRow \in Rows
    BY DEF NoRow, Rows
  <2> QED
    BY <1>1, <1>3, <1>4, <2>1 DEF MissionInv, TypeInv
<1>6. RowInv'
  BY <1>1 DEF RowInv, NoRow
<1>7. Created \subseteq Created'
  BY <1>1, <1>3 DEF Created, Live, LiveStates
<1>8. \A d \in Campaigns : camps[d].state = "none" => camps'[d].state = "none"
  BY <1>1, <1>3 DEF Live, LiveStates
<1>9. ASSUME NEW d \in Campaigns
      PROVE  (Clean(d) /\ Blank(d))'
  <2>1. CASE d = c
    <3>1. Blank(d)' /\ ~Live(d)'
      BY <2>1, <1>3 DEF Blank, Live, LiveStates
    <3>2. ASSUME c \notin crossed'
          PROVE  EndedClean(c)'
      <4>1. LiveClean(c)
        BY <3>2, <1>1 DEF MissionInv, Clean
      <4>2. \A b \in Actors : actor[b].snap.camp # c
        BY <3>2, <1>1, LiveIsRow DEF InFlight
      <4>3. closed[c] = 0 /\ camps[c].realized = earned[c]
        BY <4>1, <4>2 DEF LiveClean, HasSold
      <4>4. earned[c] \in Int
        BY DEF MissionInv, TypeInv
      <4> QED
        BY <4>2, <4>3, <4>4, <1>1, <1>4 DEF EndedClean
    <3> QED
      BY <2>1, <3>1, <3>2 DEF Clean
  <2>2. CASE d # c
    <3>1. Live(d) => d \in crossed'
      BY <1>1, <2>2, LiveIsRow
    <3> QED
      BY <2>2, <3>1, <1>1, <1>3, <1>4, Untouched
  <2> QED
    BY <2>1, <2>2
<1>10. "bot" \in Actors /\ TaskInv("bot", actor["bot"])
  BY DEF Actors, MissionInv
<1>11. TaskInv("bot", actor["bot"])'
  <2>1. actor["bot"].ctx.create => actor["bot"].ctx.camp \in Campaigns
    BY <1>10 DEF MissionInv, TypeInv, Tasks, Contexts, BuysInv, TaskInv
  <2> QED
    BY <1>1, <1>7, <1>8, <1>10, <2>1, TaskKept DEF MissionInv
<1> QED
  BY <1>1, <1>5, <1>6, <1>7, <1>8, <1>9, <1>10, <1>11, WriteStep

\* What every end of an order does to its task
LEMMA DoneTask ==
    ASSUME Whole, MissionInv, NEW a \in Actors, Done(a)
    PROVE  /\ actor' \in [Actors -> Tasks] /\ actor'[a] = Idle
           /\ \A b \in Actors \ {a} : actor'[b] = actor[b]
           /\ TaskInv(a, actor[a])' /\ ~actor'[a].ctx.create
           /\ \A b \in Actors : actor'[b].pc # "idle" => actor'[b] = actor[b] /\ b # a
           /\ \A b \in Actors : actor'[b].pc \in Selling =>
                actor[b].pc \in Selling /\ actor'[b].snap = actor[b].snap /\ b # a
<1>1. /\ actor' \in [Actors -> Tasks] /\ actor'[a] = Idle
      /\ \A b \in Actors \ {a} : actor'[b] = actor[b]
  BY DoneType DEF MissionInv
<1>2. TaskInv(a, actor[a])'
  BY <1>1, IdleInv
<1>3. Idle.pc = "idle" /\ "idle" \notin Selling /\ ~Idle.ctx.create
  BY DEF Idle, Selling, NoContext
<1> QED
  BY <1>1, <1>2, <1>3

\* receive_stop_signal deletes the deal behind everybody's back: what it touches is crossed.
LEMMA PersistStopStep ==
    ASSUME Whole, MissionInv, PersistStop
    PROVE  MissionInv'
<1> DEFINE c == row.camp
           ctx == actor["dash"].ctx
<1>1. /\ "dash" \in Actors /\ "bot" \in Actors /\ actor["dash"].pc = "stopping"
      /\ row' = NoRow /\ ApplyClose(c, ctx) /\ Done("dash")
      /\ UNCHANGED <<legs, earned, closed>>
      /\ crossed \subseteq crossed' /\ (c # 0 => c \in crossed')
  BY DEF PersistStop, books, Actors, Cross
<1>2. ctx.state = "stopped" /\ ctx.realized \in Int /\ c \in Campaigns \cup {0}
  BY <1>1 DEF MissionInv, TypeInv, Tasks, Contexts, TaskInv, SellsInv, Rows
<1>3. camps \in [Campaigns -> Camps]
  BY DEF MissionInv, TypeInv
<1>4. /\ camps' \in [Campaigns -> Camps]
      /\ \A d \in Campaigns \ {c} : camps'[d] = camps[d]
      /\ c # 0 => camps'[c].state = "stopped"
  BY <1>1, <1>2, <1>3 DEF ApplyClose, Camps, States
<1> HIDE DEF ctx
<1>5. /\ actor' \in [Actors -> Tasks] /\ actor'["dash"] = Idle
      /\ \A b \in Actors \ {"dash"} : actor'[b] = actor[b]
      /\ TaskInv("dash", actor["dash"])' /\ ~actor'["dash"].ctx.create
      /\ \A b \in Actors : actor'[b].pc \in Selling =>
           actor[b].pc \in Selling /\ actor'[b].snap = actor[b].snap
  BY <1>1, DoneTask
<1>6. TypeInv' /\ RowInv'
  <2>1. NoRow \in Rows
    BY DEF NoRow, Rows
  <2>2. TypeInv'
    BY <1>1, <1>4, <1>5, <2>1 DEF MissionInv, TypeInv
  <2>3. RowInv'
    BY <1>1 DEF RowInv, NoRow
  <2> QED
    BY <2>2, <2>3
<1>7. c # 0 => camps[c].state # "none"
  BY <1>2, Existing DEF MissionInv, RowInv
<1>8. \A d \in Campaigns : camps[d].state = "none" => camps'[d].state = "none"
  BY <1>4, <1>7, LiveIsRow
<1>9. Created \subseteq Created'
  BY <1>4, LiveIsRow DEF Created
<1>10. ASSUME NEW d \in Campaigns
       PROVE  (Clean(d) /\ Blank(d))'
  <2>1. CASE d = c
    <3>1. d \in crossed' /\ camps'[d].state = "stopped"
      BY <2>1, <1>1, <1>4, LiveIsRow
    <3> QED
      BY <3>1 DEF Clean, Blank
  <2>2. CASE d # c
    <3>1. Live(d) => d \in crossed'
      BY <1>1, <2>2, LiveIsRow
    <3> QED
      BY <2>2, <3>1, <1>1, <1>4, <1>5, Untouched
  <2> QED
    BY <2>1, <2>2
<1> HIDE DEF c
<1>11. actor'["dash"].pc \notin Selling
  BY <1>5 DEF Idle, Selling
<1> QED
  BY <1>1, <1>5, <1>6, <1>8, <1>9, <1>10, <1>11, WriteStep

\* A filled sale earns for the campaign of its snapshot, and keeps what it will write there.
LEMMA SellFillsStep ==
    ASSUME Whole, MissionInv, NEW a \in {"worker", "dash"}, SellFills(a)
    PROVE  MissionInv'
<1> DEFINE c == actor[a].snap.camp
           kind == actor[a].kind
<1>1. PICK p \in Profits :
        /\ actor' = [actor EXCEPT ![a].pc = "sold", ![a].ctx = CloseContext(kind, p)]
        /\ earned' = [earned EXCEPT ![c] = @ + p]
  BY DEF SellFills
<1>2. /\ actor[a].pc = "selling" /\ a \in Actors /\ actor[a] \in Tasks
      /\ UNCHANGED <<row, camps, legs, closed, crossed>>
  BY DEF SellFills, Actors, MissionInv, TypeInv
<1>3. /\ p \in Int /\ c \in Campaigns \cup {0}
      /\ earned \in [Campaigns \cup {0} -> Int] /\ actor \in [Actors -> Tasks]
  BY <1>2 DEF Whole, MissionInv, TypeInv, Tasks, Rows
<1> DEFINE ctx == CloseContext(kind, p)
           t == [actor[a] EXCEPT !.pc = "sold", !.ctx = ctx]
<1>4. /\ ctx \in Contexts /\ ~ctx.create
      /\ ctx.camp # 0 => ctx.camp \in Created
      /\ Created # {} => ctx.camp # 0
  BY <1>3, CloseType DEF MissionInv
<1>5. /\ kind = "exit" => ctx.state = "waiting"
      /\ kind # "exit" => ctx.state \in {"done", "stopped"}
      /\ row.camp # 0 => ctx.camp = row.camp /\ ctx.realized = camps[row.camp].realized + p
  BY DEF CloseContext
<1>6. actor' = [actor EXCEPT ![a] = t]
  BY <1>1, <1>3, <1>2
<1> HIDE DEF ctx
<1>7. /\ t \in Tasks /\ t.pc = "sold" /\ t.ctx = ctx /\ t.snap = actor[a].snap /\ t.kind = kind
      /\ t.snap.camp = c /\ t.found = actor[a].found
  BY <1>2, <1>4 DEF Tasks
<1> HIDE DEF t, kind
<1>8. /\ actor' \in [Actors -> Tasks] /\ actor'[a] = t
      /\ \A b \in Actors \ {a} : actor'[b] = actor[b]
  BY <1>2, <1>3, <1>6, <1>7
<1>9. /\ c # 0 => c \in Created
      /\ actor[a].found.camp # 0 => actor[a].found.camp \in Created
      /\ kind = "exit" => Created # {} /\ a = "worker"
  BY <1>2 DEF MissionInv, TaskInv, NamesInv, SellsInv, Selling, kind
<1> HIDE DEF c
<1>10. /\ earned' \in [Campaigns \cup {0} -> Int]
       /\ \A d \in Campaigns \ {c} : earned'[d] = earned[d]
       /\ c # 0 => earned'[c] = earned[c] + p
  BY <1>1, <1>3
<1>11. TypeInv'
  BY <1>2, <1>8, <1>10 DEF MissionInv, TypeInv
<1>12. Created' = Created
  BY <1>2 DEF Created
<1>13. RowInv'
  <2>1. actor'["bot"] = actor["bot"]
    BY <1>8 DEF Actors
  <2> QED
    BY <1>2, <1>12, <2>1 DEF MissionInv, RowInv, Live
<1>14. TaskInv(a, actor[a])'
  <2>1. NamesInv(actor[a])'
    BY <1>4, <1>7, <1>8, <1>9, <1>12 DEF NamesInv
  <2>2. BuysInv(a, actor[a])'
    BY <1>4, <1>7, <1>8 DEF BuysInv
  <2>3. SellsInv(a, actor[a])'
    BY <1>4, <1>5, <1>7, <1>8, <1>9, <1>12 DEF SellsInv, Selling
  <2> QED
    BY <2>1, <2>2, <2>3 DEF TaskInv
<1>15. \A b \in Actors \ {a} : actor[b].pc \notin Selling
  <2>1. TaskInv("bot", actor["bot"])
    BY DEF MissionInv, Actors
  <2> QED
    BY <1>2, <2>1 DEF MissionInv, AloneInv, TaskInv, SellsInv, Actors, Selling
<1>16. \A b \in Actors, d \in Campaigns : ~HasSold(b, d)
  BY <1>2, <1>15 DEF HasSold, Selling
<1>17. ASSUME NEW d \in Campaigns
       PROVE  (Clean(d) /\ Blank(d))'
  <2>1. Clean(d) /\ Blank(d) /\ d # 0
    BY LiveIsRow DEF MissionInv
  <2>2. d = c => camps[d].state # "none"
    BY <1>9, Existing, <2>1 DEF MissionInv
  <2>3. Blank(d)'
    BY <2>1, <2>2, <1>2, <1>10 DEF Blank
  <2>4. ASSUME d \notin crossed, Live(d)
        PROVE  LiveClean(d)'
    <3>1. LiveClean(d)
      BY <2>1, <2>4 DEF Clean
    <3>2. row.camp = d /\ closed[d] = 0 /\ camps[d].realized = earned[d]
      BY <3>1, <1>16 DEF LiveClean
    <3>3. \A b \in Actors : HasSold(b, d)' <=> (b = a /\ d = c)
      BY <1>7, <1>8, <1>15 DEF HasSold, Selling
    <3>4. d = c => actor'[a].ctx.camp = d /\ actor'[a].ctx.realized = earned'[d]
      BY <3>2, <1>5, <1>7, <1>8, <1>10, <2>1
    <3>5. d # c => earned'[d] = earned[d]
      BY <1>10
    <3>6. camps[d].state = "waiting" <=> row.exposure = "waiting"
      BY <3>1 DEF LiveClean
    <3> QED
      BY <3>2, <3>3, <3>4, <3>5, <3>6, <1>2 DEF LiveClean
  <2>5. ASSUME d \notin crossed, Ended(d)
        PROVE  EndedClean(d)'
    <3>1. EndedClean(d)
      BY <2>1, <2>5 DEF Clean
    <3>2. d # c
      BY <3>1, <1>2 DEF EndedClean, Selling, c
    <3> QED
      BY <3>1, <3>2, <1>2, <1>7, <1>8, <1>10 DEF EndedClean
  <2> QED
    BY <2>3, <2>4, <2>5, <1>2 DEF Clean, Live, Ended
<1>18. actor[a].pc \in Selling /\ ~actor'[a].ctx.create
  BY <1>2, <1>4, <1>7, <1>8 DEF Selling
<1> QED
  BY <1>2, <1>8, <1>11, <1>12, <1>13, <1>14, <1>17, <1>18, WriteStep

\* What a task that has sold is about to write
LEMMA SoldTask ==
    ASSUME Whole, MissionInv, NEW a \in {"worker", "dash"}, actor[a].pc = "sold"
    PROVE  /\ a \in Actors /\ actor[a] \in Tasks /\ actor[a].ctx.realized \in Int
           /\ actor[a].ctx.profit \in Int /\ actor[a].ctx.camp \in Campaigns \cup {0}
           /\ actor[a].ctx.camp # 0 => actor[a].ctx.camp \in Created
           /\ actor[a].kind = "exit" => actor[a].ctx.camp # 0 /\ actor[a].ctx.state = "waiting"
           /\ actor[a].kind # "exit" => actor[a].ctx.state \in {"done", "stopped"}
           /\ \A b \in Actors \ {a} : actor[b].pc \notin Selling
           /\ actor[a].snap.camp \in Campaigns \cup {0}
<1>1. a \in Actors /\ actor[a] \in Tasks /\ TaskInv(a, actor[a]) /\ TaskInv("bot", actor["bot"])
  BY DEF Actors, MissionInv, TypeInv
<1>2. \A b \in Actors \ {a} : actor[b].pc \notin Selling
  BY <1>1 DEF MissionInv, AloneInv, TaskInv, SellsInv, Actors, Selling
<1>3. /\ actor[a].ctx.realized \in Int /\ actor[a].ctx.camp \in Campaigns \cup {0}
      /\ actor[a].snap.camp \in Campaigns \cup {0} /\ actor[a].ctx.profit \in Int
  BY <1>1 DEF Tasks, Contexts, Rows
<1>4. ~actor[a].ctx.create /\ (actor[a].ctx.camp # 0 => actor[a].ctx.camp \in Created)
  BY <1>1 DEF TaskInv, BuysInv, NamesInv
<1>5. /\ actor[a].kind = "exit" => actor[a].ctx.camp # 0 /\ actor[a].ctx.state = "waiting"
      /\ actor[a].kind # "exit" => actor[a].ctx.state \in {"done", "stopped"}
  BY <1>1 DEF TaskInv, SellsInv
<1> QED
  BY <1>1, <1>2, <1>3, <1>4, <1>5

\* A mission that ends is booked with what its legs have earned.
LEMMA PersistCloseStep ==
    ASSUME Whole, MissionInv, NEW a \in {"worker", "dash"}, PersistClose(a)
    PROVE  MissionInv'
<1> DEFINE ctx == actor[a].ctx
           c == ctx.camp
           v == IF c # 0 THEN ctx.realized ELSE ctx.profit
           own == c = row.camp /\ c = actor[a].snap.camp
<1>1. /\ actor[a].pc = "sold" /\ actor[a].kind # "exit" /\ row' = NoRow /\ Done(a)
      /\ closed' = [closed EXCEPT ![c] = @ + v]
      /\ ApplyClose(c, ctx) /\ UNCHANGED <<legs, earned>>
      /\ Cross(IF own THEN {} ELSE {c, row.camp})
  BY DEF PersistClose
<1>2. /\ a \in Actors /\ ctx.realized \in Int /\ ctx.profit \in Int /\ c \in Campaigns \cup {0}
      /\ c # 0 => c \in Created
      /\ ctx.state \in {"done", "stopped"}
      /\ \A b \in Actors \ {a} : actor[b].pc \notin Selling
  BY <1>1, SoldTask
<1>3. /\ crossed \subseteq crossed' /\ 0 \notin Campaigns
      /\ ~own => (c # 0 => c \in crossed') /\ (row.camp # 0 => row.camp \in crossed')
  BY <1>1, Existing DEF Cross, MissionInv
<1>4. own => actor[a].snap.camp = c /\ row.camp = c
  OBVIOUS
<1>5. v \in Int /\ (c # 0 => v = ctx.realized)
  BY <1>2
<1> HIDE DEF own, v
<1>6. /\ camps \in [Campaigns -> Camps] /\ closed \in [Campaigns \cup {0} -> Int]
      /\ earned \in [Campaigns \cup {0} -> Int]
  BY DEF MissionInv, TypeInv
<1>7. /\ camps' \in [Campaigns -> Camps]
      /\ c # 0 => camps'[c].state = ctx.state
      /\ \A d \in Campaigns \ {c} : camps'[d] = camps[d]
  <2>1. CASE c = 0
    BY <1>1, <1>3, <1>6, <2>1 DEF ApplyClose
  <2>2. CASE c # 0
    <3> DEFINE new == [camps[c] EXCEPT !.state = ctx.state, !.realized = ctx.realized,
                                       !.cooling = FALSE]
    <3>1. camps' = [camps EXCEPT ![c] = new]
      BY <1>1, <1>2, <2>2 DEF ApplyClose
    <3>2. c \in Campaigns /\ camps[c] \in Camps
      BY <1>2, <1>6, <2>2
    <3>3. new \in Camps /\ new.state = ctx.state
      BY <1>2, <3>2 DEF Camps, States
    <3> HIDE DEF new
    <3> QED
      BY <1>6, <3>1, <3>2, <3>3
  <2> QED
    BY <2>1, <2>2
<1>8. /\ closed' \in [Campaigns \cup {0} -> Int] /\ closed'[c] = closed[c] + v
      /\ \A d \in Campaigns \ {c} : closed'[d] = closed[d]
  BY <1>1, <1>2, <1>5, <1>6
<1>9. /\ actor' \in [Actors -> Tasks] /\ actor'[a] = Idle
      /\ \A b \in Actors \ {a} : actor'[b] = actor[b]
      /\ TaskInv(a, actor[a])' /\ ~actor'[a].ctx.create
      /\ \A b \in Actors : actor'[b].pc \in Selling =>
           actor[b].pc \in Selling /\ actor'[b].snap = actor[b].snap /\ b # a
  BY <1>1, <1>2, DoneTask
<1>10. TypeInv' /\ RowInv'
  <2>1. NoRow \in Rows
    BY DEF NoRow, Rows
  <2>2. TypeInv'
    BY <1>1, <1>7, <1>8, <1>9, <2>1 DEF MissionInv, TypeInv
  <2>3. RowInv'
    BY <1>1 DEF RowInv, NoRow
  <2> QED
    BY <2>2, <2>3
<1>11. c # 0 => camps[c].state # "none"
  BY <1>2, Existing DEF MissionInv
<1>12. \A d \in Campaigns : camps[d].state = "none" => camps'[d].state = "none"
  BY <1>7, <1>11, <1>3
<1>13. Created \subseteq Created'
  BY <1>2, <1>3, <1>7 DEF Created
<1>14. ASSUME NEW d \in Campaigns
       PROVE  (Clean(d) /\ Blank(d))'
  <2>1. CASE d = c
    <3>1. camps'[d].state \in {"done", "stopped"}
      BY <2>1, <1>2, <1>3, <1>7
    <3>2. ASSUME d \notin crossed'
          PROVE  EndedClean(d)'
      <4>1. own /\ d \notin crossed /\ row.camp = d
        BY <2>1, <3>2, <1>3, <1>4
      <4>2. LiveClean(d)
        BY <4>1, LiveIsRow DEF MissionInv, Clean
      <4>3. HasSold(a, d)
        BY <4>1, <2>1, <1>1, <1>4 DEF HasSold
      <4>4. closed[d] = 0 /\ ctx.realized = earned[d]
        BY <4>2, <4>3, <1>2 DEF LiveClean
      <4>5. closed'[d] = earned'[d]
        BY <4>4, <2>1, <1>1, <1>3, <1>5, <1>6, <1>8
      <4>6. \A b \in Actors : actor'[b].pc \notin Selling
        BY <1>2, <1>9
      <4> QED
        BY <4>5, <4>6 DEF EndedClean
    <3> QED
      BY <3>1, <3>2 DEF Clean, Blank, Live, LiveStates
  <2>2. CASE d # c
    <3>1. Live(d) => d \in crossed'
      <4>1. Live(d) /\ d \notin crossed => row.camp = d /\ d # 0
        BY LiveIsRow
      <4> QED
        BY <4>1, <2>2, <1>3, <1>4
    <3> QED
      BY <2>2, <3>1, <1>1, <1>3, <1>7, <1>8, <1>9, Untouched
  <2> QED
    BY <2>1, <2>2
<1>15. actor'[a].pc \notin Selling
  BY <1>2, <1>9
<1> QED
  BY <1>2, <1>3, <1>9, <1>10, <1>12, <1>13, <1>14, <1>15, WriteStep

\* A leg that is exited leaves its mission waiting, with what its legs have earned.
LEMMA PersistExitStep ==
    ASSUME Whole, MissionInv, PersistExit("worker")
    PROVE  MissionInv'
<1> DEFINE a == "worker"
           ctx == actor[a].ctx
           c == ctx.camp
           own == row.camp = c /\ actor[a].snap.camp = c /\ camps[c].state = "active"
<1>1. /\ actor[a].pc = "sold" /\ actor[a].kind = "exit" /\ Done(a)
      /\ row' = IF row = NoRow THEN NoRow
                ELSE [row EXCEPT !.leg = 0, !.camp = c, !.exposure = "waiting"]
      /\ ApplyClose(c, ctx) /\ UNCHANGED <<legs, earned, closed>>
      /\ Cross(IF own THEN {} ELSE {c, row.camp})
  BY DEF PersistExit, books
<1>2. /\ a \in Actors /\ ctx.realized \in Int /\ c \in Campaigns /\ c \in Created
      /\ ctx.state = "waiting" /\ c # 0
      /\ \A b \in Actors \ {a} : actor[b].pc \notin Selling
  BY <1>1, SoldTask
<1>3. /\ crossed \subseteq crossed' /\ 0 \notin Campaigns
      /\ ~own => c \in crossed' /\ (row.camp # 0 => row.camp \in crossed')
  BY <1>1, <1>2, Existing DEF Cross, MissionInv
<1>4. own => actor[a].snap.camp = c /\ row.camp = c /\ camps[c].state = "active"
  OBVIOUS
<1> HIDE DEF own
<1>5. camps \in [Campaigns -> Camps] /\ row \in Rows
  BY DEF MissionInv, TypeInv
<1>6. /\ camps' \in [Campaigns -> Camps]
      /\ camps'[c].state = "waiting" /\ camps'[c].realized = ctx.realized
      /\ \A d \in Campaigns \ {c} : camps'[d] = camps[d]
  <2> DEFINE new == [camps[c] EXCEPT !.state = "waiting", !.realized = ctx.realized,
                                     !.cooling = TRUE]
  <2>1. camps' = [camps EXCEPT ![c] = new]
    BY <1>1, <1>2 DEF ApplyClose
  <2>2. camps[c] \in Camps
    BY <1>2, <1>5
  <2>3. new \in Camps /\ new.state = "waiting" /\ new.realized = ctx.realized
    BY <1>2, <2>2 DEF Camps, States
  <2> HIDE DEF new
  <2> QED
    BY <1>2, <1>5, <2>1, <2>2, <2>3
<1>7. /\ row' \in Rows
      /\ row = NoRow => row' = NoRow
      /\ row # NoRow => row'.camp = c /\ row'.exposure = "waiting"
  BY <1>1, <1>2, <1>5 DEF Rows
<1>8. NoRow.camp = 0 /\ NoRow.exposure # "waiting"
  BY DEF NoRow
<1>9. /\ actor' \in [Actors -> Tasks] /\ actor'[a] = Idle
      /\ \A b \in Actors \ {a} : actor'[b] = actor[b]
      /\ TaskInv(a, actor[a])' /\ ~actor'[a].ctx.create
      /\ \A b \in Actors : actor'[b].pc \in Selling =>
           actor[b].pc \in Selling /\ actor'[b].snap = actor[b].snap /\ b # a
  BY <1>1, <1>2, DoneTask
<1>10. TypeInv'
  BY <1>1, <1>6, <1>7, <1>9 DEF MissionInv, TypeInv
<1>11. /\ Created \subseteq Created' /\ c \in Created'
       /\ \A d \in Campaigns : camps[d].state = "none" => camps'[d].state = "none"
  <2>1. camps[c].state # "none"
    BY <1>2 DEF Created
  <2> QED
    BY <1>2, <1>6, <2>1 DEF Created
<1>12. RowInv'
  <2>1. row'.camp # 0 => row'.camp \in Created' /\ Live(row.camp)'
    BY <1>6, <1>7, <1>8, <1>11 DEF Live, LiveStates
  <2>2. actor'["bot"].pc # "idle" => row' = NoRow \/ row'.camp # 0
    BY <1>2, <1>7
  <2> QED
    BY <2>1, <2>2 DEF RowInv
<1>13. ASSUME NEW d \in Campaigns
       PROVE  (Clean(d) /\ Blank(d))'
  <2>1. CASE d = c
    <3>1. camps'[d].state = "waiting"
      BY <2>1, <1>6
    <3>2. ASSUME d \notin crossed'
          PROVE  LiveClean(d)'
      <4>1. /\ d \notin crossed /\ row.camp = d /\ camps[d].state = "active"
            /\ actor[a].snap.camp = d
        BY <2>1, <3>2, <1>3, <1>4
      <4>2. LiveClean(d)
        BY <4>1 DEF MissionInv, Clean, Live, LiveStates
      <4>3. HasSold(a, d)
        BY <4>1, <1>1 DEF HasSold
      <4>4. closed[d] = 0 /\ ctx.realized = earned[d]
        BY <4>2, <4>3, <1>2 DEF LiveClean
      <4>5. row'.camp = d /\ row'.exposure = "waiting"
        BY <4>1, <2>1, <1>2, <1>7, <1>8
      <4>6. \A b \in Actors : ~HasSold(b, d)'
        BY <1>2, <1>9 DEF HasSold, Selling
      <4> QED
        BY <4>4, <4>5, <4>6, <3>1, <2>1, <1>1, <1>6 DEF LiveClean
    <3> QED
      BY <3>1, <3>2 DEF Clean, Blank, Ended
  <2>2. CASE d # c
    <3>1. Live(d) => d \in crossed'
      <4>1. Live(d) /\ d \notin crossed => row.camp = d /\ d # 0
        BY LiveIsRow
      <4> QED
        BY <4>1, <2>2, <1>3, <1>4
    <3> QED
      BY <2>2, <3>1, <1>1, <1>3, <1>6, <1>9, Untouched
  <2> QED
    BY <2>1, <2>2
<1>14. actor'[a].pc \notin Selling
  BY <1>2, <1>9
<1> HIDE DEF a
<1> QED
  BY <1>2, <1>3, <1>9, <1>10, <1>11, <1>12, <1>13, <1>14, WriteStep

\* A buy that is persisted opens a leg of the campaign it was bought for.
LEMMA PersistBuyStep ==
    ASSUME Whole, MissionInv, NEW a \in Actors, PersistBuy(a)
    PROVE  MissionInv'
<1> DEFINE ctx == actor[a].ctx
           c == ctx.camp
           kind == actor[a].kind
           opens == kind \in {"entry", "reentry"}
           lost == {k \in {c} \ {0} : \/ camps[k].state \notin LiveStates /\ ~ctx.create
                                      \/ camps[k].realized # ctx.realized
                                      \/ camps[k].state = "waiting" /\ ~opens}
           new == [leg |-> legs + 1, camp |-> c, exposure |-> "long",
                   mode |-> IF c # 0 THEN "sidestep" ELSE "classic", paused |-> row.paused]
<1>1. /\ actor[a].pc = "bought" /\ Done(a) /\ UNCHANGED <<earned, closed>>
      /\ ApplyBuy(a, ctx)
      /\ row' = IF opens THEN new
                ELSE IF row # NoRow /\ c # 0 THEN [row EXCEPT !.camp = c] ELSE row
      /\ legs' = IF opens THEN legs + 1 ELSE legs
      /\ Cross(lost \union (IF row.camp = c THEN {} ELSE {row.camp})
                    \union (IF row.camp = c \/ opens THEN {} ELSE {c}))
  BY DEF PersistBuy
<1>2. /\ actor[a] \in Tasks /\ TaskInv(a, actor[a]) /\ camps \in [Campaigns -> Camps]
      /\ row \in Rows /\ legs \in Nat
  BY DEF MissionInv, TypeInv
<1>3. /\ ctx.realized \in Int /\ c \in Campaigns \cup {0}
      /\ c # 0 => ctx.state = "active"
      /\ kind \in {"entry", "reentry", "safety"} /\ (kind = "entry" <=> a = "bot")
      /\ kind = "reentry" => c # 0
      /\ ctx.create => /\ a = "bot" /\ c # 0 /\ ctx.realized = 0
                       /\ camps[c].state = "none" \/ c \in crossed
      /\ c # 0 /\ ~ctx.create => c \in Created
  BY <1>1, <1>2 DEF Tasks, Contexts, TaskInv, BuysInv, NamesInv
<1>4. /\ Created \in SUBSET Campaigns /\ 0 \notin Campaigns
      /\ \A d \in Campaigns : d \in Created <=> camps[d].state # "none"
  BY Existing DEF MissionInv
<1>5. /\ crossed \subseteq crossed'
      /\ row.camp # c /\ row.camp # 0 => row.camp \in crossed'
      /\ row.camp # c /\ ~opens /\ c # 0 => c \in crossed'
      /\ c # 0 /\ c \notin crossed' => /\ camps[c].state \in LiveStates \/ ctx.create
                                       /\ camps[c].realized = ctx.realized
                                       /\ camps[c].state # "waiting" \/ opens
  BY <1>1 DEF Cross
<1>6. new \in Rows /\ new.camp = c /\ new.exposure = "long"
  BY <1>2, <1>3 DEF Rows
<1>7. opens <=> kind # "safety"
  BY <1>3
<1> HIDE DEF new, lost, opens
<1>8. /\ camps' \in [Campaigns -> Camps]
      /\ c # 0 => camps'[c].state = "active" /\ camps'[c].realized = ctx.realized
      /\ \A d \in Campaigns \ {c} : camps'[d] = camps[d]
  <2>1. CASE c = 0
    BY <1>1, <1>2, <1>4, <2>1 DEF ApplyBuy
  <2>2. CASE c # 0
    <3> DEFINE after == [camps[c] EXCEPT !.state = "active", !.realized = ctx.realized,
                                         !.cooling = FALSE]
    <3>1. camps' = [camps EXCEPT ![c] = after]
      BY <1>1, <1>3, <2>2 DEF ApplyBuy
    <3>2. c \in Campaigns /\ camps[c] \in Camps
      BY <1>2, <1>3, <2>2
    <3>3. after \in Camps /\ after.state = "active" /\ after.realized = ctx.realized
      BY <1>3, <3>2 DEF Camps, States
    <3> HIDE DEF after
    <3> QED
      BY <1>2, <3>1, <3>2, <3>3
  <2> QED
    BY <2>1, <2>2
<1>9. /\ row' \in Rows /\ legs' \in Nat
      /\ opens => row'.camp = c /\ row'.exposure = "long"
      /\ ~opens => row'.exposure = row.exposure
      /\ ~opens /\ (row = NoRow \/ c = 0) => row' = row
      /\ ~opens /\ row # NoRow /\ c # 0 => row'.camp = c
  BY <1>1, <1>2, <1>3, <1>6 DEF Rows
<1>10. NoRow.camp = 0 /\ NoRow.exposure # "waiting"
  BY DEF NoRow
<1>11. /\ actor' \in [Actors -> Tasks] /\ actor'[a] = Idle
       /\ \A b \in Actors \ {a} : actor'[b] = actor[b]
       /\ TaskInv(a, actor[a])' /\ ~actor'[a].ctx.create
       /\ \A b \in Actors : actor'[b].pc # "idle" => actor'[b] = actor[b] /\ b # a
       /\ \A b \in Actors : actor'[b].pc \in Selling =>
            actor[b].pc \in Selling /\ actor'[b].snap = actor[b].snap /\ b # a
  BY <1>1, DoneTask
<1>12. TypeInv'
  BY <1>1, <1>8, <1>9, <1>11 DEF MissionInv, TypeInv
<1>13. /\ Created \subseteq Created'
       /\ c # 0 => c \in Created'
  BY <1>3, <1>4, <1>8 DEF Created
<1>14. \A d \in Campaigns : camps[d].state = "none" => camps'[d].state = "none" \/ (ctx.create /\ c = d)
  BY <1>3, <1>4, <1>8
<1>15. RowInv'
  <2>1. row'.camp # 0 => row'.camp \in Created' /\ (Live(row.camp)' \/ row'.camp \in crossed')
    <3>1. CASE row'.camp = c
      BY <3>1, <1>8, <1>13 DEF Live, LiveStates
    <3>2. CASE row'.camp # c /\ c = 0
      <4>1. row' = row
        BY <3>2, <1>9
      <4>2. row.camp # 0 => row.camp \in Created /\ (Live(row.camp) \/ row.camp \in crossed)
        BY DEF MissionInv, RowInv
      <4>3. row.camp # 0 => camps'[row.camp] = camps[row.camp]
        BY <4>2, <3>2, <1>4, <1>8
      <4> QED
        BY <4>1, <4>2, <4>3, <1>5, <1>13 DEF Live
    <3>3. CASE row'.camp # c /\ c # 0
      BY <3>3, <1>9, <1>10
    <3> QED
      BY <3>1, <3>2, <3>3
  <2>2. actor'["bot"].pc # "idle" => row' = NoRow \/ row'.camp # 0
    <3>1. SUFFICES ASSUME actor'["bot"].pc # "idle"
                   PROVE  row' = NoRow \/ row'.camp # 0
      OBVIOUS
    <3>2. actor["bot"].pc # "idle" /\ a # "bot"
      BY <3>1, <1>11 DEF Actors
    <3>3. row = NoRow \/ row.camp # 0
      BY <3>2 DEF MissionInv, RowInv
    <3> QED
      BY <3>2, <3>3, <1>3, <1>7, <1>9
  <2> QED
    BY <2>1, <2>2 DEF RowInv
<1>16. ASSUME NEW d \in Campaigns
       PROVE  (Clean(d) /\ Blank(d))'
  <2>1. CASE d = c
    <3>1. camps'[d].state = "active" /\ d # 0
      BY <2>1, <1>4, <1>8
    <3>2. ASSUME d \notin crossed'
          PROVE  LiveClean(d)'
      <4>1. /\ d \notin crossed /\ camps[d].realized = ctx.realized
            /\ camps[d].state # "waiting" \/ opens
            /\ ~opens => row.camp = d
        BY <2>1, <3>1, <3>2, <1>5
      <4>2. \A b \in Actors : HasSold(b, d)' <=> HasSold(b, d)
        BY <1>1, <1>11 DEF HasSold, Selling, Idle
      <4>3. \A b \in Actors : HasSold(b, d) => actor'[b] = actor[b]
        BY <1>1, <1>11 DEF HasSold
      <4>4. CASE Live(d)
        <5>1. LiveClean(d)
          BY <4>1, <4>4 DEF MissionInv, Clean
        <5>2. row'.camp = d
          BY <5>1, <4>1, <2>1, <3>1, <1>9, <1>10 DEF LiveClean
        <5>3. row'.exposure # "waiting"
          BY <5>1, <4>1, <1>9 DEF LiveClean
        <5>4. camps'[d].realized = camps[d].realized
          BY <2>1, <3>1, <4>1, <1>8
        <5> QED
          BY <5>1, <5>2, <5>3, <5>4, <4>2, <4>3, <3>1, <1>1 DEF LiveClean
      <4>5. CASE ~Live(d)
        <5>1. ctx.create /\ camps[d].state = "none" /\ a = "bot"
          BY <4>5, <4>1, <2>1, <3>1, <3>2, <1>3, <1>5 DEF Live
        <5>2. opens /\ row'.camp = d /\ row'.exposure # "waiting"
          BY <5>1, <2>1, <1>3, <1>7, <1>9
        <5>3. closed[d] = 0 /\ earned[d] = 0 /\ camps'[d].realized = 0
          BY <5>1, <2>1, <3>1, <1>3, <1>8 DEF MissionInv, Blank
        <5>4. \A b \in Actors : ~HasSold(b, d)
          <6>1. \A b \in Actors : actor[b].snap.camp # d
            BY <5>1, <1>4, <3>1 DEF MissionInv, TaskInv, NamesInv
          <6> QED
            BY <6>1 DEF HasSold
        <5> QED
          BY <5>2, <5>3, <5>4, <4>2, <3>1, <1>1 DEF LiveClean
      <4> QED
        BY <4>4, <4>5
    <3> QED
      BY <3>1, <3>2 DEF Clean, Blank, Ended
  <2>2. CASE d # c
    <3>1. Live(d) => d \in crossed'
      <4>1. Live(d) /\ d \notin crossed => row.camp = d /\ d # 0
        BY LiveIsRow
      <4> QED
        BY <4>1, <2>2, <1>5
    <3> QED
      BY <2>2, <3>1, <1>1, <1>5, <1>8, <1>11, Untouched
  <2> QED
    BY <2>1, <2>2
<1>17. actor'[a].pc \notin Selling
  BY <1>11
<1> QED
  BY <1>5, <1>11, <1>12, <1>13, <1>14, <1>15, <1>16, <1>17, WriteStep

-----------------------------------------------------------------------------
\* Every step keeps the invariant.
LEMMA MissionStep == Whole /\ MissionInv /\ [Next]_vars => MissionInv'
<1> SUFFICES ASSUME Whole, MissionInv, [Next]_vars
             PROVE  MissionInv'
  OBVIOUS
<1>1. CASE Enter \/ ResolvePause \/ Tick \/ Reenter
  BY <1>1, SubmitSteps
<1>2. ASSUME NEW a \in Actors, BuyFills(a) \/ BuyFails(a) \/ PersistBuy(a)
      PROVE  MissionInv'
  BY <1>2, BuyFillsStep, EndingSteps, PersistBuyStep
<1>3. ASSUME NEW a \in {"worker", "dash"},
             SellFills(a) \/ SellFails(a) \/ PersistClose(a)
      PROVE  MissionInv'
  BY <1>3, SellFillsStep, EndingSteps, PersistCloseStep DEF Actors
<1>4. CASE PersistExit("worker") \/ StopDeal \/ PersistStop \/ WritePause
  BY <1>4, PersistExitStep, StopDealStep, PersistStopStep, WritePauseStep
<1>5. ASSUME NEW c \in Campaigns, StopCampaign(c) \/ Activate(c) \/ CoolDown(c)
      PROVE  MissionInv'
  BY <1>5, StopCampaignStep, SubmitSteps, UnmovedSteps
<1>6. ASSUME NEW kind \in {"tp", "safety"}, ManualOrder(kind)
      PROVE  MissionInv'
  BY <1>6, SubmitSteps
<1>7. ASSUME NEW kind \in {"exit", "tp", "sl", "safety"}, Trade(kind)
      PROVE  MissionInv'
  BY <1>7, SubmitSteps
<1>8. CASE ReadRow \/ LookUp \/ Repair \/ Search \/ Attach
  BY <1>8, ReadRowStep, LookUpStep, RepairStep, SearchStep, AttachStep
<1>9. CASE EndTick \/ SwitchMode \/ UNCHANGED vars
  BY <1>9, EndingSteps, UnmovedSteps
<1> QED
  BY <1>1, <1>2, <1>3, <1>4, <1>5, <1>6, <1>7, <1>8, <1>9 DEF Next

\* What the two properties say of a mission is part of the invariant.
LEMMA MissionSafe == Whole /\ MissionInv => MissionsAgree /\ MissionBookedOnce
<1> SUFFICES ASSUME Whole, MissionInv
             PROVE  MissionsAgree /\ MissionBookedOnce
  OBVIOUS
<1> QED
  BY DEF MissionsAgree, MissionBookedOnce, InState, MissionInv, Clean, LiveClean, EndedClean,
         Live, Ended

\* Only a write that crosses a mission can part it from the row of its symbol, and the two
\* agree on whether it waits: a request of the dashboard, a buy or a sale that was begun for
\* another deal, or a tick that attaches or repairs a row that has changed since it was read.
\* Nothing else the worker, the dashboard or the signal plugin does, however it is interleaved.
THEOREM MissionsStayTogether == Whole => (Spec => []MissionsAgree)
<1> SUFFICES ASSUME Whole
             PROVE  Spec => []MissionsAgree
  OBVIOUS
<1>1. Init => MissionInv
  BY MissionInit
<1>2. MissionInv /\ [Next]_vars => MissionInv'
  BY MissionStep
<1>3. MissionInv => MissionsAgree
  BY MissionSafe
<1> QED
  BY <1>1, <1>2, <1>3, PTL DEF Spec

\* The summary of a mission books every leg it sold, and each once.
THEOREM MissionsAreBooked == Whole => (Spec => []MissionBookedOnce)
<1> SUFFICES ASSUME Whole
             PROVE  Spec => []MissionBookedOnce
  OBVIOUS
<1>1. Init => MissionInv
  BY MissionInit
<1>2. MissionInv /\ [Next]_vars => MissionInv'
  BY MissionStep
<1>3. MissionInv => MissionBookedOnce
  BY MissionSafe
<1> QED
  BY <1>1, <1>2, <1>3, PTL DEF Spec

==================================================================================
