----------------------------- MODULE ConfigStore -----------------------------
(***************************************************************************)
(* The configuration: rows of the database, cached whole in every process, *)
(* changed by requests of the dashboard that check, commit and publish, and *)
(* kept together by messages that name the changed keys. A request checks  *)
(* what its process remembers and commits later; the checks of the trade    *)
(* mode, the CSV signal and the live switch read the trades in between. A  *)
(* row with its default value stands for a row that is absent. A save asks *)
(* for the dry run by a word; the rows hold what is read of it.             *)
(***************************************************************************)
EXTENDS Naturals, FiniteSets

CONSTANTS Instances,   \* the processes that share the database
          Requests,    \* requests of the dashboard, each made once
          Updates,     \* what a save may ask for: functions from some keys to values,
                       \* a word of the caller for "dry"
          Stored,      \* the configurations a database may start with
          Backups,     \* the configurations of the backups
          MaxDeals     \* bound: deals opened

VARIABLES
    db,          \* the stored configuration
    mem,         \* the configuration each process remembers
    listener,    \* the subscription of each process: "starting", "on" or "dead"
    inbox,       \* the messages on their way to a process: the keys of each
    req,         \* where each request is, with what it saw on arrival
    open,        \* is a deal open
    opened,      \* deals opened so far (bounded)
    waiting,     \* does a sidestep campaign wait for its re-entry
    missed       \* history: keys a process was never told about

configVars == <<db, mem, listener, inbox, req, open, opened, waiting, missed>>

Keys == {"mode", "reentry", "signal", "dry", "paused", "fund"}
Default == [k \in Keys |->
    CASE k = "mode" -> "dynamic" [] k = "signal" -> "asap" [] k = "dry" -> TRUE
      [] OTHER -> FALSE]

NoRequest == [pc |-> "none", at |-> CHOOSE i \in Instances : TRUE,
              set |-> <<>>, kind |-> "save", deal |-> FALSE, fresh |-> TRUE]

Init ==
    /\ db \in Stored
    /\ mem = [i \in Instances |-> db]
    /\ listener = [i \in Instances |-> "on"]
    /\ inbox = [i \in Instances |-> {}]
    /\ req = [r \in Requests |-> NoRequest]
    /\ open \in BOOLEAN /\ opened = 0
    /\ waiting \in {FALSE, db["mode"] = "sidestep"}
    /\ missed = [i \in Instances |-> {}]

-----------------------------------------------------------------------------
\* What the caller of a save may say of the dry run: a word for it, one against it, and one
\* that is neither, as "disabled", or a number but 0 and 1.
Words == {"yes", "no", "disabled"}

\* The check takes for live what is a word against the dry run; the rows take for dry what
\* is a word for it.
ReadsDry(word) == word # "no"
Typed(key, value) == IF key = "dry" THEN value = "yes" ELSE value

\* The rows after the updates of a request.
With(config, set) == [k \in Keys |-> IF k \in DOMAIN set THEN Typed(k, set[k]) ELSE config[k]]

\* A saved or restored sidestep names its re-entry strategy; a loaded one need not.
Valid(config) == config["mode"] = "sidestep" => config["reentry"]

\* A general save that asks to go live is refused.
LiveBoundary(config, set) == "dry" \in DOMAIN set => (config["dry"] => ReadsDry(set["dry"]))

\* What has to be set before the live switch: here the fund, and the re-entry strategy
\* of a sidestep.
Ready(config) == config["fund"] /\ Valid(config)

\* The mode is to change, or the CSV signal is to be chosen.
Switches(config, set) == "mode" \in DOMAIN set /\ set["mode"] # config["mode"]
ChoosesCsv(config, set) ==
    "signal" \in DOMAIN set /\ set["signal"] = "csv" /\ config["signal"] # "csv"

\* A mistake: what is remembered is validated, not what it is about to become.
CheckedBefore(i, set) ==
    IF LiveBoundary(mem[i], set) /\ Valid(mem[i]) THEN "commit" ELSE "refused"

\* The checks that need no other read, and then the ones that wait for the trades.
Checked(i, set) ==
    IF LiveBoundary(mem[i], set) /\ Valid(With(mem[i], set)) THEN "commit" ELSE "refused"
AfterGuard(i, set) == IF ChoosesCsv(mem[i], set) THEN "csv" ELSE Checked(i, set)

\* r arrives at i with the updates set and goes on to pc.
Arrive(r, i, kind, set, pc) ==
    /\ req[r].pc = "none"
    /\ req' = [req EXCEPT ![r] =
           [pc |-> pc, at |-> i, kind |-> kind, set |-> set, deal |-> open,
            fresh |-> mem[i] = db]]
    /\ UNCHANGED <<db, mem, listener, inbox, open, opened, waiting, missed>>

\* One key or several are saved.
Ask(r, i) == \E set \in Updates :
    Arrive(r, i, "save", set,
           IF Switches(mem[i], set) THEN "guard" ELSE AfterGuard(i, set))

\* Pause and resume of the trading: nothing to do when it is so already.
Toggle(r, i) ==
    LET set == [k \in {"paused"} |-> ~mem[i]["paused"]]
    IN  Arrive(r, i, "save", set,
               IF Valid(With(mem[i], set)) THEN "commit" ELSE "refused")

\* The live switch.
Activate(r, i) ==
    /\ mem[i]["dry"]
    /\ LET set == [k \in {"dry"} |-> "no"]
       IN  Arrive(r, i, "activate", set,
                  IF Ready(mem[i]) THEN "commit" ELSE "refused")

\* The trades are counted for the change of the mode.
Guard(r) ==
    /\ req[r].pc = "guard"
    /\ req' = [req EXCEPT ![r].pc =
           IF open \/ waiting THEN "refused" ELSE AfterGuard(req[r].at, req[r].set)]
    /\ UNCHANGED <<db, mem, listener, inbox, open, opened, waiting, missed>>

\* They are counted again for the choice of the CSV signal.
CheckSignal(r) ==
    /\ req[r].pc = "csv"
    /\ req' = [req EXCEPT ![r].pc =
           IF open THEN "refused" ELSE Checked(req[r].at, req[r].set)]
    /\ UNCHANGED <<db, mem, listener, inbox, open, opened, waiting, missed>>

\* The rows are committed and the process remembers them; nothing is checked again.
Commit(r) ==
    LET i == req[r].at
    IN  /\ req[r].pc = "commit"
        /\ db' = With(db, req[r].set)
        /\ mem' = [mem EXCEPT ![i] = With(@, req[r].set)]
        /\ req' = [q \in Requests |->
               IF q = r THEN [req[r] EXCEPT !.pc = "publish"]
               ELSE [req[q] EXCEPT !.fresh = FALSE]]
        /\ UNCHANGED <<listener, inbox, open, opened, waiting, missed>>

\* The other processes are told the keys, if the channel works and they listen.
Publish(r) == \E works \in BOOLEAN :
    LET others == Instances \ {req[r].at}
        told == {i \in others : works /\ listener[i] = "on"}
        keys == DOMAIN req[r].set
    IN  /\ req[r].pc = "publish"
        /\ inbox' = [i \in Instances |->
               IF i \in told THEN inbox[i] \cup {keys} ELSE inbox[i]]
        /\ missed' = [i \in Instances |->
               IF i \in others \ told THEN missed[i] \cup keys ELSE missed[i]]
        /\ req' = [req EXCEPT ![r].pc = "done"]
        /\ UNCHANGED <<db, mem, listener, open, opened, waiting>>

-----------------------------------------------------------------------------
\* A mistake: a row that is gone stays remembered.
RereadRows(old, keys) ==
    [k \in Keys |-> IF k \in keys /\ db[k] # Default[k] THEN db[k] ELSE old[k]]

\* A told process reads the rows of the keys again; a row that is gone is forgotten.
Reread(old, keys) == [k \in Keys |-> IF k \in keys THEN db[k] ELSE old[k]]

Receive(i) == \E keys \in inbox[i] :
    /\ mem' = [mem EXCEPT ![i] = Reread(@, keys)]
    /\ inbox' = [inbox EXCEPT ![i] = @ \ {keys}]
    /\ missed' = [missed EXCEPT ![i] = @ \ keys]
    /\ UNCHANGED <<db, listener, req, open, opened, waiting>>

\* The listener ends with its connection and is not started again.
ListenerDies(i) ==
    /\ listener[i] = "on"
    /\ listener' = [listener EXCEPT ![i] = "dead"]
    /\ missed' = [missed EXCEPT ![i] = @ \cup UNION inbox[i]]
    /\ inbox' = [inbox EXCEPT ![i] = {}]
    /\ UNCHANGED <<db, mem, req, open, opened, waiting>>

\* A process starts again: it loads every row, and subscribes only then. What it had
\* committed and not published is told to nobody.
Restart(i) ==
    LET mine == {r \in Requests : req[r].at = i /\ req[r].pc \notin {"none", "done", "refused"}}
        untold == UNION {DOMAIN req[r].set : r \in {q \in mine : req[q].pc = "publish"}}
    IN  /\ mem' = [mem EXCEPT ![i] = db]
        /\ listener' = [listener EXCEPT ![i] = "starting"]
        /\ inbox' = [inbox EXCEPT ![i] = {}]
        /\ req' = [r \in Requests |->
               IF r \in mine THEN [req[r] EXCEPT !.pc = "refused"] ELSE req[r]]
        /\ missed' = [j \in Instances |->
               IF j = i THEN {} ELSE missed[j] \cup untold]
        /\ UNCHANGED <<db, open, opened, waiting>>

Subscribe(i) ==
    /\ listener[i] = "starting"
    /\ listener' = [listener EXCEPT ![i] = "on"]
    /\ UNCHANGED <<db, mem, inbox, req, open, opened, waiting, missed>>

-----------------------------------------------------------------------------
\* A backup is restored: it is validated on arrival,
Restore(r, i) == \E backup \in Backups :
    Arrive(r, i, "restore", backup, IF Valid(backup) THEN "backup" ELSE "refused")

\* one transaction replaces every row, with the trades when it is a full backup (no trade is
\* open in it here) and never the campaigns; no guard is asked and nobody is told,
ReplaceRows(r) == \E full \in BOOLEAN :
    /\ req[r].pc = "backup"
    /\ db' = req[r].set
    /\ missed' = [i \in Instances |-> missed[i] \cup {k \in Keys : db[k] # db'[k]}]
    /\ open' = (open /\ ~full)
    /\ req' = [q \in Requests |->
           IF q = r THEN [req[r] EXCEPT !.pc = "reload"]
           ELSE [req[q] EXCEPT !.fresh = FALSE, !.deal = @ /\ open']]
    /\ UNCHANGED <<mem, listener, inbox, opened, waiting>>

\* and the process that did it loads all of them.
Reload(r) ==
    /\ req[r].pc = "reload"
    /\ mem' = [mem EXCEPT ![req[r].at] = db]
    /\ missed' = [missed EXCEPT ![req[r].at] = {}]
    /\ req' = [req EXCEPT ![r].pc = "done"]
    /\ UNCHANGED <<db, listener, inbox, open, opened, waiting>>

-----------------------------------------------------------------------------
\* The traders: a deal opens, and closes, in sidestep mode with or without a campaign that waits.
OpenDeal ==
    /\ ~open /\ opened < MaxDeals
    /\ open' = TRUE /\ opened' = opened + 1
    /\ waiting' = FALSE
    /\ UNCHANGED <<db, mem, listener, inbox, req, missed>>

CloseDeal ==
    /\ open
    /\ open' = FALSE
    /\ waiting' \in {FALSE, db["mode"] = "sidestep"}
    /\ req' = [r \in Requests |-> [req[r] EXCEPT !.deal = FALSE]]
    /\ UNCHANGED <<db, mem, listener, inbox, opened, missed>>

Next ==
    \/ OpenDeal \/ CloseDeal
    \/ \E r \in Requests :
          \/ Guard(r) \/ CheckSignal(r) \/ Commit(r) \/ Publish(r)
          \/ ReplaceRows(r) \/ Reload(r)
          \/ \E i \in Instances :
                Ask(r, i) \/ Toggle(r, i) \/ Activate(r, i) \/ Restore(r, i)
    \/ \E i \in Instances :
          Receive(i) \/ ListenerDies(i) \/ Restart(i) \/ Subscribe(i)

Spec == Init /\ [][Next]_configVars

-----------------------------------------------------------------------------
\* What a process remembers of a key differs from the stored row only while it is about to
\* be told, or was not told because the channel failed, it did not listen, the teller
\* died or a backup was restored elsewhere (service/config.py 320-347, 391-413).
InstancesAgree == \A i \in Instances, k \in Keys :
    mem[i][k] # db[k] =>
        \/ k \in missed[i]
        \/ \E keys \in inbox[i] : k \in keys
        \/ \E r \in Requests :
              req[r].pc = "publish" /\ req[r].at # i /\ k \in DOMAIN req[r].set

\* The steps in which a request commits, and a backup takes the place of the rows.
Committed(r) == req[r].pc = "commit" /\ req'[r].pc = "publish"
Restored(r) == req[r].pc = "backup" /\ req'[r].pc = "reload"

\* A request is undisturbed, "fresh", when its process knew the rows on arrival and nobody
\* else changed one since. Undisturbed requests keep three promises together: a stored
\* sidestep goes on naming its re-entry strategy; no mode changes under a deal that was open
\* on arrival and still is; and only the live switch takes the system live, on a
\* configuration that is ready, or a save with a word the check and the rows read
\* differently (controller/config.py 141-341, 624-688, service/config.py 244-247,
\* trade_lifecycle_config.py 223-276). A backup keeps the first promise, fresh or not.
ChangesGuarded == [][\A r \in Requests :
    /\ Committed(r) /\ req[r].fresh =>
         /\ Valid(db) => Valid(db')
         /\ db'["mode"] # db["mode"] => ~(req[r].deal /\ open)
         /\ db["dry"] /\ ~db'["dry"] =>
              \/ req[r].kind = "activate" /\ Ready(db)
              \/ req[r].kind = "save" /\ req[r].set["dry"] = "disabled"
    /\ Restored(r) => Valid(db')]_configVars
===============================================================================
