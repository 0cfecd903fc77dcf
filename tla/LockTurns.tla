------------------------------ MODULE LockTurns ------------------------------
(***************************************************************************)
(* How processes share a SQLite corpus's write lock over time.  A writer   *)
(* polls for the lock and gives up when it has waited LOCK_WAIT; one that  *)
(* observes many IRIs commits after a turn, and leaves the lock free for a *)
(* pause before it takes the next.  SQLite keeps no queue, so only that    *)
(* pause lets a poller in.                                                 *)
(*                                                                         *)
(* Time is discrete: Tick lets a unit of it pass, unless some process is   *)
(* already as late as it can be.  What the transactions do is in Corpus.   *)
(***************************************************************************)
EXTENDS Integers

CONSTANTS
    Procs,
    LockWait, LockTurn, TurnPause, BusyPoll,
    Late,       \* how far a sleep may overrun
    WorkMax,    \* how long an observation may take
    CommitMax,  \* how long a COMMIT or a ROLLBACK may take
    Unset

ASSUME TimesAssumption ==
    /\ LockWait \in Nat /\ LockTurn \in Nat \ {0} /\ TurnPause \in Nat
    /\ BusyPoll \in Nat \ {0} /\ Late \in Nat
    /\ WorkMax \in Nat /\ CommitMax \in Nat

ASSUME UnsetAssumption == Unset \notin Procs /\ Unset \notin Int

VARIABLES
    stage,      \* where each process is
    turns,   \* the processes that observe in turns; others hold the lock at will
    holder,  \* holder of the write lock
    since,   \* how long each process has been where it is
    held,    \* how long ago the holder took the lock (`locked_at`)
    waited,  \* how long each process has waited for the lock
    pause,   \* how long until each process may take its next turn (`next_turn`)
    free,    \* how long each process has left the lock free after a turn it used up
    short    \* history: a waiter's lock was given back before its turn was used up

lockVars == <<stage, turns, holder, since, held, waited, pause, free, short>>

-----------------------------------------------------------------------------
(* The passing of time. *)

\* The longest a turn of work may take, and the longest a poll may be late.
TurnMax == LockTurn + WorkMax + CommitMax
PollMax == BusyPoll + Late

\* Counting stops where nothing more depends on the count.
UpTo(n, top) == IF n < top THEN n + 1 ELSE top

MayWait(p) ==
    CASE stage[p] = "resting" -> pause[p] > -Late
      [] stage[p] = "asking" -> FALSE
      [] stage[p] = "napping" -> since[p] < PollMax
      [] stage[p] = "working" -> since[p] < WorkMax
      [] stage[p] = "committing" -> since[p] < CommitMax
      [] OTHER -> TRUE

Tick ==
    /\ \A p \in Procs : MayWait(p)
    /\ since' = [p \in Procs |-> UpTo(since[p], PollMax + WorkMax + CommitMax)]
    /\ held' = UpTo(held, TurnMax + 1)
    /\ waited' = [p \in Procs |->
                    IF stage[p] = "napping" THEN waited[p] + 1 ELSE waited[p]]
    /\ pause' = [p \in Procs |->
                   IF pause[p] = Unset THEN Unset
                   ELSE IF pause[p] > -Late THEN pause[p] - 1 ELSE pause[p]]
    /\ free' = [p \in Procs |->
                  IF free[p] = Unset \/ stage[p] = "committing" THEN free[p]
                  ELSE UpTo(free[p], TurnPause)]
    /\ UNCHANGED <<stage, turns, holder, short>>

Goes(p, place) ==
    /\ stage' = [stage EXCEPT ![p] = place]
    /\ since' = [since EXCEPT ![p] = 0]

-----------------------------------------------------------------------------
(* Taking the lock. *)

\* A batch sleeps out the pause set by the turn before, if there is one.
BatchStart(p) == IF pause[p] = Unset THEN "asking" ELSE "resting"

\* A caller's batch, however soon after the one before.
Call(p) ==
    /\ stage[p] \in {"idle", "failed"}
    /\ Goes(p, BatchStart(p))
    /\ UNCHANGED <<turns, holder, held, waited, pause, free, short>>

RestedAtOnce(p) == TRUE
Rested(p) == pause[p] <= 0

Wake(p) ==
    /\ stage[p] = "resting"
    /\ Rested(p)
    /\ pause' = [pause EXCEPT ![p] = Unset]
    /\ Goes(p, "asking")
    /\ UNCHANGED <<turns, holder, held, waited, free, short>>

TakeLock(p) ==
    /\ holder = Unset
    /\ holder' = p
    /\ held' = 0
    /\ free' = [free EXCEPT ![p] = Unset]
    /\ short' = [short EXCEPT ![p] = FALSE]
    /\ Goes(p, "working")
    /\ UNCHANGED waited

\* BEGIN IMMEDIATE takes the lock or starts waiting for it.
Begin(p) ==
    /\ stage[p] = "asking"
    /\ \/ TakeLock(p)
       \/ /\ holder # Unset
          /\ waited' = [waited EXCEPT ![p] = 0]
          /\ short' = [short EXCEPT ![p] = FALSE]
          /\ Goes(p, "napping")
          /\ UNCHANGED <<holder, held, free>>
    /\ UNCHANGED <<turns, pause>>

\* Whether the busy handler's deadline has passed.
NeverGivesUp(p) == FALSE
GivesUp(p) == waited[p] >= LockWait

\* The busy handler slept: SQLite tries the lock again.
Retry(p) ==
    /\ stage[p] = "napping"
    /\ since[p] >= BusyPoll
    /\ \/ TakeLock(p)
       \/ /\ holder # Unset
          /\ ~GivesUp(p)
          /\ Goes(p, "napping")
          /\ UNCHANGED <<holder, held, waited, free, short>>
    /\ UNCHANGED <<turns, pause>>

TimeOut(p) ==
    /\ stage[p] = "napping"
    /\ since[p] >= BusyPoll
    /\ holder # Unset
    /\ GivesUp(p)
    /\ Goes(p, "failed")
    /\ UNCHANGED <<turns, holder, held, waited, pause, free, short>>

-----------------------------------------------------------------------------
(* A turn. *)

TurnNeverOver(p) == FALSE
TurnOver(p) == p \in turns /\ held >= LockTurn

\* An observation is done and another follows.
ObserveOne(p) ==
    /\ stage[p] = "working"
    /\ ~TurnOver(p)
    /\ Goes(p, "working")
    /\ UNCHANGED <<turns, holder, held, waited, pause, free, short>>

\* The pause after a turn of this length.
NoPause == Unset
NextTurn == IF held >= LockTurn THEN TurnPause ELSE Unset

\* The turn, the list or the batch is over; so is a turn whose observation failed.
EndTurn(p) ==
    /\ stage[p] = "working"
    /\ pause' = [pause EXCEPT ![p] = NextTurn]
    /\ free' = [free EXCEPT ![p] = IF held >= LockTurn THEN 0 ELSE Unset]
    /\ Goes(p, "committing")
    /\ UNCHANGED <<turns, holder, held, waited, short>>

\* Everyone who waits has seen the lock let go by a process that owes no pause.
Shortened == [p \in Procs |-> short[p] \/ stage[p] = "napping"]

\* The transaction ends, and with it the lock; a list cut by its turn goes on.
Release(p) ==
    /\ stage[p] = "committing"
    /\ holder' = Unset
    /\ \/ Goes(p, "idle")
       \/ p \in turns /\ free[p] # Unset /\ Goes(p, BatchStart(p))
    /\ short' = IF free[p] = Unset THEN Shortened ELSE short
    /\ UNCHANGED <<turns, held, waited, pause, free>>

\* The process dies or ends; the one started in its place knows of no pause.
Crash(p) ==
    /\ stage[p] # "idle" \/ pause[p] # Unset
    /\ holder' = IF holder = p THEN Unset ELSE holder
    /\ pause' = [pause EXCEPT ![p] = Unset]
    /\ free' = [free EXCEPT ![p] = Unset]
    /\ short' = [Shortened EXCEPT ![p] = FALSE]
    /\ Goes(p, "idle")
    /\ UNCHANGED <<turns, held, waited>>

LockInit ==
    /\ stage = [p \in Procs |-> "idle"]
    /\ turns \in SUBSET Procs
    /\ holder = Unset
    /\ since = [p \in Procs |-> 0]
    /\ held = 0
    /\ waited = [p \in Procs |-> 0]
    /\ pause = [p \in Procs |-> Unset]
    /\ free = [p \in Procs |-> Unset]
    /\ short = [p \in Procs |-> FALSE]

Step(p) ==
    \/ Call(p) \/ Wake(p) \/ Begin(p) \/ Retry(p) \/ TimeOut(p)
    \/ ObserveOne(p) \/ EndTurn(p) \/ Release(p) \/ Crash(p)

LockNext == Tick \/ \E p \in Procs : Step(p)

LockSpec == LockInit /\ [][LockNext]_lockVars

-----------------------------------------------------------------------------
(* Properties. *)

Stages ==
    {"idle", "resting", "asking", "napping", "working", "committing", "failed"}

\* Every variable has its type (the clocks of SqliteStorage).
ClocksOK ==
    /\ stage \in [Procs -> Stages]
    /\ turns \subseteq Procs
    /\ holder \in Procs \union {Unset}
    /\ since \in [Procs -> Nat]
    /\ held \in 0..TurnMax + 1
    /\ waited \in [Procs -> Nat]
    /\ pause \in [Procs -> (-Late..TurnPause) \union {Unset}]
    /\ free \in [Procs -> (0..TurnPause) \union {Unset}]
    /\ short \in [Procs -> BOOLEAN]

\* A process that observes in turns never keeps the lock longer than a turn, the
\* observation that ends it and its COMMIT (corpus.rs `observe_all`).
TurnBounded == holder \in turns => held <= TurnMax

\* Whoever holds the lock, a waiter knows within LOCK_WAIT and a poll whether it
\* gets it (storage_sqlite.rs `wait_for_lock`).
WaitBounded == \A p \in Procs : stage[p] = "napping" => waited[p] <= LockWait + PollMax

\* The pause outlasts a COMMIT and a late poll, and a turn is shorter than LOCK_WAIT.
PauseOutlastsPoll == CommitMax + PollMax < TurnPause /\ TurnMax < LockWait

\* Beside one other process, which observes in turns, a writer gives up waiting only
\* if that process gave the lock back early, before its turn was used up, or died:
\* a pause after every whole turn is enough, and none is owed after a short one
\* (storage_sqlite.rs `end_turn`, `batch_begin`, `wait_for_lock`).
WholeTurnsServe ==
    PauseOutlastsPoll =>
        \A p, q \in Procs :
            Procs = {p, q} /\ Procs \ {p} \subseteq turns /\ stage[p] = "failed"
                => short[p]

\* A process that used a whole turn leaves the lock free for at least the pause
\* less its own COMMIT before it retakes it (storage_sqlite.rs `batch_begin`).
LeavesLockFree ==
    [][\A p \in Procs :
         holder # p /\ holder' = p /\ free[p] # Unset
            => free[p] >= TurnPause - CommitMax]_lockVars

=============================================================================
