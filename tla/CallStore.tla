------------------------------ MODULE CallStore -------------------------------
(***************************************************************************)
(* calls.db and the processes that open it (Store in record.rs, run_all    *)
(* and spawn_record_write in proxy.rs): the table is made, migrated one    *)
(* column at a time, written to and read, while `turnpike start' may run   *)
(* twice, be told to stop, or be killed anywhere.                          *)
(*                                                                         *)
(* Every statement is one transaction of SQLite, so an action of its own.  *)
(***************************************************************************)
EXTENDS Reports, SequencesExt

CONSTANTS
  Processes,
  Calls,     \* what may be recorded of a call: a row but for its id
  OldRows,   \* what an older release may have left on file: sequences of rows
  Failing,   \* may the source of random ids fail?
  Nows,      \* when the reports are asked for
  MaxCalls,  \* bound on the calls made
  MaxStarts  \* bound on the starts of a process

ASSUME StoreAssumption ==
  /\ Failing \in BOOLEAN /\ Nows \subseteq Int /\ MaxCalls \in Nat /\ MaxStarts \in Nat

\* The columns of a row.
Columns == {"id"} \cup UNION {DOMAIN call : call \in Calls}

\* Every call has a value for each column but the id.
ASSUME CallsAssumption ==
  \A call \in Calls : call = [c \in Columns \ {"id"} |-> call[c]]

\* The ids an older release drew are different ones, and none is drawn again; TLC draws
\* natural numbers.
ASSUME OldRowsAssumption ==
  \A old \in OldRows :
    /\ old \in Seq({old[i] : i \in DOMAIN old})
    /\ \A i \in DOMAIN old : old[i] = [c \in Columns |-> old[i][c]] /\ old[i].id \notin Nat
    /\ \A i, j \in DOMAIN old : old[i].id = old[j].id => i = j

\* The columns that every release has had and the reports compute with.
Figures == {"ts", "latency", "provider", "input", "output", "read", "write", "cost", "entry", "price"}

\* A row has an instant, a provider, a latency, counts and money.
HasFigures(r) ==
  /\ Figures \subseteq DOMAIN r
  /\ r.ts \in Int /\ r.provider # Nobody
  /\ {r.latency, r.input, r.output, r.read, r.write} \subseteq Nat
  /\ r.cost \in Nat \cup {Unknown} /\ r.price \in Nat
  /\ r.entry \in {"none", "additive", "subset"}

ASSUME FiguresAssumption ==
  /\ \A call \in Calls : HasFigures(call)
  /\ \A old \in OldRows : \A i \in DOMAIN old : HasFigures(old[i])

\* The calendar has a month for every question asked.
ASSUME CalendarAssumption ==
  \A now \in Nows : \E f \in MonthStarts :
    f <= LocalDay(now) /\ \A g \in MonthStarts : g <= LocalDay(now) => g <= f

\* The columns added since the first release, as init adds them.
Appended == <<"client", "endpoint", "anomaly", "raw_usage", "peer_exe", "client_source">>

\* "id" stands for the columns of the first release.
AllColumns == {"id"} \cup {Appended[i] : i \in DOMAIN Appended}

\* insert names them all.
ASSUME ColumnsAssumption == AllColumns \subseteq Columns

\* The id of sixteen zero bytes.
Zeros == 0

VARIABLES
  file,   \* does calls.db exist?
  cols,   \* the columns of its table; none without a table
  rows,   \* its rows, by rowid
  stage,  \* of each process: down, opened, adding, serving, stopping, exiting
  step,   \* of each process: the next column to add
  jobs,   \* the calls whose rows are to be written, in the order they were made
  starts

vars == <<file, cols, rows, stage, step, jobs, starts>>

Job == [by : Processes, call : Calls, id : Nat,
        at : {"pending", "started", "written", "dropped", "killed"}]

\* insert names every column.
Row(call, id) == [c \in DOMAIN call \cup {"id"} |-> IF c = "id" THEN id ELSE call[c]]

\* A database as the first k migrations left it.
Aged(old, k) ==
  [i \in DOMAIN old |-> [c \in DOMAIN old[i] |->
     IF c \in {Appended[j] : j \in k + 1..Len(Appended)} THEN Nobody ELSE old[i][c]]]

Init ==
  /\ \/ file = FALSE /\ cols = {} /\ rows = <<>>
     \/ /\ file = TRUE
        /\ \E k \in 0..Len(Appended), old \in OldRows :
             /\ cols = {"id"} \cup {Appended[i] : i \in 1..k}
             /\ rows = Aged(old, k)
  /\ stage = [p \in Processes |-> "down"] /\ step = [p \in Processes |-> 1]
  /\ jobs = <<>> /\ starts = 0

-----------------------------------------------------------------------------
(***************************************************************************)
(* Opening: Store::open, then the sockets.                                 *)
(***************************************************************************)
To(p, s) == stage' = [stage EXCEPT ![p] = s]

Down(p) == To(p, "down") /\ step' = [step EXCEPT ![p] = 1]

\* Connection::open and the pragmas: the file is there, if empty.
Open(p) ==
  /\ stage[p] = "down" /\ starts < MaxStarts
  /\ file' = TRUE /\ starts' = starts + 1
  /\ To(p, "opened")
  /\ UNCHANGED <<cols, rows, step, jobs>>

\* CREATE TABLE IF NOT EXISTS, with every column.
Create(p) ==
  /\ stage[p] = "opened"
  /\ cols' = IF cols = {} THEN AllColumns ELSE cols
  /\ To(p, "adding")
  /\ UNCHANGED <<file, rows, step, jobs, starts>>

\* Slip: the rows there are get a default.
DefaultsToAgent(c) == [i \in DOMAIN rows |-> [rows[i] EXCEPT ![c] = "ua"]]

\* The rows there are have NULL in a new column.
Widened(c) == [i \in DOMAIN rows |-> [rows[i] EXCEPT ![c] = Nobody]]

\* Slip: a column that exists means that the table is up to date.
StopAtDuplicate(p) == IF Appended[step[p]] \in cols THEN Len(Appended) + 1 ELSE step[p] + 1

\* Slip: a column that exists is tried again.
AgainAtDuplicate(p) == IF Appended[step[p]] \in cols THEN step[p] ELSE step[p] + 1

\* A column that exists is success.
NextStep(p) == step[p] + 1

\* add_column: one ALTER TABLE.
AddColumn(p) ==
  /\ stage[p] = "adding" /\ step[p] <= Len(Appended)
  /\ LET c == Appended[step[p]]
     IN  /\ rows' = IF c \in cols THEN rows ELSE Widened(c)
         /\ cols' = cols \cup {c}
  /\ step' = [step EXCEPT ![p] = NextStep(p)]
  /\ UNCHANGED <<file, stage, jobs, starts>>

\* The ports are taken by one process; another's run_all returns the error.
Bind(p) ==
  /\ stage[p] = "adding" /\ step[p] > Len(Appended)
  /\ IF \E q \in Processes : stage[q] = "serving" THEN Down(p)
     ELSE To(p, "serving") /\ UNCHANGED step
  /\ UNCHANGED <<file, cols, rows, jobs, starts>>

\* A statement of init, or another program's socket, fails: run_all returns the error.
OpenFails(p) ==
  /\ stage[p] \in {"opened", "adding"}
  /\ Down(p)
  /\ UNCHANGED <<file, cols, rows, jobs, starts>>

-----------------------------------------------------------------------------
(***************************************************************************)
(* Calls and their rows                                                    *)
(***************************************************************************)
\* Slip: ids are drawn anew in every process.
PerProcessId(p) == {1 + Cardinality({j \in DOMAIN jobs : jobs[j].by = p})}

\* new_call_id: sixteen random bytes, never the same twice; zeros if they cannot be had.
NewCallId(p) == {1 + Len(jobs)} \cup (IF Failing THEN {Zeros} ELSE {})

\* handle_request: from here on the call will have a row, once its tasks get there.
Call(p) ==
  /\ stage[p] = "serving" /\ Len(jobs) < MaxCalls
  /\ \E call \in Calls, id \in NewCallId(p) :
       jobs' = Append(jobs, [by |-> p, call |-> call, id |-> id, at |-> "pending"])
  /\ UNCHANGED <<file, cols, rows, stage, step, starts>>

Becomes(S, at) == [j \in DOMAIN jobs |-> IF j \in S THEN [jobs[j] EXCEPT !.at = at] ELSE jobs[j]]

\* spawn_record_write, and a thread of the blocking pool takes the job.
StartWrite(j) ==
  /\ j \in DOMAIN jobs /\ jobs[j].at = "pending" /\ stage[jobs[j].by] # "down"
  /\ jobs' = Becomes({j}, "started")
  /\ UNCHANGED <<file, cols, rows, stage, step, starts>>

\* Slip: INSERT OR REPLACE.
InsertOrReplace(row) == Append(SelectSeq(rows, LAMBDA r : r.id # row.id), row)

InsertOrIgnore(row) ==
  IF \E i \in DOMAIN rows : rows[i].id = row.id THEN rows ELSE Append(rows, row)

\* Store::insert, under the store's mutex.
Insert(j) ==
  /\ j \in DOMAIN jobs /\ jobs[j].at = "started" /\ stage[jobs[j].by] # "down"
  /\ rows' = InsertOrIgnore(Row(jobs[j].call, jobs[j].id))
  /\ jobs' = Becomes({j}, "written")
  /\ UNCHANGED <<file, cols, stage, step, starts>>

-----------------------------------------------------------------------------
(***************************************************************************)
(* Stopping                                                                *)
(***************************************************************************)
Of(p, at) == {j \in DOMAIN jobs : jobs[j].by = p /\ jobs[j].at = at}

\* SIGINT or SIGTERM: the servers accept no more.
Signal(p) ==
  /\ stage[p] = "serving"
  /\ To(p, "stopping")
  /\ UNCHANGED <<file, cols, rows, step, jobs, starts>>

\* The servers have ended: the WAL is folded back and run_all returns.  The runtime
\* cancels the tasks that are left, and the jobs no thread has taken.
Finish(p) ==
  /\ stage[p] = "stopping"
  /\ To(p, "exiting")
  /\ jobs' = Becomes(Of(p, "pending"), "dropped")
  /\ UNCHANGED <<file, cols, rows, step, starts>>

\* Slip: the jobs that have begun are left behind.
AnyTime(p) == TRUE

WritesAreOver(p) == Of(p, "started") = {}

\* The runtime waits for the threads of the blocking pool.
Exit(p) ==
  /\ stage[p] = "exiting" /\ WritesAreOver(p)
  /\ Down(p)
  /\ UNCHANGED <<file, cols, rows, jobs, starts>>

\* Killed: whatever is not in the database is gone.
Kill(p) ==
  /\ stage[p] # "down"
  /\ Down(p)
  /\ jobs' = Becomes(Of(p, "pending") \cup Of(p, "started"), "killed")
  /\ UNCHANGED <<file, cols, rows, starts>>

-----------------------------------------------------------------------------
Steps(p) == Create(p) \/ AddColumn(p) \/ Bind(p) \/ Finish(p) \/ Exit(p)

Writes(j) == StartWrite(j) \/ Insert(j)

Next ==
  \/ \E p \in Processes :
       Open(p) \/ OpenFails(p) \/ Call(p) \/ Signal(p) \/ Kill(p) \/ Steps(p)
  \/ \E j \in 1..MaxCalls : Writes(j)

Spec == Init /\ [][Next]_vars

\* A process goes on until it serves, a job until it is written, and open connections
\* end once a process is told to stop.
FairSpec ==
  /\ Spec
  /\ \A p \in Processes : WF_vars(Steps(p))
  /\ \A j \in 1..MaxCalls : WF_vars(Writes(j))

-----------------------------------------------------------------------------
(***************************************************************************)
(* Properties of the store                                                 *)
(***************************************************************************)
\* The type invariant.
TypeOK ==
  /\ file \in BOOLEAN /\ cols \subseteq AllColumns
  /\ \A r \in Range(rows) : DOMAIN r = Columns
  /\ stage \in [Processes -> {"down", "opened", "adding", "serving", "stopping", "exiting"}]
  /\ step \in [Processes -> 1..Len(Appended) + 1]
  /\ jobs \in Seq(Job) /\ Len(jobs) <= MaxCalls
  /\ starts \in 0..MaxStarts

\* The table a process has been migrating has the columns it has come past, whoever
\* added them, wherever an earlier start was killed, and when it takes calls it has all
\* that insert names (record.rs, 153-161).
WritersFindEveryColumn ==
  \A p \in Processes :
    /\ stage[p] \notin {"down", "opened"} => \A i \in 1..step[p] - 1 : Appended[i] \in cols
    /\ stage[p] \in {"serving", "stopping", "exiting"} => cols = AllColumns

\* A call whose row was written has it, under its own id, and once; of the calls whose id
\* is the zeros for want of random bytes one row is there, the first one's, which RowsStay
\* keeps (proxy.rs: new_call_id).
EveryWriteIsKept ==
  \A j \in DOMAIN jobs : jobs[j].at = "written" =>
    LET own == {i \in DOMAIN rows : rows[i].id = jobs[j].id}
    IN  /\ Cardinality(own) = 1
        /\ jobs[j].id # Zeros => \A i \in own : rows[i] = Row(jobs[j].call, jobs[j].id)

\* A row that is on file stays, as it was written, whatever is inserted or migrated later.
RowsStay ==
  [][ rows' # rows =>
        /\ Len(rows) <= Len(rows')
        /\ \A i \in DOMAIN rows : \A c \in DOMAIN rows[i] :
             c \in cols \/ c \notin AllColumns => rows'[i][c] = rows[i][c] ]_vars

\* A process that has begun to open the store takes calls, finds the ports taken, fails or
\* is killed: no statement of another's migration holds it for ever.
OpeningEnds == \A p \in Processes : stage[p] = "opened" ~> stage[p] \in {"serving", "down"}

\* A write that a thread has begun ends in the database also when the process is told to
\* stop, unless it is killed (proxy.rs, 147-154: the jobs are not awaited, but the runtime
\* waits for its threads).
WritesEnd ==
  \A j \in 1..MaxCalls :
    (j \in DOMAIN jobs /\ jobs[j].at = "started")
      ~> (j \in DOMAIN jobs /\ jobs[j].at \in {"written", "killed"})

-----------------------------------------------------------------------------
(***************************************************************************)
(* Properties of the reports                                               *)
(***************************************************************************)
\* A report sees rows and columns alone, and these outlive whatever process is killed: the
\* databases of no process are all there are.
AtRest == \A p \in Processes : stage[p] = "down"

Bounds == {Empty} \cup {Text(rows[i].ts) : i \in DOMAIN rows}

\* A figure of every group, summed.
Sum(groups, field) ==
  LET keys == SetToSeq(DOMAIN groups)
  IN  Total([n \in DOMAIN keys |-> groups[keys[n]][field]], Len(keys))

\* stats in any grouping, check and tail tell of the same calls and the same money
\* (cost.rs: `so the two can never drift'): no grouping loses a row.
ReportsAgree ==
  AtRest => \A bound \in Bounds :
    LET due   == Spend(rows, bound)
        shown == Tailed(rows, cols, bound, Len(rows))
    IN  /\ Total([i \in DOMAIN shown |-> shown[i].cost], Len(rows)) = due.spent
        /\ \A g \in Groupings : StatsNeeds(g) \subseteq cols =>
             LET told == Stats(rows, cols, g, bound)
             IN  /\ Sum(told.groups, "calls") = Cardinality(DOMAIN shown)
                 /\ Sum(told.groups, "cost") = due.spent
                 /\ told.unpriced = due.unpriced

\* A migration changes no answer a reader could have had before it (record.rs: `old
\* databases stay readable').
MigrationRegroupsNothing ==
  [][ cols' # cols =>
        /\ \A g \in Groupings : StatsNeeds(g) \subseteq cols =>
             Stats(rows', cols', g, Empty) = Stats(rows, cols, g, Empty)
        /\ TailNeeds \subseteq cols =>
             Tailed(rows', cols', Empty, 2) = Tailed(rows, cols, Empty, 2) ]_vars

\* The p50 and p95 of a group are the least latencies that half and 95 of 100 of its calls
\* do not exceed (stats.rs: `nearest-rank'), and its cache hits are a part of the prompts
\* they are a rate of, if the table knows the models of the group (stats.rs: `respecting
\* each model's cache accounting shape').
FiguresAreSound ==
  AtRest => \A g \in Groupings : StatsNeeds(g) \subseteq cols =>
    LET groups == Stats(rows, cols, g, Empty).groups
        of(k)  == {i \in DOMAIN rows : Key(g, cols, rows[i]) = k}
        upto(k, v) == Cardinality({i \in of(k) : rows[i].latency <= v})
        Nearest(k, p, v) ==
          /\ \E i \in of(k) : rows[i].latency = v
          /\ 100 * upto(k, v) >= p * Cardinality(of(k))
          /\ 100 * upto(k, v - 1) < p * Cardinality(of(k))
        Known(k) == \A i \in of(k) : rows[i].entry # "none"
    IN  \A k \in DOMAIN groups :
          /\ Nearest(k, 50, groups[k].p50) /\ Nearest(k, 95, groups[k].p95)
          /\ Known(k) => groups[k].read <= groups[k].denom

\* Are the two instants in the same local day, week or month?
SamePeriod(period, t, now) ==
  LET d == LocalDay(t)
      n == LocalDay(now)
  IN  CASE period = "day"   -> d = n
        [] period = "week"  -> (d - Monday) \div 7 = (n - Monday) \div 7
        [] period = "month" -> \A f \in MonthStarts : f <= d <=> f <= n

\* A calendar window holds the calls made in the same local day, week or month as the
\* question, save those in a fraction of its first second (check.rs: `calendar windows in
\* local time').
PeriodsHoldTheirCalls ==
  AtRest => \A r \in Range(rows), now \in Nows, period \in {"day", "week", "month"} : r.ts <= now =>
    LET bound == WindowBound([form |-> period, at |-> 0], now)
    IN  IF AtOrAfter(r.ts, bound) THEN SamePeriod(period, r.ts, now)
        ELSE SamePeriod(period, r.ts, now) => r.ts = bound.at + 1
===============================================================================
