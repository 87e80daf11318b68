--------------------------- MODULE CallStoreProofs ---------------------------
(***************************************************************************)
(* Whoever opens, migrates, writes, stops or is killed, no row that is on  *)
(* file is lost: theorems about CallStore, for any number of processes,    *)
(* calls and starts.                                                       *)
(***************************************************************************)
EXTENDS CallStore, FiniteSetTheorems, WellFoundedInduction, TLAPS

Stages == {"down", "opened", "adding", "serving", "stopping", "exiting"}

Width == Len(Appended)

\* The table and the processes that migrate it.
SchemaTypes ==
  /\ cols \subseteq AllColumns
  /\ stage \in [Processes -> Stages] /\ step \in [Processes -> 1..Width + 1]

\* A process has added, or found, the columns it has come past.
Past ==
  \A p \in Processes :
    /\ stage[p] \in {"down", "opened"} => step[p] = 1
    /\ stage[p] \notin {"down", "opened"} =>
         "id" \in cols /\ \A i \in 1..step[p] - 1 : Appended[i] \in cols

\* It takes calls once it has come past them all.
AllAdded == \A p \in Processes : stage[p] \in {"serving", "stopping", "exiting"} => step[p] = Width + 1

\* A table is not without the columns of the first release.
NoHalfTable == cols # {} => "id" \in cols

SchemaInv == SchemaTypes /\ Past /\ AllAdded /\ NoHalfTable

-----------------------------------------------------------------------------
\* The columns added are six, none of them of the first release.
LEMMA AppendedColumns ==
  /\ Width = 6 /\ DOMAIN Appended = 1..Width
  /\ \A i \in 1..Width : Appended[i] # "id" /\ Appended[i] \in AllColumns
BY DEF Appended, Width, AllColumns

\* A table with the columns of the first release and the six has them all.
LEMMA Complete ==
  ASSUME cols \subseteq AllColumns, "id" \in cols, \A i \in 1..Width : Appended[i] \in cols
  PROVE  cols = AllColumns
BY AppendedColumns DEF AllColumns

\* The invariant says what a writer relies on.
LEMMA SchemaSays == SchemaInv => WritersFindEveryColumn
<1> SUFFICES ASSUME SchemaInv, NEW p \in Processes
             PROVE  /\ stage[p] \notin {"down", "opened"} => \A i \in 1..step[p] - 1 : Appended[i] \in cols
                    /\ stage[p] \in {"serving", "stopping", "exiting"} => cols = AllColumns
  BY DEF WritersFindEveryColumn
<1>1. stage[p] \notin {"down", "opened"} => \A i \in 1..step[p] - 1 : Appended[i] \in cols
  BY DEF SchemaInv, Past
<1>2. ASSUME stage[p] \in {"serving", "stopping", "exiting"} PROVE cols = AllColumns
  <2>1. "id" \in cols /\ \A i \in 1..step[p] - 1 : Appended[i] \in cols
    BY <1>2 DEF SchemaInv, Past
  <2>2. step[p] - 1 = Width
    BY <1>2, AppendedColumns DEF SchemaInv, AllAdded
  <2> QED
    BY <2>1, <2>2, Complete DEF SchemaInv, SchemaTypes
<1> QED
  BY <1>1, <1>2

\* Whatever a release has left on file.
LEMMA SchemaInit == Init => SchemaInv
<1> SUFFICES ASSUME Init PROVE SchemaInv
  OBVIOUS
<1>1. cols \subseteq AllColumns /\ (cols # {} => "id" \in cols)
  <2>1. CASE cols = {}
    BY <2>1
  <2>2. CASE \E k \in 0..Len(Appended) : cols = {"id"} \cup {Appended[i] : i \in 1..k}
    BY <2>2, AppendedColumns DEF AllColumns, Width
  <2> QED
    BY <2>1, <2>2 DEF Init
<1>2. stage = [p \in Processes |-> "down"] /\ step = [p \in Processes |-> 1]
  BY DEF Init
<1>3. 1 \in 1..Width + 1
  BY AppendedColumns
<1>4. SchemaTypes
  BY <1>1, <1>2, <1>3 DEF SchemaTypes, Stages
<1> QED
  BY <1>1, <1>2, <1>4 DEF SchemaInv, Past, AllAdded, NoHalfTable

\* A step that leaves the table alone and takes one process on keeps it.
LEMMA SchemaMove ==
  ASSUME SchemaInv, NEW p \in Processes, NEW s \in Stages, NEW n \in 1..Width + 1,
         stage' = [stage EXCEPT ![p] = s], step' = [step EXCEPT ![p] = n],
         cols \subseteq cols', cols' \subseteq AllColumns, cols' # {} => "id" \in cols',
         s \in {"down", "opened"} => n = 1,
         s \notin {"down", "opened"} => "id" \in cols' /\ \A i \in 1..n - 1 : Appended[i] \in cols',
         s \in {"serving", "stopping", "exiting"} => n = Width + 1
  PROVE  SchemaInv'
<1> USE DEF SchemaInv
<1>1. SchemaTypes'
  BY DEF SchemaTypes, Width
<1>2. \A q \in Processes : /\ stage'[q] = IF q = p THEN s ELSE stage[q]
                           /\ step'[q] = IF q = p THEN n ELSE step[q]
  BY DEF SchemaTypes
<1>3. Past'
  BY <1>2 DEF Past
<1>4. AllAdded'
  BY <1>2 DEF AllAdded, Width
<1> QED
  BY <1>1, <1>3, <1>4 DEF NoHalfTable

LEMMA SchemaStep == SchemaInv /\ [Next]_vars => SchemaInv'
<1> SUFFICES ASSUME SchemaInv, [Next]_vars PROVE SchemaInv'
  OBVIOUS
<1>0. /\ SchemaTypes /\ Past /\ AllAdded /\ NoHalfTable
      /\ 1 \in 1..Width + 1 /\ Width + 1 \in 1..Width + 1 /\ Width \in Nat
  BY AppendedColumns DEF SchemaInv
<1>a. ASSUME UNCHANGED <<cols, stage, step>> PROVE SchemaInv'
  BY <1>a, <1>0 DEF SchemaInv, SchemaTypes, Past, AllAdded, NoHalfTable, Width
<1>b. ASSUME NEW p \in Processes PROVE step = [step EXCEPT ![p] = step[p]] /\ step[p] \in 1..Width + 1
  BY <1>0 DEF SchemaTypes
<1>1. ASSUME NEW p \in Processes, Open(p) PROVE SchemaInv'
  <2>1. step[p] = 1 /\ UNCHANGED <<cols, step>> /\ stage' = [stage EXCEPT ![p] = "opened"]
    BY <1>1, <1>0 DEF Open, To, Past
  <2> QED
    BY <2>1, <1>0, <1>b, SchemaMove DEF SchemaTypes, NoHalfTable, Stages
<1>2. ASSUME NEW p \in Processes, Create(p) PROVE SchemaInv'
  <2>1. step[p] = 1 /\ UNCHANGED step /\ stage' = [stage EXCEPT ![p] = "adding"]
    BY <1>2, <1>0 DEF Create, To, Past
  <2>2. cols \subseteq cols' /\ cols' \subseteq AllColumns /\ "id" \in cols'
    BY <1>2, <1>0 DEF Create, SchemaTypes, NoHalfTable, AllColumns
  <2>3. \A i \in 1..1 - 1 : Appended[i] \in cols'
    OBVIOUS
  <2>4. "adding" \in Stages /\ "adding" \notin {"down", "opened", "serving", "stopping", "exiting"}
    BY DEF Stages
  <2> QED
    BY <2>1, <2>2, <2>3, <2>4, <1>0, <1>b, SchemaMove
<1>3. ASSUME NEW p \in Processes, AddColumn(p) PROVE SchemaInv'
  <2> DEFINE n == step[p] + 1
  <2>1. /\ stage[p] = "adding" /\ step[p] \in 1..Width /\ cols' = cols \cup {Appended[step[p]]}
        /\ step' = [step EXCEPT ![p] = n] /\ stage' = stage
    BY <1>3, <1>b, <1>0 DEF AddColumn, NextStep, Width
  <2>2. n \in 1..Width + 1 /\ \A i \in 1..n - 1 : i \in 1..step[p] - 1 \/ i = step[p]
    BY <2>1, <1>0
  <2>3. "id" \in cols /\ \A i \in 1..step[p] - 1 : Appended[i] \in cols
    BY <2>1, <1>0 DEF Past
  <2>4. stage' = [stage EXCEPT ![p] = "adding"]
    BY <2>1, <1>0 DEF SchemaTypes
  <2>5. "id" \in cols' /\ \A i \in 1..n - 1 : Appended[i] \in cols'
    BY <2>1, <2>2, <2>3
  <2>6. cols' \subseteq AllColumns
    BY <2>1, <1>0, AppendedColumns DEF SchemaTypes
  <2>7. "adding" \in Stages /\ "adding" \notin {"down", "opened", "serving", "stopping", "exiting"}
    BY DEF Stages
  <2> HIDE DEF n
  <2> QED
    BY <2>1, <2>2, <2>4, <2>5, <2>6, <2>7, SchemaMove
<1>4. ASSUME NEW p \in Processes, Down(p), cols' = cols PROVE SchemaInv'
  <2>1. stage' = [stage EXCEPT ![p] = "down"] /\ step' = [step EXCEPT ![p] = 1]
    BY <1>4 DEF Down, To
  <2> QED
    BY <2>1, <1>4, <1>0, SchemaMove DEF SchemaTypes, NoHalfTable, Stages
<1>5. ASSUME NEW p \in Processes, NEW s \in {"serving", "stopping", "exiting"},
             stage' = [stage EXCEPT ![p] = s], UNCHANGED <<cols, step>>,
             step[p] = Width + 1, stage[p] \notin {"down", "opened"}
      PROVE  SchemaInv'
  <2>1. "id" \in cols /\ \A i \in 1..step[p] - 1 : Appended[i] \in cols
    BY <1>5, <1>0 DEF Past
  <2>2. s \in Stages /\ s \notin {"down", "opened"}
    BY DEF Stages
  <2> QED
    BY <1>5, <2>1, <2>2, <1>0, <1>b, SchemaMove DEF SchemaTypes
<1>6. ASSUME NEW p \in Processes, Bind(p) PROVE SchemaInv'
  <2>1. CASE Down(p)
    BY <1>6, <2>1, <1>4 DEF Bind
  <2>2. CASE To(p, "serving") /\ UNCHANGED step
    <3>1. step[p] = Width + 1 /\ stage[p] = "adding" /\ cols' = cols
      BY <1>6, <1>0, <1>b DEF Bind, Width
    <3> QED
      BY <3>1, <2>2, <1>5 DEF To
  <2> QED
    BY <1>6, <2>1, <2>2 DEF Bind
<1>7. ASSUME NEW p \in Processes, Signal(p) \/ Finish(p) PROVE SchemaInv'
  <2>1. step[p] = Width + 1 /\ stage[p] \notin {"down", "opened"}
    BY <1>7, <1>0 DEF Signal, Finish, AllAdded
  <2> QED
    BY <1>7, <2>1, <1>5 DEF Signal, Finish, To
<1>8. ASSUME NEW p \in Processes, Exit(p) \/ Kill(p) \/ OpenFails(p) PROVE SchemaInv'
  BY <1>8, <1>4 DEF Exit, Kill, OpenFails
<1>9. ASSUME NEW p \in Processes, Call(p) PROVE SchemaInv'
  BY <1>9, <1>a DEF Call
<1>10. ASSUME NEW j \in 1..MaxCalls, Writes(j) PROVE SchemaInv'
  BY <1>10, <1>a DEF Writes, StartWrite, Insert
<1> QED
  BY <1>a, <1>1, <1>2, <1>3, <1>6, <1>7, <1>8, <1>9, <1>10 DEF Next, Steps, vars

\* Whoever takes calls finds every column that insert names, wherever migrations were
\* interrupted and whoever ran beside them.
THEOREM ColumnsTheorem == Spec => []WritersFindEveryColumn
BY SchemaInit, SchemaStep, SchemaSays, PTL DEF Spec

-----------------------------------------------------------------------------
(***************************************************************************)
(* The rows                                                                *)
(***************************************************************************)
\* What a column may hold.
OfCall(call) == {call[c] : c \in DOMAIN call}
OfRow(row) == {row[c] : c \in Columns}
OfTable(old) == UNION {OfRow(old[i]) : i \in DOMAIN old}

OfTables == UNION {OfTable(old) : old \in OldRows}

Cell == {Nobody} \cup Nat \cup OfTables \cup UNION {OfCall(call) : call \in Calls}

Rows == [Columns -> Cell]

RowTypes == rows \in Seq(Rows) /\ jobs \in Seq(Job)

\* No two rows have one id.
IdsDiffer == \A i, k \in DOMAIN rows : rows[i].id = rows[k].id => i = k

\* A call's id is its own, if not the zeros.
IdsAreDrawn == \A j \in DOMAIN jobs : jobs[j].id \in {j, Zeros}

\* A row with a call's own id was written for it.
RowsAreWritten ==
  \A i \in DOMAIN rows : \A n \in Nat \ {Zeros} :
    rows[i].id = n => n \in DOMAIN jobs /\ jobs[n].at = "written"

\* A call whose row was written has a row; its own, if its id is.
HasRow(j) ==
  \E i \in DOMAIN rows :
    /\ rows[i].id = jobs[j].id
    /\ jobs[j].id # Zeros => rows[i] = Row(jobs[j].call, jobs[j].id)

WrittenHaveRows == \A j \in DOMAIN jobs : jobs[j].at = "written" => HasRow(j)

\* Once there are calls, no column is added any more.
CallsFindColumns == jobs # <<>> => cols = AllColumns

RowInv == /\ RowTypes /\ IdsDiffer /\ IdsAreDrawn /\ RowsAreWritten /\ WrittenHaveRows
          /\ CallsFindColumns

-----------------------------------------------------------------------------
\* What is appended goes to the end.
LEMMA AppendKeeps ==
  ASSUME NEW S, NEW s \in Seq(S), NEW e \in S
  PROVE  Len(Append(s, e)) = Len(s) + 1 /\ \A i \in DOMAIN s : Append(s, e)[i] = s[i]
OBVIOUS

\* insert's row has every column and the call's id.
LEMMA RowIsTyped ==
  ASSUME NEW call \in Calls, NEW id \in Nat
  PROVE  Row(call, id) \in Rows /\ Row(call, id).id = id
<1>1. call = [c \in Columns \ {"id"} |-> call[c]]
  BY CallsAssumption
<1>2. DOMAIN call = Columns \ {"id"}
  BY <1>1
<1>3. "id" \in Columns /\ DOMAIN call \cup {"id"} = Columns
  BY <1>2 DEF Columns
<1>4. \A c \in Columns \ {"id"} : call[c] \in Cell
  <2> SUFFICES ASSUME NEW c \in Columns \ {"id"} PROVE call[c] \in Cell
    OBVIOUS
  <2>1. call[c] \in OfCall(call)
    BY <1>2 DEF OfCall
  <2> QED
    BY <2>1 DEF Cell
<1>5. id \in Cell
  BY DEF Cell
<1> QED
  BY <1>3, <1>4, <1>5 DEF Row, Rows

\* The rows an older release left have ids of their own.
LEMMA OldRowsAreTyped ==
  ASSUME NEW old \in OldRows, NEW k \in 0..Len(Appended)
  PROVE  /\ Aged(old, k) \in Seq(Rows)
         /\ \A i, j \in DOMAIN Aged(old, k) : Aged(old, k)[i].id = Aged(old, k)[j].id => i = j
         /\ \A i \in DOMAIN Aged(old, k) : Aged(old, k)[i].id \notin Nat
<1> DEFINE new == Aged(old, k)
           gone == {Appended[j] : j \in k + 1..Len(Appended)}
<1>1. /\ old \in Seq({old[i] : i \in DOMAIN old})
      /\ \A i \in DOMAIN old : old[i] = [c \in Columns |-> old[i][c]] /\ old[i].id \notin Nat
      /\ \A i, j \in DOMAIN old : old[i].id = old[j].id => i = j
  BY OldRowsAssumption
<1>2. Len(old) \in Nat /\ DOMAIN old = 1..Len(old)
  BY <1>1
<1>3. \A i \in DOMAIN old : DOMAIN old[i] = Columns
  BY <1>1
<1>4. new = [i \in DOMAIN old |-> [c \in DOMAIN old[i] |-> IF c \in gone THEN Nobody ELSE old[i][c]]]
  BY DEF Aged
<1>5. "id" \notin gone /\ "id" \in Columns
  BY AppendedColumns DEF Width, Columns
<1>6. \A i \in DOMAIN old, c \in Columns : old[i][c] \in Cell
  <2> SUFFICES ASSUME NEW i \in DOMAIN old, NEW c \in Columns PROVE old[i][c] \in Cell
    OBVIOUS
  <2>1. old[i][c] \in OfRow(old[i])
    BY DEF OfRow
  <2>2. old[i][c] \in OfTable(old)
    BY <2>1 DEF OfTable
  <2>3. old[i][c] \in OfTables
    BY <2>2 DEF OfTables
  <2> QED
    BY <2>3 DEF Cell
<1> HIDE DEF gone, new
<1>7. \A i \in DOMAIN old : new[i] \in Rows /\ new[i].id = old[i].id
  <2> SUFFICES ASSUME NEW i \in DOMAIN old PROVE new[i] \in Rows /\ new[i].id = old[i].id
    OBVIOUS
  <2>1. new[i] = [c \in Columns |-> IF c \in gone THEN Nobody ELSE old[i][c]]
    BY <1>3, <1>4
  <2>2. Nobody \in Cell
    BY DEF Cell
  <2> QED
    BY <2>1, <2>2, <1>5, <1>6 DEF Rows
<1>8. DOMAIN new = 1..Len(old)
  BY <1>2, <1>4
<1>9. new \in Seq(Rows)
  <2>1. new = [i \in 1..Len(old) |-> new[i]]
    BY <1>2, <1>4
  <2> QED
    BY <2>1, <1>2, <1>7
<1> QED
  BY <1>1, <1>2, <1>7, <1>8, <1>9 DEF new

\* Adding a column changes that column alone.
LEMMA WidenedKeeps ==
  ASSUME rows \in Seq(Rows), NEW c
  PROVE  /\ Widened(c) \in Seq(Rows) /\ Len(Widened(c)) = Len(rows)
         /\ \A i \in DOMAIN rows : \A d \in DOMAIN rows[i] :
              d # c => Widened(c)[i][d] = rows[i][d]
<1>1. Len(rows) \in Nat /\ DOMAIN rows = 1..Len(rows) /\ \A i \in DOMAIN rows : rows[i] \in Rows
  OBVIOUS
<1>2. Nobody \in Cell
  BY DEF Cell
<1>3. \A i \in DOMAIN rows : [rows[i] EXCEPT ![c] = Nobody] \in Rows
  BY <1>1, <1>2 DEF Rows
<1> DEFINE new == Widened(c)
<1>4. new = [i \in 1..Len(rows) |-> [rows[i] EXCEPT ![c] = Nobody]]
  BY <1>1 DEF Widened
<1> HIDE DEF new
<1>5. /\ \A i \in 1..Len(rows) : new[i] = [rows[i] EXCEPT ![c] = Nobody] /\ new[i] \in Rows
      /\ new = [i \in 1..Len(rows) |-> new[i]]
  BY <1>1, <1>3, <1>4
<1>6. new \in Seq(Rows) /\ Len(new) = Len(rows)
  BY <1>1, <1>5
<1>7. \A i \in DOMAIN rows : \A d \in DOMAIN rows[i] : d # c => new[i][d] = rows[i][d]
  BY <1>1, <1>5
<1> QED
  BY <1>6, <1>7 DEF new

\* Becomes changes where some jobs stand and nothing else.
LEMMA BecomesKeeps ==
  ASSUME jobs \in Seq(Job), NEW S,
         NEW at \in {"pending", "started", "written", "dropped", "killed"}
  PROVE  /\ Becomes(S, at) \in Seq(Job) /\ Len(Becomes(S, at)) = Len(jobs)
         /\ \A j \in DOMAIN jobs :
              /\ Becomes(S, at)[j].by = jobs[j].by /\ Becomes(S, at)[j].id = jobs[j].id
              /\ Becomes(S, at)[j].call = jobs[j].call
              /\ Becomes(S, at)[j].at = IF j \in S THEN at ELSE jobs[j].at
<1>1. Len(jobs) \in Nat /\ DOMAIN jobs = 1..Len(jobs) /\ \A j \in DOMAIN jobs : jobs[j] \in Job
  OBVIOUS
<1>2. \A j \in DOMAIN jobs : [jobs[j] EXCEPT !.at = at] \in Job
  BY <1>1 DEF Job
<1>3. Becomes(S, at) = [j \in 1..Len(jobs) |-> IF j \in S THEN [jobs[j] EXCEPT !.at = at] ELSE jobs[j]]
  BY <1>1 DEF Becomes
<1>4. Becomes(S, at) \in Seq(Job) /\ Len(Becomes(S, at)) = Len(jobs)
  BY <1>1, <1>2, <1>3
<1> QED
  BY <1>1, <1>3, <1>4 DEF Job

-----------------------------------------------------------------------------
LEMMA RowInit == Init => RowInv
<1> SUFFICES ASSUME Init PROVE RowInv
  OBVIOUS
<1>1. jobs = <<>> /\ jobs \in Seq(Job) /\ DOMAIN jobs = {}
  BY DEF Init
<1>2. /\ rows \in Seq(Rows) /\ IdsDiffer
      /\ \A i \in DOMAIN rows : rows[i].id \notin Nat
  <2>1. CASE rows = <<>>
    BY <2>1 DEF IdsDiffer
  <2>2. CASE \E k \in 0..Len(Appended), old \in OldRows : rows = Aged(old, k)
    <3> PICK k \in 0..Len(Appended), old \in OldRows : rows = Aged(old, k)
      BY <2>2
    <3> QED
      BY OldRowsAreTyped DEF IdsDiffer
  <2> QED
    BY <2>1, <2>2 DEF Init
<1> QED
  BY <1>1, <1>2 DEF RowInv, RowTypes, IdsAreDrawn, RowsAreWritten, WrittenHaveRows, CallsFindColumns

\* A step that changes neither the rows nor what is written of the calls keeps it.
LEMMA RowMove ==
  ASSUME RowInv, rows' = rows, cols' = cols \/ cols' = AllColumns,
         jobs' \in Seq(Job), Len(jobs') = Len(jobs),
         \A j \in DOMAIN jobs : /\ jobs'[j].id = jobs[j].id /\ jobs'[j].call = jobs[j].call
                               /\ ((jobs'[j].at = "written") <=> (jobs[j].at = "written"))
  PROVE  RowInv'
<1> USE DEF RowInv
<1>1. Len(jobs) \in Nat /\ DOMAIN jobs = 1..Len(jobs) /\ DOMAIN jobs' = DOMAIN jobs
  BY DEF RowTypes
<1>2. RowTypes' /\ IdsDiffer'
  BY DEF RowTypes, IdsDiffer
<1>3. IdsAreDrawn'
  <2> SUFFICES ASSUME NEW j \in DOMAIN jobs PROVE jobs'[j].id \in {j, Zeros}
    BY <1>1 DEF IdsAreDrawn
  <2>1. jobs'[j].id = jobs[j].id
    OBVIOUS
  <2> QED
    BY <2>1 DEF IdsAreDrawn
<1>4. RowsAreWritten'
  BY <1>1 DEF RowsAreWritten
<1>5. WrittenHaveRows'
  <2> SUFFICES ASSUME NEW j \in DOMAIN jobs, jobs'[j].at = "written" PROVE HasRow(j)'
    BY <1>1 DEF WrittenHaveRows
  <2>1. jobs'[j].id = jobs[j].id /\ jobs'[j].call = jobs[j].call /\ jobs[j].at = "written"
    OBVIOUS
  <2>2. HasRow(j)
    BY <2>1 DEF WrittenHaveRows
  <2> QED
    BY <2>1, <2>2 DEF HasRow
<1>6. CallsFindColumns'
  <2>1. jobs' # <<>> => jobs # <<>>
    BY <1>1 DEF RowTypes
  <2> QED
    BY <2>1 DEF CallsFindColumns
<1> QED
  BY <1>2, <1>3, <1>4, <1>5, <1>6

\* A new call has an id no row has, or the zeros.
LEMMA RowCall ==
  ASSUME RowInv, SchemaInv, NEW p \in Processes, Call(p)
  PROVE  RowInv'
<1> USE DEF RowInv
<1> DEFINE n == Len(jobs) + 1
<1>0. Len(jobs) \in Nat /\ DOMAIN jobs = 1..Len(jobs) /\ n \in Nat
  BY DEF RowTypes
<1>1. PICK call \in Calls, id \in NewCallId(p) :
        jobs' = Append(jobs, [by |-> p, call |-> call, id |-> id, at |-> "pending"])
  BY DEF Call
<1>2. id \in {n, Zeros} /\ id \in Nat
  BY <1>0, <1>1 DEF NewCallId, Zeros
<1> DEFINE job == [by |-> p, call |-> call, id |-> id, at |-> "pending"]
<1>3. job \in Job /\ job.id = id /\ job.at = "pending"
  BY <1>1, <1>2 DEF Job
<1> HIDE DEF job
<1>4. /\ jobs' \in Seq(Job) /\ Len(jobs') = n /\ DOMAIN jobs' = 1..n
      /\ jobs'[n] = job /\ \A j \in DOMAIN jobs : jobs'[j] = jobs[j]
  BY <1>0, <1>1, <1>3 DEF RowTypes, job
<1>5. UNCHANGED <<rows, cols>> /\ cols = AllColumns
  BY SchemaSays DEF Call, WritersFindEveryColumn
<1>6. DOMAIN jobs' = DOMAIN jobs \cup {n} /\ n \notin DOMAIN jobs
  BY <1>0, <1>4
<1>7. RowTypes' /\ IdsDiffer' /\ CallsFindColumns'
  BY <1>4, <1>5 DEF RowTypes, IdsDiffer, CallsFindColumns
<1>8. IdsAreDrawn'
  BY <1>2, <1>3, <1>4, <1>6 DEF IdsAreDrawn
<1>9. RowsAreWritten'
  BY <1>4, <1>5, <1>6 DEF RowsAreWritten
<1>10. WrittenHaveRows'
  <2> SUFFICES ASSUME NEW j \in DOMAIN jobs', jobs'[j].at = "written" PROVE HasRow(j)'
    BY DEF WrittenHaveRows
  <2>1. j \in DOMAIN jobs /\ jobs'[j] = jobs[j]
    BY <1>3, <1>4, <1>6
  <2>2. HasRow(j)
    BY <2>1 DEF WrittenHaveRows
  <2> QED
    BY <2>1, <2>2, <1>5 DEF HasRow
<1> QED
  BY <1>7, <1>8, <1>9, <1>10

\* No column is added once there are calls; before, no row was written for one.
LEMMA RowAddColumn ==
  ASSUME RowInv, SchemaInv, NEW p \in Processes, AddColumn(p)
  PROVE  RowInv'
<1> USE DEF RowInv
<1> DEFINE c == Appended[step[p]]
<1>1. step[p] \in 1..Width
  BY AppendedColumns DEF AddColumn, SchemaInv, SchemaTypes, Width
<1>2. /\ rows' = IF c \in cols THEN rows ELSE Widened(c)
      /\ cols' = cols \cup {c} /\ jobs' = jobs
  BY DEF AddColumn
<1>3. c # "id" /\ c \in AllColumns
  BY <1>1, AppendedColumns
<1> HIDE DEF c
<1>4. CASE c \in cols
  <2>1. cols' = cols /\ rows' = rows
    BY <1>2, <1>4
  <2>2. jobs' \in Seq(Job)
    BY <1>2 DEF RowTypes
  <2> QED
    BY <2>1, <2>2, <1>2, RowMove
<1>5. CASE c \notin cols
  <2>1. jobs = <<>> /\ DOMAIN jobs = {}
    BY <1>3, <1>5 DEF CallsFindColumns
  <2>2. /\ rows' \in Seq(Rows) /\ Len(rows') = Len(rows)
        /\ \A i \in DOMAIN rows : \A d \in DOMAIN rows[i] : d # c => rows'[i][d] = rows[i][d]
    BY <1>2, <1>5, WidenedKeeps DEF RowTypes
  <2>3. DOMAIN rows' = DOMAIN rows
    BY <2>2 DEF RowTypes
  <2>4. \A i \in DOMAIN rows : "id" \in DOMAIN rows[i]
    <3>1. \A i \in DOMAIN rows : rows[i] \in Rows
      BY DEF RowTypes
    <3> QED
      BY <3>1 DEF Rows, Columns
  <2>5. \A i \in DOMAIN rows : rows'[i].id = rows[i].id
    BY <2>2, <2>4, <1>3
  <2>6. RowTypes' /\ IdsDiffer'
    BY <2>2, <2>3, <2>5, <1>2 DEF RowTypes, IdsDiffer
  <2>7. RowsAreWritten'
    BY <2>1, <2>3, <2>5, <1>2 DEF RowsAreWritten
  <2> QED
    BY <2>1, <2>6, <2>7, <1>2 DEF IdsAreDrawn, WrittenHaveRows, CallsFindColumns
<1> QED
  BY <1>4, <1>5

\* The row goes in, or one with its id is there: only the zeros can be there already.
LEMMA RowInsert ==
  ASSUME RowInv, NEW j \in 1..MaxCalls, Insert(j)
  PROVE  RowInv'
<1> USE DEF RowInv
<1> DEFINE row == Row(jobs[j].call, jobs[j].id)
<1>1. /\ j \in DOMAIN jobs /\ jobs[j].at = "started" /\ cols' = cols
      /\ rows' = InsertOrIgnore(row) /\ jobs' = Becomes({j}, "written")
  BY DEF Insert
<1>2. /\ jobs \in Seq(Job) /\ rows \in Seq(Rows) /\ Len(rows) \in Nat /\ Len(jobs) \in Nat
      /\ DOMAIN rows = 1..Len(rows) /\ DOMAIN jobs = 1..Len(jobs)
  BY DEF RowTypes
<1>3. jobs[j] \in Job /\ jobs[j].call \in Calls /\ jobs[j].id \in Nat
  <2>1. jobs[j] \in Job
    BY <1>1, <1>2
  <2> QED
    BY <2>1 DEF Job
<1>4. row \in Rows /\ row.id = jobs[j].id
  BY <1>3, RowIsTyped
<1> HIDE DEF row
<1>5. /\ jobs' \in Seq(Job) /\ Len(jobs') = Len(jobs) /\ DOMAIN jobs' = DOMAIN jobs
      /\ \A m \in DOMAIN jobs :
           /\ jobs'[m].id = jobs[m].id /\ jobs'[m].call = jobs[m].call
           /\ jobs'[m].at = IF m \in {j} THEN "written" ELSE jobs[m].at
  BY <1>1, <1>2, BecomesKeeps
<1>6. IdsAreDrawn'
  BY <1>5 DEF IdsAreDrawn
<1>7. CallsFindColumns'
  BY <1>1, <1>5 DEF CallsFindColumns
<1>8. CASE \E i \in DOMAIN rows : rows[i].id = row.id
  <2>1. rows' = rows
    BY <1>1, <1>8 DEF InsertOrIgnore
  <2>2. PICK i \in DOMAIN rows : rows[i].id = jobs[j].id
    BY <1>4, <1>8
  <2>3. jobs[j].id = Zeros
    <3> SUFFICES ASSUME jobs[j].id # Zeros PROVE FALSE
      OBVIOUS
    <3>1. jobs[j].id = j /\ j \in Nat \ {Zeros}
      BY <1>1, <1>3 DEF IdsAreDrawn
    <3>2. jobs[j].at = "written"
      BY <2>2, <3>1 DEF RowsAreWritten
    <3> QED
      BY <1>1, <3>2
  <2>4. RowTypes' /\ IdsDiffer'
    BY <2>1, <1>5 DEF RowTypes, IdsDiffer
  <2>5. RowsAreWritten'
    BY <2>1, <1>5 DEF RowsAreWritten
  <2>6. \A m \in DOMAIN jobs : HasRow(m) => HasRow(m)'
    BY <2>1, <1>5 DEF HasRow
  <2>7. HasRow(j)'
    BY <2>1, <2>2, <2>3, <1>1, <1>5 DEF HasRow
  <2>8. WrittenHaveRows'
    BY <2>6, <2>7, <1>5 DEF WrittenHaveRows
  <2> QED
    BY <2>4, <2>5, <2>8, <1>6, <1>7
<1>9. CASE ~\E i \in DOMAIN rows : rows[i].id = row.id
  <2> DEFINE n == Len(rows) + 1
  <2>1. rows' = Append(rows, row)
    BY <1>1, <1>9 DEF InsertOrIgnore
  <2>2. /\ rows' \in Seq(Rows) /\ DOMAIN rows' = DOMAIN rows \cup {n} /\ n \notin DOMAIN rows
        /\ rows'[n] = row /\ \A i \in DOMAIN rows : rows'[i] = rows[i]
    BY <2>1, <1>2, <1>4
  <2> HIDE DEF n
  <2>3. RowTypes'
    BY <2>2, <1>5 DEF RowTypes
  <2>4. IdsDiffer'
    BY <2>2, <1>9 DEF IdsDiffer
  <2>5. RowsAreWritten'
    <3> SUFFICES ASSUME NEW i \in DOMAIN rows', NEW m \in Nat \ {Zeros}, rows'[i].id = m
                 PROVE  m \in DOMAIN jobs /\ jobs'[m].at = "written"
      BY <1>5 DEF RowsAreWritten
    <3>1. CASE i = n
      <4>1. m = j
        BY <3>1, <2>2, <1>1, <1>4 DEF IdsAreDrawn
      <4> QED
        BY <4>1, <1>1, <1>5
    <3>2. CASE i \in DOMAIN rows
      BY <3>2, <2>2, <1>5 DEF RowsAreWritten
    <3> QED
      BY <3>1, <3>2, <2>2
  <2>6. \A m \in DOMAIN jobs : HasRow(m) => HasRow(m)'
    BY <2>2, <1>5 DEF HasRow
  <2>7. HasRow(j)'
    BY <2>2, <1>1, <1>4, <1>5 DEF HasRow, row
  <2>8. WrittenHaveRows'
    BY <2>6, <2>7, <1>5 DEF WrittenHaveRows
  <2> QED
    BY <2>3, <2>4, <2>5, <2>8, <1>6, <1>7
<1> QED
  BY <1>8, <1>9

LEMMA RowStep == RowInv /\ SchemaInv /\ [Next]_vars => RowInv'
<1> SUFFICES ASSUME RowInv, SchemaInv, [Next]_vars PROVE RowInv'
  OBVIOUS
<1>0. jobs \in Seq(Job)
  BY DEF RowInv, RowTypes
<1>1. ASSUME UNCHANGED <<rows, jobs>>, cols' = cols \/ cols' = AllColumns PROVE RowInv'
  BY <1>0, <1>1, RowMove
<1>2. ASSUME NEW S \in SUBSET DOMAIN jobs, NEW at \in {"started", "dropped", "killed"},
             \A j \in S : jobs[j].at # "written", jobs' = Becomes(S, at), UNCHANGED <<rows, cols>>
      PROVE  RowInv'
  BY <1>0, <1>2, BecomesKeeps, RowMove
<1>3. ASSUME NEW p \in Processes, Finish(p) \/ Kill(p) PROVE RowInv'
  <2>1. CASE Finish(p)
    BY <2>1, <1>2 DEF Finish, Of
  <2>2. CASE Kill(p)
    <3> DEFINE S == Of(p, "pending") \cup Of(p, "started")
    <3>1. S \in SUBSET DOMAIN jobs /\ \A j \in S : jobs[j].at # "written"
      BY DEF Of
    <3>2. jobs' = Becomes(S, "killed") /\ UNCHANGED <<rows, cols>>
      BY <2>2 DEF Kill
    <3> HIDE DEF S
    <3> QED
      BY <3>1, <3>2, <1>2
  <2> QED
    BY <1>3, <2>1, <2>2
<1>4. ASSUME NEW j \in 1..MaxCalls, StartWrite(j) PROVE RowInv'
  <2>1. {j} \in SUBSET DOMAIN jobs /\ \A m \in {j} : jobs[m].at # "written"
    BY <1>4 DEF StartWrite
  <2>2. jobs' = Becomes({j}, "started") /\ UNCHANGED <<rows, cols>>
    BY <1>4 DEF StartWrite
  <2> QED
    BY <2>1, <2>2, <1>2
<1>5. ASSUME NEW p \in Processes, Open(p) \/ OpenFails(p) \/ Create(p) \/ Bind(p) \/ Signal(p) \/ Exit(p)
      PROVE  RowInv'
  BY <1>5, <1>1 DEF Open, OpenFails, Create, Bind, Signal, Exit
<1> QED
  BY <1>1, <1>3, <1>4, <1>5, RowCall, RowAddColumn, RowInsert DEF Next, Steps, Writes, vars

-----------------------------------------------------------------------------
LEMMA StoreInvariance == Spec => [](RowInv /\ SchemaInv)
BY RowInit, RowStep, SchemaInit, SchemaStep, PTL DEF Spec

\* Bounds on the starts and the calls.
Counts == file \in BOOLEAN /\ starts \in 0..MaxStarts /\ Len(jobs) <= MaxCalls

LEMMA CountsStep == Counts /\ RowInv /\ [Next]_vars => Counts'
<1> SUFFICES ASSUME Counts, RowInv, [Next]_vars PROVE Counts'
  OBVIOUS
<1>0. jobs \in Seq(Job) /\ Len(jobs) \in Nat /\ MaxStarts \in Nat /\ MaxCalls \in Nat
  BY StoreAssumption DEF RowInv, RowTypes
<1>1. ASSUME UNCHANGED <<file, starts>>, Len(jobs') = Len(jobs) PROVE Counts'
  BY <1>1 DEF Counts
<1>2. ASSUME NEW p \in Processes, Open(p) PROVE Counts'
  <2>1. starts < MaxStarts /\ starts' = starts + 1 /\ file' = TRUE /\ jobs' = jobs
    BY <1>2 DEF Open
  <2> QED
    BY <2>1, <1>0 DEF Counts
<1>3. ASSUME NEW p \in Processes, Call(p) PROVE Counts'
  <2>1. PICK call \in Calls, id \in NewCallId(p) :
          jobs' = Append(jobs, [by |-> p, call |-> call, id |-> id, at |-> "pending"])
    BY <1>3 DEF Call
  <2>2. Len(jobs) < MaxCalls /\ UNCHANGED <<file, starts>>
    BY <1>3 DEF Call
  <2>3. Len(jobs') = Len(jobs) + 1
    BY <2>1, <1>0
  <2> QED
    BY <2>2, <2>3, <1>0 DEF Counts
<1>4. ASSUME NEW S, NEW at \in {"started", "written", "dropped", "killed"},
             jobs' = Becomes(S, at), UNCHANGED <<file, starts>>
      PROVE  Counts'
  BY <1>0, <1>1, <1>4, BecomesKeeps
<1>5. ASSUME NEW p \in Processes, Finish(p) \/ Kill(p) PROVE Counts'
  BY <1>5, <1>4 DEF Finish, Kill
<1>6. ASSUME NEW j \in 1..MaxCalls, Writes(j) PROVE Counts'
  BY <1>6, <1>4 DEF Writes, StartWrite, Insert
<1>7. ASSUME NEW p \in Processes, Create(p) \/ AddColumn(p) \/ Bind(p) \/ OpenFails(p) \/ Signal(p) \/ Exit(p)
      PROVE  Counts'
  BY <1>7, <1>1 DEF Create, AddColumn, Bind, OpenFails, Signal, Exit
<1> QED
  BY <1>1, <1>2, <1>3, <1>5, <1>6, <1>7 DEF Next, Steps, vars

\* The type invariant; every row has every column, NULL where its release had none.
THEOREM TypeTheorem == Spec => []TypeOK
<1>1. Init => Counts
  <2> SUFFICES ASSUME Init PROVE Counts
    OBVIOUS
  <2>1. file \in BOOLEAN
    BY DEF Init
  <2>2. jobs = <<>> /\ starts = 0
    BY DEF Init
  <2> QED
    BY <2>1, <2>2, StoreAssumption DEF Counts
<1>2. RowInv /\ SchemaInv /\ Counts => TypeOK
  <2> SUFFICES ASSUME RowInv, SchemaInv, Counts PROVE TypeOK
    OBVIOUS
  <2>1. \A r \in Range(rows) : DOMAIN r = Columns
    <3>1. \A i \in DOMAIN rows : rows[i] \in Rows
      BY DEF RowInv, RowTypes
    <3> QED
      BY <3>1 DEF Range, Rows
  <2> QED
    BY <2>1 DEF RowInv, RowTypes, SchemaInv, SchemaTypes, Stages, Width, Counts, TypeOK
<1> QED
  BY <1>1, <1>2, CountsStep, StoreInvariance, PTL DEF Spec

\* A call whose row was written has exactly one, its own: whatever else is inserted,
\* migrated or killed (record.rs: INSERT OR IGNORE; proxy.rs: new_call_id).
THEOREM WritesTheorem == Spec => []EveryWriteIsKept
<1>1. RowInv => EveryWriteIsKept
  <2> SUFFICES ASSUME RowInv, NEW j \in DOMAIN jobs, jobs[j].at = "written"
               PROVE  LET own == {i \in DOMAIN rows : rows[i].id = jobs[j].id}
                      IN  /\ Cardinality(own) = 1
                          /\ jobs[j].id # Zeros =>
                               \A i \in own : rows[i] = Row(jobs[j].call, jobs[j].id)
    BY DEF EveryWriteIsKept
  <2> DEFINE own == {i \in DOMAIN rows : rows[i].id = jobs[j].id}
  <2>1. PICK i \in DOMAIN rows :
          /\ rows[i].id = jobs[j].id
          /\ jobs[j].id # Zeros => rows[i] = Row(jobs[j].call, jobs[j].id)
    BY DEF RowInv, WrittenHaveRows, HasRow
  <2>2. own = {i}
    BY <2>1 DEF RowInv, IdsDiffer
  <2>3. Cardinality(own) = 1
    BY <2>2, FS_Singleton
  <2> QED
    BY <2>1, <2>2, <2>3
<1> QED
  BY <1>1, StoreInvariance, PTL

\* insert appends, if anything.
LEMMA InsertStays ==
  ASSUME RowInv, NEW j \in 1..MaxCalls, Insert(j)
  PROVE  Len(rows) <= Len(rows') /\ \A i \in DOMAIN rows : rows'[i] = rows[i]
<1> DEFINE row == Row(jobs[j].call, jobs[j].id)
<1>1. rows' = rows \/ rows' = Append(rows, row)
  BY DEF Insert, InsertOrIgnore
<1>2. rows \in Seq(Rows) /\ Len(rows) \in Nat
  BY DEF RowInv, RowTypes
<1>3. jobs[j] \in Job
  BY DEF Insert, RowInv, RowTypes
<1>4. row \in Rows
  BY <1>3, RowIsTyped DEF Job
<1> HIDE DEF row
<1>5. CASE rows' = rows
  BY <1>2, <1>5
<1>6. CASE rows' = Append(rows, row)
  BY <1>2, <1>4, <1>6, AppendKeeps
<1> QED
  BY <1>1, <1>5, <1>6

\* No row leaves the table, and no column a row has had changes in it.
THEOREM RowsTheorem == Spec => RowsStay
<1> DEFINE Stay == /\ Len(rows) <= Len(rows')
                   /\ \A i \in DOMAIN rows : \A c \in DOMAIN rows[i] :
                        c \in cols \/ c \notin AllColumns => rows'[i][c] = rows[i][c]
<1>1. RowInv /\ SchemaInv /\ [Next]_vars => [rows' # rows => Stay]_vars
  <2> SUFFICES ASSUME RowInv, SchemaInv, Next, rows' # rows PROVE Stay
    BY DEF vars
  <2>0. rows \in Seq(Rows) /\ Len(rows) \in Nat /\ DOMAIN rows = 1..Len(rows)
    BY DEF RowInv, RowTypes
  <2>1. CASE \E p \in Processes : AddColumn(p)
    <3> PICK p \in Processes : AddColumn(p)
      BY <2>1
    <3> DEFINE c == Appended[step[p]]
    <3>1. step[p] \in 1..Width
      BY AppendedColumns DEF AddColumn, SchemaInv, SchemaTypes, Width
    <3>2. c \in AllColumns /\ rows' = IF c \in cols THEN rows ELSE Widened(c)
      BY <3>1, AppendedColumns DEF AddColumn
    <3> HIDE DEF c
    <3>3. c \notin cols /\ rows' = Widened(c)
      BY <3>2
    <3> QED
      BY <2>0, <3>2, <3>3, WidenedKeeps
  <2>2. CASE \E j \in 1..MaxCalls : Insert(j)
    BY <2>2, InsertStays
  <2> QED
    BY <2>1, <2>2 DEF Next, Steps, Writes, Open, OpenFails, Call, Signal, Kill, Create, Bind, Finish, Exit,
      StartWrite
<1> QED
  BY <1>1, StoreInvariance, PTL DEF Spec, RowsStay

-----------------------------------------------------------------------------
(***************************************************************************)
(* What the reports read                                                   *)
(***************************************************************************)
\* Cached tokens that are counted in the input are a part of it.
IsAPart(r) == r.entry = "subset" => r.read <= r.input

\* Providers that count so never count more of them than input.
CachedIsAPart ==
  /\ \A call \in Calls : IsAPart(call)
  /\ \A old \in OldRows : \A i \in DOMAIN old : IsAPart(old[i])

\* The rows have figures.
Tells(r) == HasFigures(r) /\ (CachedIsAPart => IsAPart(r))

RowsTell == \A i \in DOMAIN rows : Tells(rows[i])

LEMMA RecordsTell ==
  /\ \A call \in Calls : Tells(call)
  /\ \A old \in OldRows : \A i \in DOMAIN old : Tells(old[i])
BY FiguresAssumption DEF Tells, CachedIsAPart

LEMMA SameFigures ==
  ASSUME NEW r, Tells(r), NEW s, Figures \subseteq DOMAIN s, \A c \in Figures : s[c] = r[c]
  PROVE  Tells(s)
<1>1. /\ s["ts"] = r["ts"] /\ s["provider"] = r["provider"] /\ s["latency"] = r["latency"]
      /\ s["input"] = r["input"] /\ s["output"] = r["output"] /\ s["read"] = r["read"]
      /\ s["write"] = r["write"] /\ s["cost"] = r["cost"] /\ s["price"] = r["price"]
      /\ s["entry"] = r["entry"]
  BY DEF Figures
<1> QED
  BY <1>1 DEF Tells, HasFigures, IsAPart

LEMMA FiguresAreOld ==
  \A c \in Figures : c # "id" /\ \A i \in 1..Width : c # Appended[i]
<1> SUFFICES ASSUME NEW c \in Figures, NEW i \in 1..Width PROVE c # "id" /\ c # Appended[i]
  BY AppendedColumns
<1>1. Width = 6
  BY AppendedColumns
<1>2. Appended[i] \in {"client", "endpoint", "anomaly", "raw_usage", "peer_exe", "client_source"}
  BY <1>1 DEF Appended
<1> QED
  BY <1>2 DEF Figures

\* Also in the rows of an older release.
LEMMA TellInit == Init => RowsTell
<1> SUFFICES ASSUME Init, NEW i \in DOMAIN rows PROVE Tells(rows[i])
  BY DEF RowsTell
<1>1. PICK k \in 0..Len(Appended), old \in OldRows : rows = Aged(old, k)
  BY DEF Init
<1> DEFINE gone == {Appended[j] : j \in k + 1..Len(Appended)}
<1>2. /\ i \in DOMAIN old /\ Tells(old[i])
      /\ rows[i] = [c \in DOMAIN old[i] |-> IF c \in gone THEN Nobody ELSE old[i][c]]
  BY <1>1, RecordsTell DEF Aged
<1>3. \A c \in Figures : c \notin gone
  BY FiguresAreOld, AppendedColumns DEF Width
<1> HIDE DEF gone
<1>4. Figures \subseteq DOMAIN old[i]
  BY <1>2 DEF Tells, HasFigures
<1> QED
  BY <1>2, <1>3, <1>4, SameFigures

LEMMA TellStep == RowsTell /\ RowInv /\ SchemaInv /\ [Next]_vars => RowsTell'
<1> SUFFICES ASSUME RowsTell, RowInv, SchemaInv, [Next]_vars PROVE RowsTell'
  OBVIOUS
<1>0. rows \in Seq(Rows) /\ Len(rows) \in Nat /\ DOMAIN rows = 1..Len(rows)
  BY DEF RowInv, RowTypes
<1>1. CASE rows' = rows
  BY <1>1 DEF RowsTell
<1>2. ASSUME NEW p \in Processes, AddColumn(p), rows' # rows PROVE RowsTell'
  <2> DEFINE c == Appended[step[p]]
  <2>1. step[p] \in 1..Width
    BY <1>2, AppendedColumns DEF AddColumn, SchemaInv, SchemaTypes, Width
  <2>2. rows' = Widened(c)
    BY <1>2 DEF AddColumn
  <2>3. c \notin Figures
    BY <2>1, FiguresAreOld
  <2> HIDE DEF c
  <2> SUFFICES ASSUME NEW i \in DOMAIN rows' PROVE Tells(rows'[i])
    BY DEF RowsTell
  <2>4. i \in DOMAIN rows /\ rows'[i] = [rows[i] EXCEPT ![c] = Nobody] /\ Tells(rows[i])
    BY <2>2 DEF Widened, RowsTell
  <2>5. Figures \subseteq DOMAIN rows[i] /\ DOMAIN rows'[i] = DOMAIN rows[i]
    BY <2>4 DEF Tells, HasFigures
  <2>6. \A d \in Figures : rows'[i][d] = rows[i][d]
    BY <2>3, <2>4, <2>5
  <2> QED
    BY <2>4, <2>5, <2>6, SameFigures
<1>3. ASSUME NEW j \in 1..MaxCalls, Insert(j), rows' # rows PROVE RowsTell'
  <2> DEFINE call == jobs[j].call
             row  == Row(call, jobs[j].id)
  <2>1. jobs[j] \in Job
    BY <1>3 DEF Insert, RowInv, RowTypes
  <2>2. call \in Calls /\ row \in Rows
    BY <2>1, RowIsTyped DEF Job
  <2>3. rows' = Append(rows, row)
    BY <1>3 DEF Insert, InsertOrIgnore
  <2>4. Tells(call) /\ Figures \subseteq DOMAIN call
    BY <2>2, RecordsTell DEF Tells, HasFigures
  <2>5. Figures \subseteq DOMAIN row /\ \A c \in Figures : row[c] = call[c]
    BY <2>4, FiguresAreOld DEF Row
  <2>6. Tells(row)
    BY <2>4, <2>5, SameFigures
  <2> HIDE DEF row
  <2>7. \A i \in DOMAIN rows' : \/ i \in DOMAIN rows /\ rows'[i] = rows[i]
                            \/ rows'[i] = row
    BY <2>2, <2>3, <1>0
  <2> QED
    BY <2>6, <2>7 DEF RowsTell
<1> QED
  BY <1>1, <1>2, <1>3 DEF Next, Steps, Writes, Open, OpenFails, Call, Signal, Kill, Create, Bind, Finish, Exit,
    StartWrite, vars

\* What a reader relies on.
ReaderInv == RowInv /\ SchemaInv /\ RowsTell

LEMMA ReaderInvariance == Spec => []ReaderInv
BY TellInit, TellStep, StoreInvariance, PTL DEF Spec, ReaderInv

-----------------------------------------------------------------------------
(***************************************************************************)
(* Periods                                                                 *)
(***************************************************************************)
LEMMA DivAtLeast ==
  ASSUME NEW a \in Int, NEW d \in Nat \ {0}, NEW n \in Int
  PROVE  (a \div d) \in Int /\ (a \div d >= n <=> a >= n * d)
<1> DEFINE q == a \div d
           r == a % d
<1>1. q \in Int /\ r \in Int /\ a = d * q + r /\ 0 <= r /\ r < d
  OBVIOUS
<1> HIDE DEF q, r
<1>2. ASSUME q >= n PROVE a >= n * d
  <2>1. (q - n) * d >= 0
    BY <1>1, <1>2
  <2>2. (q - n) * d = d * q - n * d
    BY <1>1
  <2> QED
    BY <1>1, <2>1, <2>2
<1>3. ASSUME q < n PROVE a < n * d
  <2>1. (n - q - 1) * d >= 0
    BY <1>1, <1>3
  <2>2. (n - q - 1) * d = n * d - d * q - d
    BY <1>1
  <2> QED
    BY <1>1, <2>1, <2>2
<1> QED
  BY <1>1, <1>2, <1>3 DEF q

LEMMA MidnightIsInt ==
  ASSUME NEW n \in Int
  PROVE  Midnight(n) \in Int
<1>1. n * Day \in Int /\ Offset \in Int
  BY WindowAssumption
<1> QED
  BY <1>1 DEF Midnight

\* A later instant is not of an earlier local day.
LEMMA DaysFollow ==
  ASSUME NEW t \in Int, NEW n \in Int
  PROVE  LocalDay(t) \in Int /\ (LocalDay(t) >= n <=> t >= Midnight(n))
<1>1. t + Offset \in Int /\ Offset \in Int /\ Day \in Nat \ {0}
  BY WindowAssumption
<1>2. LocalDay(t) \in Int /\ (LocalDay(t) >= n <=> t + Offset >= n * Day)
  BY <1>1, DivAtLeast DEF LocalDay
<1>3. n * Day \in Int
  BY <1>1
<1> QED
  BY <1>1, <1>2, <1>3 DEF Midnight

\* The text of a midnight is of a whole second: only what is in a fraction of that second
\* compares as earlier, and comes later.
LEMMA FromMidnight ==
  ASSUME NEW t \in Int, NEW n \in Int
  PROVE  AtOrAfter(t, Text(Midnight(n))) <=> LocalDay(t) >= n /\ t # Midnight(n) + 1
<1> DEFINE b == Midnight(n)
<1>1. b \in Int /\ b % 2 = 0
  <2>1. PICK h \in Int : Day = 2 * h
    BY WindowAssumption
  <2>2. PICK o \in Int : Offset = 2 * o
    BY WindowAssumption
  <2>3. n * Day = 2 * (n * h)
    BY <2>1
  <2>4. n * h \in Int
    BY <2>1
  <2>5. b = 2 * (n * h - o) /\ n * h - o \in Int
    BY <2>2, <2>3, <2>4 DEF Midnight
  <2> QED
    BY <2>5
<1>2. AtOrAfter(t, Text(b)) <=> Second(t) > Second(b) \/ (Second(t) = Second(b) /\ (Whole(t) \/ ~Whole(b)))
  BY DEF AtOrAfter, Text
<1> HIDE DEF b
<1>3. AtOrAfter(t, Text(b)) <=> t >= b /\ t # b + 1
  BY <1>1, <1>2 DEF Second, Whole
<1> QED
  BY <1>3, DaysFollow DEF b

\* The local day a calendar window opens on.
Opening(period, day) ==
  CASE period = "day"   -> day
    [] period = "week"  -> MondayOf(day)
    [] period = "month" -> FirstOfMonth(day)

LEMMA OpensAt ==
  ASSUME NEW now \in Nows, NEW period \in {"day", "week", "month"}
  PROVE  /\ WindowBound([form |-> period, at |-> 0], now) = Text(Midnight(Opening(period, LocalDay(now))))
         /\ Opening(period, LocalDay(now)) \in Int
         /\ \A t \in Int : t <= now =>
              (LocalDay(t) >= Opening(period, LocalDay(now)) <=> SamePeriod(period, t, now))
<1> DEFINE n == LocalDay(now)
<1>0. now \in Int /\ n \in Int /\ \A t \in Int : LocalDay(t) \in Int
  BY StoreAssumption, DaysFollow
<1>1. WindowBound([form |-> period, at |-> 0], now) = Text(Midnight(Opening(period, n)))
  BY DEF WindowBound, Opening
<1>2. \A t \in Int : t <= now => LocalDay(t) <= n
  <2> SUFFICES ASSUME NEW t \in Int, t <= now, LocalDay(t) > n PROVE FALSE
    BY <1>0
  <2>1. n + 1 \in Int /\ Midnight(n + 1) \in Int
    <3>1. n + 1 \in Int
      BY <1>0
    <3> QED
      BY <3>1, MidnightIsInt
  <2>2. ~(now >= Midnight(n + 1))
    <3>1. LocalDay(now) >= n + 1 <=> now >= Midnight(n + 1)
      BY <1>0, <2>1, DaysFollow
    <3> QED
      BY <1>0, <3>1
  <2>3. t >= Midnight(n + 1)
    <3>1. LocalDay(t) >= n + 1 <=> t >= Midnight(n + 1)
      BY <2>1, DaysFollow
    <3> QED
      BY <1>0, <3>1
  <2> QED
    BY <1>0, <2>1, <2>2, <2>3
<1>3. CASE period = "day"
  <2>1. Opening(period, n) = n
    BY <1>3 DEF Opening
  <2>2. \A t \in Int : SamePeriod(period, t, now) <=> LocalDay(t) = n
    BY <1>3 DEF SamePeriod
  <2> HIDE DEF n
  <2> QED
    BY <1>0, <1>1, <1>2, <2>1, <2>2 DEF n
<1>4. CASE period = "week"
  <2>1. Opening(period, n) = n - ((n - Monday) % 7)
    BY <1>4 DEF Opening, MondayOf
  <2>2. \A t \in Int : SamePeriod(period, t, now) <=> (LocalDay(t) - Monday) \div 7 = (n - Monday) \div 7
    BY <1>4 DEF SamePeriod
  <2>3. Monday \in Int
    BY WindowAssumption
  <2> HIDE DEF n
  <2>4. Opening(period, n) \in Int
    BY <1>0, <2>1, <2>3
  <2>5. \A d \in Int : d <= n =>
          (d >= Opening(period, n) <=> (d - Monday) \div 7 = (n - Monday) \div 7)
    BY <1>0, <2>1, <2>3
  <2> QED
    BY <1>0, <1>1, <1>2, <2>2, <2>4, <2>5 DEF n
<1>5. CASE period = "month"
  <2>1. Opening(period, n) = FirstOfMonth(n)
    BY <1>5 DEF Opening
  <2>2. \A t \in Int : SamePeriod(period, t, now) <=> \A f \in MonthStarts : f <= LocalDay(t) <=> f <= n
    BY <1>5 DEF SamePeriod
  <2>3. \E f \in MonthStarts : f <= n /\ \A g \in MonthStarts : g <= n => g <= f
    BY CalendarAssumption
  <2> HIDE DEF n
  <2>4. /\ FirstOfMonth(n) \in MonthStarts /\ FirstOfMonth(n) <= n
        /\ \A g \in MonthStarts : g <= n => g <= FirstOfMonth(n)
    BY <2>3 DEF FirstOfMonth
  <2>5. MonthStarts \subseteq Int
    BY WindowAssumption
  <2>6. \A d \in Int : d <= n =>
          (d >= FirstOfMonth(n) <=> \A f \in MonthStarts : f <= d <=> f <= n)
    <3> DEFINE first == FirstOfMonth(n)
    <3>1. first \in MonthStarts /\ first \in Int /\ n \in Int /\ first <= n
      BY <1>0, <2>4, <2>5
    <3>2. \A g \in MonthStarts : g \in Int /\ (g <= n => g <= first)
      BY <2>4, <2>5
    <3> HIDE DEF first, n
    <3> SUFFICES ASSUME NEW d \in Int, d <= n
                 PROVE  d >= first <=> \A f \in MonthStarts : f <= d <=> f <= n
      BY DEF first
    <3>3. ASSUME d >= first, NEW f \in MonthStarts PROVE f <= d <=> f <= n
      BY <3>1, <3>2, <3>3
    <3>4. ASSUME \A f \in MonthStarts : f <= d <=> f <= n PROVE d >= first
      BY <3>1, <3>4
    <3> QED
      BY <3>3, <3>4
  <2> QED
    BY <1>0, <1>1, <1>2, <2>1, <2>2, <2>4, <2>5, <2>6 DEF n
<1> QED
  BY <1>3, <1>4, <1>5

\* A calendar window holds the calls of its period, save those in a fraction of its first
\* second (window_bound_at).
THEOREM PeriodsTheorem == Spec => []PeriodsHoldTheirCalls
<1>1. ReaderInv => PeriodsHoldTheirCalls
  <2> SUFFICES ASSUME ReaderInv, NEW r \in Range(rows), NEW now \in Nows,
                      NEW period \in {"day", "week", "month"}, r.ts <= now
               PROVE  LET bound == WindowBound([form |-> period, at |-> 0], now)
                      IN  IF AtOrAfter(r.ts, bound) THEN SamePeriod(period, r.ts, now)
                          ELSE SamePeriod(period, r.ts, now) => r.ts = bound.at + 1
    BY DEF PeriodsHoldTheirCalls
  <2> DEFINE open  == Opening(period, LocalDay(now))
             bound == WindowBound([form |-> period, at |-> 0], now)
  <2>1. r.ts \in Int
    BY DEF ReaderInv, RowsTell, Tells, HasFigures, Range
  <2>2. /\ bound = Text(Midnight(open)) /\ open \in Int
        /\ LocalDay(r.ts) >= open <=> SamePeriod(period, r.ts, now)
    BY <2>1, OpensAt
  <2> HIDE DEF open, bound
  <2>3. AtOrAfter(r.ts, bound) <=> LocalDay(r.ts) >= open /\ r.ts # Midnight(open) + 1
    BY <2>1, <2>2, FromMidnight
  <2>4. bound.at = Midnight(open)
    BY <2>2 DEF Text
  <2> QED
    BY <2>2, <2>3, <2>4 DEF bound
<1> QED
  BY <1>1, ReaderInvariance, PTL

-----------------------------------------------------------------------------
(***************************************************************************)
(* Reading across a migration                                              *)
(***************************************************************************)
\* Rows that the reports cannot tell apart.
Alike(r, s) == \A c \in Figures \cup {"id", "model", "error"} : r[c] = s[c]

LEMMA AlikeFigures ==
  ASSUME NEW r, NEW s, Alike(r, s)
  PROVE  /\ r.ts = s.ts /\ r.latency = s.latency /\ r.provider = s.provider /\ r.model = s.model
         /\ r.read = s.read /\ r.error = s.error /\ r.id = s.id
         /\ Cost(r) = Cost(s) /\ TailCost(r) = TailCost(s) /\ CacheDenom(r) = CacheDenom(s)
<1>1. /\ r["ts"] = s["ts"] /\ r["provider"] = s["provider"] /\ r["latency"] = s["latency"]
      /\ r["input"] = s["input"] /\ r["output"] = s["output"] /\ r["read"] = s["read"]
      /\ r["write"] = s["write"] /\ r["cost"] = s["cost"] /\ r["price"] = s["price"]
      /\ r["entry"] = s["entry"] /\ r["id"] = s["id"] /\ r["model"] = s["model"]
      /\ r["error"] = s["error"]
  BY DEF Alike, Figures
<1> QED
  BY <1>1 DEF Cost, TailCost, CacheDenom

\* Tables of such rows, with the same keys, have the same groups and figures.
LEMMA SameGroups ==
  ASSUME NEW old, NEW new, NEW had, NEW have, NEW g,
         DOMAIN new = DOMAIN old, Len(new) = Len(old),
         \A i \in DOMAIN old : /\ Alike(old[i], new[i])
                               /\ Key(g, had, old[i]) = Key(g, have, new[i])
  PROVE  Stats(new, have, g, Empty) = Stats(old, had, g, Empty)
<1>1. \A i \in DOMAIN old :
        /\ old[i].ts = new[i].ts /\ old[i].latency = new[i].latency
        /\ old[i].read = new[i].read /\ old[i].error = new[i].error
        /\ Cost(old[i]) = Cost(new[i]) /\ CacheDenom(old[i]) = CacheDenom(new[i])
  BY AlikeFigures
<1>2. In(new, Empty) = In(old, Empty)
  BY <1>1 DEF In
<1> DEFINE was == [i \in DOMAIN old |-> Key(g, had, old[i])]
           is  == [i \in DOMAIN new |-> Key(g, have, new[i])]
           Read(key, S) == {i \in S : g = "day" \/ key[i] # Nobody}
<1>3. is = was
  OBVIOUS
<1>4. \A S \in SUBSET DOMAIN old :
        Agg(new, S) = Agg(old, S) /\ Unpriced(new, S) = Unpriced(old, S)
  <2> SUFFICES ASSUME NEW S \in SUBSET DOMAIN old
               PROVE  Agg(new, S) = Agg(old, S) /\ Unpriced(new, S) = Unpriced(old, S)
    OBVIOUS
  <2>1. /\ [i \in S |-> new[i].read] = [i \in S |-> old[i].read]
        /\ [i \in S |-> CacheDenom(new[i])] = [i \in S |-> CacheDenom(old[i])]
        /\ [i \in S |-> new[i].latency] = [i \in S |-> old[i].latency]
    BY <1>1
  <2>2. Costs(new, S) = Costs(old, S)
    BY <1>1 DEF Costs
  <2>3. {i \in S : new[i].error} = {i \in S : old[i].error}
    BY <1>1
  <2>4. {i \in S : Cost(new[i]) = Unknown} = {i \in S : Cost(old[i]) = Unknown}
    BY <1>1
  <2> QED
    BY <2>1, <2>2, <2>3, <2>4 DEF Agg, Unpriced
<1>5. In(old, Empty) \subseteq DOMAIN old
  BY DEF In
<1> DEFINE read == Read(was, In(old, Empty))
           Members(k) == {i \in read : was[i] = k}
           keys == {was[i] : i \in read}
<1>6. /\ Stats(old, had, g, Empty) =
           [groups |-> [k \in keys |-> Agg(old, Members(k))], unpriced |-> Unpriced(old, read)]
      /\ Stats(new, have, g, Empty) =
           [groups |-> [k \in keys |-> Agg(new, Members(k))], unpriced |-> Unpriced(new, read)]
  <2>1. Stats(old, had, g, Empty) =
          [groups |-> [k \in keys |-> Agg(old, Members(k))], unpriced |-> Unpriced(old, read)]
    BY DEF Stats
  <2> DEFINE Told(key, S) == [groups   |-> [k \in {key[i] : i \in Read(key, S)} |->
                                            Agg(new, {i \in Read(key, S) : key[i] = k})],
                             unpriced |-> Unpriced(new, Read(key, S))]
  <2>2. Stats(new, have, g, Empty) = Told(is, In(new, Empty))
    BY DEF Stats
  <2>3. Told(is, In(new, Empty)) = Told(was, In(old, Empty))
    <3> HIDE DEF is, was, Told
    <3> QED
      BY <1>2, <1>3
  <2>4. Told(was, In(old, Empty)) =
          [groups |-> [k \in keys |-> Agg(new, Members(k))], unpriced |-> Unpriced(new, read)]
    OBVIOUS
  <2> HIDE DEF is, was, Told, Read, keys, Members
  <2> QED
    BY <2>1, <2>2, <2>3, <2>4
<1>7. read \in SUBSET DOMAIN old /\ \A k : Members(k) \in SUBSET DOMAIN old
  BY <1>5
<1> HIDE DEF read, keys, Members
<1>8. [k \in keys |-> Agg(old, Members(k))] = [k \in keys |-> Agg(new, Members(k))]
  BY <1>4, <1>7
<1> QED
  BY <1>4, <1>6, <1>7, <1>8

\* ... and the same last rows.
LEMMA SameTail ==
  ASSUME NEW old, NEW new, NEW had, NEW have, NEW n, DOMAIN new = DOMAIN old,
         \A i \in DOMAIN old : /\ Alike(old[i], new[i])
                               /\ Tool(had, old[i]) = Tool(have, new[i])
  PROVE  Tailed(new, have, Empty, n) = Tailed(old, had, Empty, n)
<1>1. \A i \in DOMAIN old :
        old[i].ts = new[i].ts /\ old[i].id = new[i].id /\ TailCost(old[i]) = TailCost(new[i])
  BY AlikeFigures
<1>2. In(new, Empty) = In(old, Empty)
  BY <1>1 DEF In
<1> DEFINE last == {j \in In(old, Empty) : Cardinality({k \in In(old, Empty) : j < k}) < n}
<1>3. last \subseteq DOMAIN old
  BY DEF In
<1>4. /\ Tailed(old, had, Empty, n) =
           [i \in last |-> [id |-> old[i].id, tool |-> Tool(had, old[i]), cost |-> TailCost(old[i])]]
      /\ Tailed(new, have, Empty, n) =
           [i \in last |-> [id |-> new[i].id, tool |-> Tool(have, new[i]), cost |-> TailCost(new[i])]]
  BY <1>2 DEF Tailed
<1> HIDE DEF last
<1> QED
  BY <1>1, <1>3, <1>4

\* A column that a database did not have is NULL in the rows it had, and was NULL to its
\* readers: a tool and a key that could be read stay.
LEMMA WidenedReads ==
  ASSUME RowInv, SchemaInv, NEW c \in AllColumns \ cols, c # "id", NEW i \in DOMAIN rows
  PROVE  /\ Alike(rows[i], Widened(c)[i])
         /\ "client" \in cols => Tool(cols \cup {c}, Widened(c)[i]) = Tool(cols, rows[i])
         /\ \A g \in Groupings : StatsNeeds(g) \subseteq cols =>
              Key(g, cols \cup {c}, Widened(c)[i]) = Key(g, cols, rows[i])
<1> DEFINE old == rows[i]
           new == Widened(c)[i]
           have == cols \cup {c}
<1>1. old \in Rows
  BY DEF RowInv, RowTypes
<1>2. new = [old EXCEPT ![c] = Nobody] /\ DOMAIN old = Columns
  BY <1>1 DEF Widened, Rows
<1>3. c \in {"client", "endpoint", "anomaly", "raw_usage", "peer_exe", "client_source"}
  BY AppendedColumns DEF AllColumns, Appended, Width
<1> HIDE DEF old, new
<1>4. \A d : d # c => new[d] = old[d]
  BY <1>2
<1>5. Alike(old, new)
  BY <1>3, <1>4 DEF Alike, Figures
<1>6. \A d : Guarded(have, new, d) = Guarded(cols, old, d)
  <2> SUFFICES ASSUME NEW d PROVE Guarded(have, new, d) = Guarded(cols, old, d)
    OBVIOUS
  <2>1. CASE d = c
    <3>1. Guarded(cols, old, d) = Nobody
      BY <2>1 DEF Guarded
    <3>2. Guarded(have, new, d) = new[c]
      BY <2>1 DEF Guarded
    <3>3. c \in Columns
      BY ColumnsAssumption
    <3> QED
      BY <1>2, <3>1, <3>2, <3>3
  <2>2. CASE d # c
    BY <2>2, <1>4 DEF Guarded
  <2> QED
    BY <2>1, <2>2
<1> HIDE DEF have
<1>7. ASSUME "client" \in cols PROVE Tool(have, new) = Tool(cols, old)
  <2>1. new["client"] = old["client"]
    BY <1>4, <1>7
  <2> QED
    BY <1>6, <2>1 DEF Tool
<1>8. ASSUME NEW g \in Groupings, StatsNeeds(g) \subseteq cols
      PROVE  Key(g, have, new) = Key(g, cols, old)
  <2>1. "client" \in cols /\ (g = "exe" => "peer_exe" \in cols)
    BY <1>8 DEF StatsNeeds
  <2>2. new["client"] = old["client"] /\ (g = "exe" => new["peer_exe"] = old["peer_exe"])
    BY <1>4, <2>1
  <2>3. new["provider"] = old["provider"] /\ new["model"] = old["model"] /\ new["ts"] = old["ts"]
    BY <1>3, <1>4
  <2> QED
    BY <1>7, <2>1, <2>2, <2>3 DEF Key, Groupings
<1> QED
  BY <1>5, <1>7, <1>8 DEF old, new, have

\* A migration changes no answer a reader could have had before it (add_column; stats and
\* tail behind their has_column guards).
THEOREM MigrationTheorem == Spec => MigrationRegroupsNothing
<1> DEFINE Same == /\ \A g \in Groupings : StatsNeeds(g) \subseteq cols =>
                        Stats(rows', cols', g, Empty) = Stats(rows, cols, g, Empty)
                   /\ TailNeeds \subseteq cols =>
                        Tailed(rows', cols', Empty, 2) = Tailed(rows, cols, Empty, 2)
<1>1. RowInv /\ SchemaInv /\ [Next]_vars => [cols' # cols => Same]_vars
  <2> SUFFICES ASSUME RowInv, SchemaInv, Next, cols' # cols PROVE Same
    BY DEF vars
  <2>1. ASSUME NEW p \in Processes, Create(p) PROVE Same
    <3>1. cols = {}
      BY <2>1 DEF Create
    <3> QED
      BY <3>1 DEF StatsNeeds, TailNeeds
  <2>2. ASSUME NEW p \in Processes, AddColumn(p) PROVE Same
    <3> DEFINE c == Appended[step[p]]
    <3>1. step[p] \in 1..Width
      BY <2>2, AppendedColumns DEF AddColumn, SchemaInv, SchemaTypes, Width
    <3>2. /\ c \in AllColumns \ cols /\ c # "id"
          /\ rows' = Widened(c) /\ cols' = cols \cup {c}
      BY <2>2, <3>1, AppendedColumns DEF AddColumn
    <3> HIDE DEF c
    <3>3. rows \in Seq(Rows)
      BY DEF RowInv, RowTypes
    <3>4. DOMAIN rows' = DOMAIN rows /\ Len(rows') = Len(rows)
      BY <3>2, <3>3, WidenedKeeps DEF Widened
    <3>5. \A i \in DOMAIN rows :
            /\ Alike(rows[i], rows'[i])
            /\ "client" \in cols => Tool(cols', rows'[i]) = Tool(cols, rows[i])
            /\ \A g \in Groupings : StatsNeeds(g) \subseteq cols =>
                 Key(g, cols', rows'[i]) = Key(g, cols, rows[i])
      BY <3>2, WidenedReads
    <3>6. ASSUME NEW g \in Groupings, StatsNeeds(g) \subseteq cols
          PROVE  Stats(rows', cols', g, Empty) = Stats(rows, cols, g, Empty)
      BY <3>4, <3>5, <3>6, SameGroups
    <3>7. ASSUME TailNeeds \subseteq cols
          PROVE  Tailed(rows', cols', Empty, 2) = Tailed(rows, cols, Empty, 2)
      <4>1. "client" \in cols
        BY <3>7 DEF TailNeeds
      <4> QED
        BY <3>4, <3>5, <4>1, SameTail
    <3> QED
      BY <3>6, <3>7
  <2> QED
    BY <2>1, <2>2 DEF Next, Steps, Writes, Open, OpenFails, Call, Signal, Kill, Bind, Finish, Exit,
      StartWrite, Insert
<1> QED
  BY <1>1, StoreInvariance, PTL DEF Spec, MigrationRegroupsNothing

-----------------------------------------------------------------------------
(***************************************************************************)
(* Totals                                                                  *)
(***************************************************************************)
\* Every set of naturals has a least element, so what holds of 0 and of the successor of
\* whatever it holds of holds of all of them.
LEMMA Least ==
  ASSUME NEW S, S \subseteq Nat, S # {}
  PROVE  \E s \in S : \A r \in S : s <= r
<1>1. PICK s \in S : \A r \in S : ~(<<r, s>> \in OpToRel(<, Nat))
  BY NatLessThanWellFounded, WFMin
<1>2. \A r \in S : ~(r < s)
  BY <1>1 DEF OpToRel
<1> QED
  BY <1>2

LEMMA Climb ==
  ASSUME NEW P, 0 \in P, \A n \in Nat : n \in P => n + 1 \in P
  PROVE  Nat \subseteq P
<1> SUFFICES ASSUME Nat \ P # {} PROVE FALSE
  OBVIOUS
<1>1. PICK n \in Nat \ P : \A r \in Nat \ P : n <= r
  BY Least
<1>2. n # 0 /\ n - 1 \in Nat
  BY <1>1
<1>3. n - 1 \in P
  BY <1>1, <1>2
<1>4. (n - 1) + 1 \in P
  BY <1>2, <1>3
<1> QED
  BY <1>1, <1>4

\* What the ith place of a column adds to its total.
Part(column, i) == IF i \in DOMAIN column /\ column[i] # Unknown THEN column[i] ELSE 0

IsColumn(column) == \A i \in DOMAIN column : column[i] \in Int

\* The totals on the way.
Running(column, n, upto) ==
  upto = [i \in 0..n |-> IF i = 0 THEN 0 ELSE upto[i - 1] + Part(column, i)]

LEMMA TotalRuns ==
  ASSUME NEW column, NEW n
  PROVE  Total(column, n) = (CHOOSE upto : Running(column, n, upto))[n]
BY DEF Total, Running, Part

LEMMA PartIsInt ==
  ASSUME NEW column, IsColumn(column), NEW i
  PROVE  Part(column, i) \in Int
BY DEF Part, IsColumn

\* There are such totals ...
LEMMA RunExists ==
  ASSUME NEW column, IsColumn(column), NEW n \in Nat
  PROVE  \E upto : Running(column, n, upto)
<1> DEFINE P == {m \in Nat : \E upto : Running(column, m, upto)}
<1>1. 0 \in P
  <2> DEFINE upto == [i \in 0..0 |-> 0]
  <2>1. Running(column, 0, upto)
    BY DEF Running
  <2> QED
    BY <2>1
<1>2. ASSUME NEW m \in Nat, m \in P PROVE m + 1 \in P
  <2>1. PICK upto : Running(column, m, upto)
    BY <1>2
  <2> DEFINE more == [i \in 0..m + 1 |-> IF i = m + 1 THEN upto[m] + Part(column, m + 1) ELSE upto[i]]
  <2>2. \A i \in 0..m : upto[i] = IF i = 0 THEN 0 ELSE upto[i - 1] + Part(column, i)
    BY <2>1 DEF Running
  <2>3. \A i \in 0..m + 1 : more[i] = IF i = 0 THEN 0 ELSE more[i - 1] + Part(column, i)
    <3> SUFFICES ASSUME NEW i \in 0..m + 1
                 PROVE  more[i] = IF i = 0 THEN 0 ELSE more[i - 1] + Part(column, i)
      OBVIOUS
    <3>1. CASE i = 0
      BY <2>2, <3>1
    <3>2. CASE i \in 1..m
      <4>1. more[i] = upto[i] /\ more[i - 1] = upto[i - 1] /\ i \in 0..m /\ i # 0
        BY <3>2
      <4> HIDE DEF more
      <4> QED
        BY <2>2, <4>1
    <3>3. CASE i = m + 1
      <4>1. i # 0 /\ i - 1 = m /\ more[i] = upto[m] + Part(column, i) /\ more[m] = upto[m]
        BY <3>3
      <4> HIDE DEF more
      <4> QED
        BY <4>1
    <3> QED
      BY <3>1, <3>2, <3>3
  <2>4. more = [i \in 0..m + 1 |-> more[i]]
    OBVIOUS
  <2> HIDE DEF more
  <2>5. Running(column, m + 1, more)
    BY <2>3, <2>4 DEF Running
  <2> QED
    BY <2>5
<1> HIDE DEF P
<1>3. Nat \subseteq P
  BY <1>1, <1>2, Climb
<1> QED
  BY <1>3 DEF P

\* ... and those of a longer run are the same as far as they go.
LEMMA RunsAgree ==
  ASSUME NEW column, NEW n \in Nat, NEW m \in 0..n,
         NEW it, Running(column, n, it), NEW jt, Running(column, m, jt)
  PROVE  it[m] = jt[m]
<1> DEFINE P == {i \in Nat : i <= m => it[i] = jt[i]}
<1>1. /\ \A i \in 0..n : it[i] = IF i = 0 THEN 0 ELSE it[i - 1] + Part(column, i)
      /\ \A i \in 0..m : jt[i] = IF i = 0 THEN 0 ELSE jt[i - 1] + Part(column, i)
  BY DEF Running
<1>2. 0 \in P
  BY <1>1
<1>3. ASSUME NEW i \in Nat, i \in P PROVE i + 1 \in P
  <2> SUFFICES ASSUME i + 1 <= m PROVE it[i + 1] = jt[i + 1]
    OBVIOUS
  <2>1. i + 1 \in 0..n /\ i + 1 \in 0..m /\ i + 1 # 0 /\ (i + 1) - 1 = i /\ it[i] = jt[i]
    BY <1>3
  <2> QED
    BY <1>1, <2>1
<1> HIDE DEF P
<1>4. Nat \subseteq P
  BY <1>2, <1>3, Climb
<1> QED
  BY <1>4 DEF P

\* A total, place by place.
LEMMA TotalStep ==
  ASSUME NEW column, IsColumn(column)
  PROVE  /\ Total(column, 0) = 0
         /\ \A n \in Nat : /\ Total(column, n) \in Int
                           /\ Total(column, n + 1) = Total(column, n) + Part(column, n + 1)
<1> DEFINE it(n) == CHOOSE upto : Running(column, n, upto)
<1>1. \A n \in Nat : Running(column, n, it(n)) /\ Total(column, n) = it(n)[n]
  BY RunExists, TotalRuns
<1> HIDE DEF it
<1>2. Total(column, 0) = 0
  BY <1>1 DEF Running
<1>3. ASSUME NEW n \in Nat
      PROVE  Total(column, n + 1) = Total(column, n) + Part(column, n + 1)
  <2> DEFINE more == it(n + 1)
  <2>1. n + 1 \in Nat /\ n \in 0..n + 1 /\ n + 1 \in 0..n + 1 /\ n + 1 # 0 /\ (n + 1) - 1 = n
    OBVIOUS
  <2>2. Running(column, n + 1, more) /\ Total(column, n + 1) = more[n + 1]
    BY <1>1, <2>1
  <2>3. more[n] = it(n)[n]
    BY <1>1, <2>1, <2>2, RunsAgree
  <2> HIDE DEF more
  <2>4. more[n + 1] = more[n] + Part(column, n + 1)
    BY <2>1, <2>2 DEF Running
  <2> QED
    BY <1>1, <2>2, <2>3, <2>4
<1> DEFINE P == {n \in Nat : Total(column, n) \in Int}
<1>4. 0 \in P
  BY <1>2
<1>5. ASSUME NEW n \in Nat, n \in P PROVE n + 1 \in P
  <2>1. Part(column, n + 1) \in Int
    BY PartIsInt
  <2> QED
    BY <1>3, <1>5, <2>1
<1> HIDE DEF P
<1>6. Nat \subseteq P
  BY <1>4, <1>5, Climb
<1> QED
  BY <1>2, <1>3, <1>6 DEF P

\* Totals add up where every place does.
LEMMA TotalsAdd ==
  ASSUME NEW whole, NEW one, NEW other, IsColumn(whole), IsColumn(one), IsColumn(other),
         NEW n \in Nat, \A i \in 1..n : Part(whole, i) = Part(one, i) + Part(other, i)
  PROVE  Total(whole, n) = Total(one, n) + Total(other, n)
<1> DEFINE P == {m \in Nat : m <= n => Total(whole, m) = Total(one, m) + Total(other, m)}
<1>1. 0 \in P
  BY TotalStep
<1>2. ASSUME NEW m \in Nat, m \in P PROVE m + 1 \in P
  <2> SUFFICES ASSUME m + 1 <= n PROVE Total(whole, m + 1) = Total(one, m + 1) + Total(other, m + 1)
    OBVIOUS
  <2>1. Total(whole, m) = Total(one, m) + Total(other, m)
    BY <1>2
  <2>2. Part(whole, m + 1) = Part(one, m + 1) + Part(other, m + 1)
    OBVIOUS
  <2>3. /\ Part(whole, m + 1) \in Int /\ Part(one, m + 1) \in Int /\ Part(other, m + 1) \in Int
    BY PartIsInt
  <2>4. /\ Total(whole, m) \in Int /\ Total(whole, m + 1) = Total(whole, m) + Part(whole, m + 1)
        /\ Total(one, m) \in Int /\ Total(one, m + 1) = Total(one, m) + Part(one, m + 1)
        /\ Total(other, m) \in Int /\ Total(other, m + 1) = Total(other, m) + Part(other, m + 1)
    BY TotalStep
  <2> QED
    BY <2>1, <2>2, <2>3, <2>4
<1> HIDE DEF P
<1>3. Nat \subseteq P
  BY <1>1, <1>2, Climb
<1> QED
  BY <1>3 DEF P

\* No more in any place is no more in all.
LEMMA TotalsBelow ==
  ASSUME NEW less, NEW more, IsColumn(less), IsColumn(more),
         NEW n \in Nat, \A i \in 1..n : Part(less, i) <= Part(more, i)
  PROVE  Total(less, n) <= Total(more, n)
<1> DEFINE P == {m \in Nat : m <= n => Total(less, m) <= Total(more, m)}
<1>1. 0 \in P
  BY TotalStep
<1>2. ASSUME NEW m \in Nat, m \in P PROVE m + 1 \in P
  <2> SUFFICES ASSUME m + 1 <= n PROVE Total(less, m + 1) <= Total(more, m + 1)
    OBVIOUS
  <2>1. Total(less, m) <= Total(more, m)
    BY <1>2
  <2>2. Part(less, m + 1) <= Part(more, m + 1)
    OBVIOUS
  <2>3. Part(less, m + 1) \in Int /\ Part(more, m + 1) \in Int
    BY PartIsInt
  <2>4. /\ Total(less, m) \in Int /\ Total(less, m + 1) = Total(less, m) + Part(less, m + 1)
        /\ Total(more, m) \in Int /\ Total(more, m + 1) = Total(more, m) + Part(more, m + 1)
    BY TotalStep
  <2> QED
    BY <2>1, <2>2, <2>3, <2>4
<1> HIDE DEF P
<1>3. Nat \subseteq P
  BY <1>1, <1>2, Climb
<1> QED
  BY <1>3 DEF P

\* Columns of the same parts have one total, and one without negative parts is none.
LEMMA TotalsSame ==
  ASSUME NEW one, NEW other, IsColumn(one), IsColumn(other),
         NEW n \in Nat, \A i \in 1..n : Part(one, i) = Part(other, i)
  PROVE  Total(one, n) = Total(other, n)
<1>1. \A i \in 1..n : Part(one, i) \in Int /\ Part(other, i) \in Int
  BY PartIsInt
<1>2. Total(one, n) <= Total(other, n) /\ Total(other, n) <= Total(one, n)
  BY <1>1, TotalsBelow
<1>3. Total(one, n) \in Int /\ Total(other, n) \in Int
  BY TotalStep
<1> QED
  BY <1>2, <1>3

LEMMA TotalOfNothing ==
  ASSUME NEW column, IsColumn(column), NEW n \in Nat, \A i \in 1..n : Part(column, i) = 0
  PROVE  Total(column, n) = 0
<1>1. Total(column, n) = Total(column, n) + Total(column, n)
  BY TotalsAdd
<1>2. PICK t \in Int : t = Total(column, n)
  BY TotalStep
<1>3. t = t + t
  BY <1>1, <1>2
<1>4. t = 0
  BY <1>3
<1> QED
  BY <1>2, <1>4

LEMMA TotalIsNat ==
  ASSUME NEW column, IsColumn(column), NEW n \in Nat, \A i \in 1..n : Part(column, i) >= 0
  PROVE  Total(column, n) \in Nat
<1> DEFINE none == [i \in {} |-> 0]
<1>1. IsColumn(none) /\ \A i \in 1..n : Part(none, i) = 0
  BY DEF IsColumn, Part
<1> HIDE DEF none
<1>2. Total(none, n) = 0
  BY <1>1, TotalOfNothing
<1>3. Total(none, n) <= Total(column, n)
  BY <1>1, TotalsBelow
<1>4. Total(column, n) \in Int
  BY TotalStep
<1> QED
  BY <1>2, <1>3, <1>4

-----------------------------------------------------------------------------
(***************************************************************************)
(* Groups and their money                                                  *)
(***************************************************************************)
LEMMA PlacesAreFinite ==
  ASSUME NEW n \in Nat
  PROVE  /\ IsFiniteSet(1..n) /\ Cardinality(1..n) = n
         /\ \A T \in SUBSET (1..n) : IsFiniteSet(T) /\ Cardinality(T) \in Nat
<1>1. IsFiniteSet(1..n) /\ Cardinality(1..n) = n
  BY FS_Interval
<1> QED
  BY <1>1, FS_Subset, FS_CardinalityType

\* SetToSeq names every element once.
LEMMA EachOnce ==
  ASSUME NEW K, IsFiniteSet(K)
  PROVE  /\ SetToSeq(K) \in Seq(K) /\ Len(SetToSeq(K)) = Cardinality(K)
         /\ \A m, n \in 1..Cardinality(K) : SetToSeq(K)[m] = SetToSeq(K)[n] => m = n
         /\ \A k \in K : \E n \in 1..Cardinality(K) : SetToSeq(K)[n] = k
<1> DEFINE M == Cardinality(K)
           keys == SetToSeq(K)
<1>1. M \in Nat /\ IsFiniteSet(1..M) /\ Cardinality(1..M) = M
  BY FS_CardinalityType, FS_Interval
<1>2. \E f \in [1..M -> K] : IsInjective(f)
  BY FS_CardinalityType DEF ExistsBijection, Bijection, Injection, IsInjective
<1>3. keys = CHOOSE f \in [1..M -> K] : IsInjective(f)
  BY DEF SetToSeq
<1> HIDE DEF keys, M
<1>4. keys \in [1..M -> K] /\ IsInjective(keys)
  BY <1>2, <1>3
<1>5. keys \in Seq(K) /\ Len(keys) = M
  BY <1>1, <1>4
<1>6. \A m, n \in 1..M : keys[m] = keys[n] => m = n
  BY <1>4 DEF IsInjective
<1>7. keys \in Injection(1..M, K)
  BY <1>4 DEF Injection, IsInjective
<1>8. keys \in Surjection(1..M, K)
  BY <1>1, <1>7, FS_Injection DEF M
<1>9. \A k \in K : \E n \in 1..M : keys[n] = k
  BY <1>8 DEF Surjection
<1> QED
  BY <1>5, <1>6, <1>9 DEF keys, M

\* What is known of a row's money and tokens.
LEMMA RowFigures ==
  ASSUME ReaderInv, NEW i \in DOMAIN rows
  PROVE  /\ Cost(rows[i]) \in Nat \cup {Unknown} /\ TailCost(rows[i]) \in Nat \cup {Unknown}
         /\ TailCost(rows[i]) # Cost(rows[i]) => TailCost(rows[i]) = Unknown /\ Cost(rows[i]) = 0
         /\ rows[i].latency \in Nat /\ rows[i].read \in Nat /\ CacheDenom(rows[i]) \in Nat
<1>1. HasFigures(rows[i])
  BY DEF ReaderInv, RowsTell, Tells
<1>2. /\ rows[i].cost \in Nat \cup {Unknown} /\ rows[i].price \in Nat
      /\ rows[i].latency \in Nat /\ rows[i].read \in Nat /\ rows[i].input \in Nat
      /\ rows[i].output \in Nat /\ rows[i].write \in Nat
  BY <1>1 DEF HasFigures
<1>3. /\ Cost(rows[i]) \in Nat \cup {Unknown} /\ TailCost(rows[i]) \in Nat \cup {Unknown}
      /\ TailCost(rows[i]) # Cost(rows[i]) => TailCost(rows[i]) = Unknown /\ Cost(rows[i]) = 0
  BY <1>2 DEF Cost, TailCost
<1>4. CacheDenom(rows[i]) \in Nat
  BY <1>2 DEF CacheDenom
<1> QED
  BY <1>2, <1>3, <1>4

\* Only a database without a provider, which the table forbids, would have rows that
\* belong to no group.
LEMMA KeyIsNamed ==
  ASSUME ReaderInv, NEW i \in DOMAIN rows, NEW g \in Groupings, g # "day"
  PROVE  Key(g, cols, rows[i]) # Nobody
<1>1. rows[i].provider # Nobody
  BY DEF ReaderInv, RowsTell, Tells, HasFigures
<1>2. \A a : Or(a, "unknown") # Nobody
  BY DEF Or, Nobody
<1> QED
  BY <1>1, <1>2 DEF Key, Groupings

LEMMA CostsAre ==
  ASSUME ReaderInv, NEW S \in SUBSET DOMAIN rows
  PROVE  /\ IsColumn(Costs(rows, S))
         /\ \A i \in Nat : Part(Costs(rows, S), i) =
              IF i \in S /\ Cost(rows[i]) # Unknown THEN Cost(rows[i]) ELSE 0
         /\ \A i \in Nat : Part(Costs(rows, S), i) \in Nat
<1>1. \A i \in S : Cost(rows[i]) \in Nat \cup {Unknown}
  BY RowFigures
<1>2. \A i \in Nat : Part(Costs(rows, S), i) =
        IF i \in S /\ Cost(rows[i]) # Unknown THEN Cost(rows[i]) ELSE 0
  BY DEF Costs, Part
<1>3. IsColumn(Costs(rows, S))
  BY <1>1 DEF IsColumn, Costs, Unknown
<1> QED
  BY <1>1, <1>2, <1>3

LEMMA RowsAreFinite ==
  ASSUME ReaderInv
  PROVE  /\ Len(rows) \in Nat /\ DOMAIN rows = 1..Len(rows)
         /\ \A S \in SUBSET DOMAIN rows : IsFiniteSet(S) /\ Cardinality(S) \in Nat
<1>1. Len(rows) \in Nat /\ DOMAIN rows = 1..Len(rows)
  BY DEF ReaderInv, RowInv, RowTypes
<1>2. IsFiniteSet(1..Len(rows))
  BY <1>1, FS_Interval
<1> QED
  BY <1>1, <1>2, FS_Subset, FS_CardinalityType

\* The groups of a report, and their rows.
KeyAt(g, i) == Key(g, cols, rows[i])
Keys(g, bound) == {KeyAt(g, i) : i \in In(rows, bound)}
Group(g, bound, k) == {i \in In(rows, bound) : KeyAt(g, i) = k}

LEMMA KeysAreFinite ==
  ASSUME ReaderInv, NEW g, NEW bound
  PROVE  IsFiniteSet(Keys(g, bound)) /\ In(rows, bound) \in SUBSET DOMAIN rows
<1> DEFINE W == In(rows, bound)
           f == [i \in W |-> KeyAt(g, i)]
<1>1. W \in SUBSET DOMAIN rows
  BY DEF In
<1>2. f \in Surjection(W, Keys(g, bound))
  BY DEF Surjection, Keys
<1> QED
  BY <1>1, <1>2, RowsAreFinite, FS_Surjection

\* Groups have the calls and the money of the rows they are made of, in whatever order
\* they are summed.
LEMMA GroupsAddUp ==
  ASSUME ReaderInv, NEW g, NEW bound, NEW calls, NEW money,
         NEW keys, keys = SetToSeq(Keys(g, bound)),
         DOMAIN calls = DOMAIN keys, DOMAIN money = DOMAIN keys,
         \A n \in DOMAIN keys :
           /\ calls[n] = Cardinality(Group(g, bound, keys[n]))
           /\ money[n] = Total(Costs(rows, Group(g, bound, keys[n])), Len(rows))
  PROVE  /\ Total(calls, Len(keys)) = Cardinality(In(rows, bound))
         /\ Total(money, Len(keys)) = Total(Costs(rows, In(rows, bound)), Len(rows))
<1> DEFINE M == Len(keys)
           K == Keys(g, bound)
           S == In(rows, bound)
           Members(n) == Group(g, bound, keys[n])
           Reached(m) == {i \in S : \E n \in 1..m : KeyAt(g, i) = keys[n]}
           Spent(R) == Total(Costs(rows, R), Len(rows))
           P == {m \in Nat : m <= M => /\ Total(calls, m) = Cardinality(Reached(m))
                                       /\ Total(money, m) = Spent(Reached(m))}
<1>0. /\ Len(rows) \in Nat /\ DOMAIN rows = 1..Len(rows)
      /\ \A R \in SUBSET DOMAIN rows : IsFiniteSet(R) /\ Cardinality(R) \in Nat
  BY RowsAreFinite
<1>1. IsFiniteSet(K) /\ S \in SUBSET DOMAIN rows
  BY KeysAreFinite
<1>2. /\ M \in Nat /\ DOMAIN keys = 1..M
      /\ \A m, n \in 1..M : keys[m] = keys[n] => m = n
      /\ \A k \in K : \E n \in 1..M : keys[n] = k
  <2>0. keys = SetToSeq(K)
    OBVIOUS
  <2> HIDE DEF K
  <2>1. keys \in Seq(K) /\ M = Cardinality(K)
    BY <1>1, <2>0, EachOnce
  <2>2. M \in Nat /\ DOMAIN keys = 1..M
    BY <2>1
  <2>3. \A m, n \in 1..Cardinality(K) : keys[m] = keys[n] => m = n
    BY <1>1, <2>0, EachOnce
  <2>4. \A k \in K : \E n \in 1..Cardinality(K) : keys[n] = k
    BY <1>1, <2>0, EachOnce
  <2> HIDE DEF M
  <2> QED
    BY <2>1, <2>2, <2>3, <2>4
<1>3. \A R \in SUBSET S : /\ IsColumn(Costs(rows, R)) /\ Spent(R) \in Nat
                          /\ \A i \in Nat : Part(Costs(rows, R), i) =
                               IF i \in R /\ Cost(rows[i]) # Unknown THEN Cost(rows[i]) ELSE 0
  <2> SUFFICES ASSUME NEW R \in SUBSET S
               PROVE  /\ IsColumn(Costs(rows, R)) /\ Spent(R) \in Nat
                      /\ \A i \in Nat : Part(Costs(rows, R), i) =
                           IF i \in R /\ Cost(rows[i]) # Unknown THEN Cost(rows[i]) ELSE 0
    OBVIOUS
  <2>1. /\ IsColumn(Costs(rows, R)) /\ \A i \in Nat : Part(Costs(rows, R), i) \in Nat
        /\ \A i \in Nat : Part(Costs(rows, R), i) =
             IF i \in R /\ Cost(rows[i]) # Unknown THEN Cost(rows[i]) ELSE 0
    <3>1. R \in SUBSET DOMAIN rows
      BY <1>1
    <3> QED
      BY <3>1, CostsAre
  <2>2. \A i \in 1..Len(rows) : Part(Costs(rows, R), i) >= 0
    BY <1>0, <2>1
  <2> QED
    BY <1>0, <2>1, <2>2, TotalIsNat
<1>4. \A n \in 1..M : Members(n) \in SUBSET S
  BY DEF Group
<1>5. /\ IsColumn(calls) /\ \A n \in 1..M : Part(calls, n) = Cardinality(Members(n))
      /\ IsColumn(money) /\ \A n \in 1..M : Part(money, n) = Spent(Members(n))
  <2>1. \A n \in 1..M : calls[n] = Cardinality(Members(n)) /\ calls[n] \in Nat
    <3> SUFFICES ASSUME NEW n \in 1..M
                 PROVE  calls[n] = Cardinality(Members(n)) /\ calls[n] \in Nat
      OBVIOUS
    <3>1. n \in DOMAIN keys
      BY <1>2
    <3>2. calls[n] = Cardinality(Members(n))
      BY <3>1
    <3>3. Members(n) \in SUBSET DOMAIN rows
      BY <1>1, <1>4
    <3> HIDE DEF Members, M
    <3> QED
      BY <1>0, <3>2, <3>3
  <2>2. \A n \in 1..M : money[n] = Spent(Members(n)) /\ money[n] \in Nat
    BY <1>2, <1>3, <1>4
  <2>3. DOMAIN calls = 1..M /\ DOMAIN money = 1..M
    BY <1>2
  <2> HIDE DEF Members, Spent, M
  <2>4. Unknown \notin Nat /\ Nat \subseteq Int
    BY DEF Unknown
  <2>5. IsColumn(calls) /\ \A n \in 1..M : Part(calls, n) = calls[n]
    BY <2>1, <2>3, <2>4 DEF IsColumn, Part
  <2>6. IsColumn(money) /\ \A n \in 1..M : Part(money, n) = money[n]
    BY <2>2, <2>3, <2>4 DEF IsColumn, Part
  <2> QED
    BY <2>1, <2>2, <2>5, <2>6
<1>6. 0 \in P
  <2>1. Reached(0) = {}
    OBVIOUS
  <2>2. Spent({}) = 0
    <3>1. \A i \in 1..Len(rows) : Part(Costs(rows, {}), i) = 0
      BY <1>0, <1>3
    <3> QED
      BY <1>0, <1>3, <3>1, TotalOfNothing
  <2>3. Total(calls, 0) = 0 /\ Total(money, 0) = 0
    BY <1>5, TotalStep
  <2> HIDE DEF Reached, Spent
  <2> QED
    BY <2>1, <2>2, <2>3, FS_EmptySet
<1>7. ASSUME NEW m \in Nat, m \in P PROVE m + 1 \in P
  <2> SUFFICES ASSUME m + 1 <= M
               PROVE  /\ Total(calls, m + 1) = Cardinality(Reached(m + 1))
                      /\ Total(money, m + 1) = Spent(Reached(m + 1))
    OBVIOUS
  <2> DEFINE old == Reached(m)
             new == Members(m + 1)
             all == Reached(m + 1)
  <2>1. Total(calls, m) = Cardinality(old) /\ Total(money, m) = Spent(old)
    BY <1>2, <1>7
  <2>2. m + 1 \in 1..M /\ 1..m + 1 = 1..m \cup {m + 1} /\ \A n \in 1..m : n \in 1..M /\ n # m + 1
    <3>1. M \in Nat /\ m + 1 <= M
      BY <1>2
    <3> HIDE DEF M
    <3> QED
      BY <3>1
  <2>3. all = old \cup new /\ old \cap new = {}
    <3>1. \A n \in 1..m : keys[n] # keys[m + 1]
      BY <1>2, <2>2
    <3>2. \A i \in S : (\E n \in 1..m + 1 : KeyAt(g, i) = keys[n])
                        <=> (\E n \in 1..m : KeyAt(g, i) = keys[n]) \/ KeyAt(g, i) = keys[m + 1]
      BY <2>2
    <3>3. all = old \cup new
      BY <3>2 DEF Group
    <3>4. old \cap new = {}
      BY <3>1 DEF Group
    <3> QED
      BY <3>3, <3>4
  <2>4. /\ old \in SUBSET S /\ new \in SUBSET S /\ all \in SUBSET S
        /\ Part(calls, m + 1) = Cardinality(new) /\ Part(money, m + 1) = Spent(new)
    <3>1. new \in SUBSET S
      BY <1>4, <2>2
    <3>2. old \in SUBSET S /\ all \in SUBSET S
      OBVIOUS
    <3>3. Part(calls, m + 1) = Cardinality(new) /\ Part(money, m + 1) = Spent(new)
      <4> HIDE DEF Members, Spent, M
      <4> QED
        BY <1>5, <2>2
    <3> QED
      BY <3>1, <3>2, <3>3
  <2> HIDE DEF old, new, all, Reached, Members, Spent, M, P
  <2>5. Cardinality(all) = Cardinality(old) + Cardinality(new)
    <3>1. IsFiniteSet(old) /\ IsFiniteSet(new) /\ Cardinality(old) \in Nat /\ Cardinality(new) \in Nat
      BY <1>0, <1>1, <2>4
    <3>2. Cardinality(old \cup new) = Cardinality(old) + Cardinality(new) - Cardinality({})
      BY <2>3, <3>1, FS_Union
    <3> QED
      BY <2>3, <3>1, <3>2, FS_EmptySet
  <2>6. Spent(all) = Spent(old) + Spent(new)
    <3>1. \A i \in 1..Len(rows) :
            Part(Costs(rows, all), i) = Part(Costs(rows, old), i) + Part(Costs(rows, new), i)
      <4> SUFFICES ASSUME NEW i \in 1..Len(rows)
                   PROVE  Part(Costs(rows, all), i) = Part(Costs(rows, old), i) + Part(Costs(rows, new), i)
        OBVIOUS
      <4> DEFINE Is(R) == IF i \in R /\ Cost(rows[i]) # Unknown THEN Cost(rows[i]) ELSE 0
      <4>1. /\ Part(Costs(rows, all), i) = Is(all) /\ Part(Costs(rows, old), i) = Is(old)
            /\ Part(Costs(rows, new), i) = Is(new)
        BY <1>0, <1>3, <2>4
      <4>2. Cost(rows[i]) \in Nat \cup {Unknown}
        BY <1>0, RowFigures
      <4> QED
        BY <2>3, <4>1, <4>2
    <3>2. IsColumn(Costs(rows, all)) /\ IsColumn(Costs(rows, old)) /\ IsColumn(Costs(rows, new))
      BY <1>3, <2>4
    <3> QED
      BY <1>0, <3>1, <3>2, TotalsAdd DEF Spent
  <2>7. /\ Total(calls, m + 1) = Total(calls, m) + Part(calls, m + 1)
        /\ Total(money, m + 1) = Total(money, m) + Part(money, m + 1)
    BY <1>5, TotalStep
  <2> QED
    BY <2>1, <2>4, <2>5, <2>6, <2>7 DEF all
<1>8. M \in P
  <2> HIDE DEF P
  <2>1. Nat \subseteq P
    BY <1>6, <1>7, Climb
  <2> QED
    BY <1>2, <2>1
<1>9. Reached(M) = S
  <2>1. \A i \in S : KeyAt(g, i) \in K
    BY DEF Keys
  <2>2. \A i \in S : \E n \in 1..M : KeyAt(g, i) = keys[n]
    BY <1>2, <2>1
  <2> HIDE DEF M
  <2> QED
    BY <2>2
<1> HIDE DEF Reached
<1> QED
  BY <1>2, <1>8, <1>9

\* No row is without a group.
LEMMA StatsAre ==
  ASSUME ReaderInv, NEW bound, NEW g \in Groupings
  PROVE  /\ Stats(rows, cols, g, bound).unpriced = Unpriced(rows, In(rows, bound))
         /\ DOMAIN Stats(rows, cols, g, bound).groups = Keys(g, bound)
         /\ \A k \in Keys(g, bound) :
              Stats(rows, cols, g, bound).groups[k] = Agg(rows, Group(g, bound, k))
<1> DEFINE W   == In(rows, bound)
           key == [i \in DOMAIN rows |-> Key(g, cols, rows[i])]
           read == {i \in W : g = "day" \/ key[i] # Nobody}
<1>1. \A i \in W : i \in DOMAIN rows /\ key[i] = KeyAt(g, i) /\ (g = "day" \/ key[i] # Nobody)
  BY KeyIsNamed DEF In, KeyAt
<1>2. read = W
  BY <1>1
<1>3. Stats(rows, cols, g, bound) =
        [groups   |-> [k \in {key[i] : i \in read} |-> Agg(rows, {i \in read : key[i] = k})],
         unpriced |-> Unpriced(rows, read)]
  BY DEF Stats
<1>4. {key[i] : i \in W} = Keys(g, bound)
  BY <1>1 DEF Keys
<1>5. \A k : {i \in W : key[i] = k} = Group(g, bound, k)
  BY <1>1 DEF Group
<1> HIDE DEF key, read, W
<1> QED
  BY <1>2, <1>3, <1>4, <1>5 DEF W

\* tail with room for every row shows them all.
LEMMA TailShowsAll ==
  ASSUME ReaderInv, NEW bound
  PROVE  Tailed(rows, cols, bound, Len(rows)) =
           [i \in In(rows, bound) |->
              [id |-> rows[i].id, tool |-> Tool(cols, rows[i]), cost |-> TailCost(rows[i])]]
<1> DEFINE W == In(rows, bound)
<1>1. W \in SUBSET DOMAIN rows
  BY DEF In
<1> HIDE DEF W
<1>2. ASSUME NEW j \in W PROVE Cardinality({k \in W : j < k}) < Len(rows)
  <2> DEFINE later == {k \in W : j < k}
             rest  == DOMAIN rows \ {j}
  <2>1. Len(rows) \in Nat /\ DOMAIN rows = 1..Len(rows)
    BY RowsAreFinite
  <2>2. IsFiniteSet(1..Len(rows)) /\ Cardinality(1..Len(rows)) = Len(rows)
    BY <2>1, PlacesAreFinite
  <2>3. j \in 1..Len(rows) /\ rest = 1..Len(rows) \ {j}
    BY <1>1, <1>2, <2>1
  <2>4. IsFiniteSet(rest) /\ Cardinality(rest) = Len(rows) - 1
    BY <2>2, <2>3, FS_RemoveElement
  <2>5. later \in SUBSET rest
    BY <1>1, <2>1
  <2> HIDE DEF rest, later
  <2>6. IsFiniteSet(later) /\ Cardinality(later) <= Cardinality(rest)
    BY <2>4, <2>5, FS_Subset
  <2>7. Cardinality(later) \in Nat
    BY <2>6, FS_CardinalityType
  <2> QED
    BY <2>1, <2>4, <2>6, <2>7 DEF later
<1>3. {j \in W : Cardinality({k \in W : j < k}) < Len(rows)} = W
  BY <1>2
<1> QED
  BY <1>3 DEF Tailed, W

\* A figure of all groups.
LEMMA SumIs ==
  ASSUME NEW K, IsFiniteSet(K), NEW groups, DOMAIN groups = K, NEW field, NEW keys, keys = SetToSeq(K)
  PROVE  /\ Sum(groups, field) = Total([n \in DOMAIN keys |-> groups[keys[n]][field]], Len(keys))
         /\ \A n \in DOMAIN keys : keys[n] \in K
<1>1. keys \in Seq(K)
  BY EachOnce
<1> QED
  BY <1>1 DEF Sum

\* Every report tells of the same calls and the same money (stats.rs, tail.rs, check.rs
\* with call_cost and unified_tool in common).
THEOREM ReportsTheorem == Spec => []ReportsAgree
<1>1. ReaderInv => ReportsAgree
  <2> SUFFICES ASSUME ReaderInv, NEW bound \in Bounds
               PROVE  LET due   == Spend(rows, bound)
                          shown == Tailed(rows, cols, bound, Len(rows))
                      IN  /\ Total([i \in DOMAIN shown |-> shown[i].cost], Len(rows)) = due.spent
                          /\ \A g \in Groupings : StatsNeeds(g) \subseteq cols =>
                               LET told == Stats(rows, cols, g, bound)
                               IN  /\ Sum(told.groups, "calls") = Cardinality(DOMAIN shown)
                                   /\ Sum(told.groups, "cost") = due.spent
                                   /\ told.unpriced = due.unpriced
    BY DEF ReportsAgree
  <2> DEFINE due   == Spend(rows, bound)
             shown == Tailed(rows, cols, bound, Len(rows))
             W == In(rows, bound)
             N == Len(rows)
  <2>1. due.spent = Total(Costs(rows, W), N) /\ due.unpriced = Unpriced(rows, W)
    BY DEF Spend
  <2>2. DOMAIN shown = W /\ \A i \in W : shown[i].cost = TailCost(rows[i])
    BY TailShowsAll
  <2>3. W \in SUBSET DOMAIN rows /\ N \in Nat /\ DOMAIN rows = 1..N /\ W = In(rows, bound)
    BY RowsAreFinite DEF In
  <2> HIDE DEF due, shown, W
  <2>4. Total([i \in DOMAIN shown |-> shown[i].cost], N) = due.spent
    <3> DEFINE column == [i \in DOMAIN shown |-> shown[i].cost]
    <3>1. column = [i \in W |-> TailCost(rows[i])]
      BY <2>2
    <3> HIDE DEF column
    <3>2. \A i \in W : TailCost(rows[i]) \in Int
      BY <2>3, RowFigures DEF Unknown
    <3>3. IsColumn(column)
      BY <3>1, <3>2 DEF IsColumn
    <3>4. \A i \in 1..N : Part(column, i) = Part(Costs(rows, W), i)
      <4> SUFFICES ASSUME NEW i \in 1..N PROVE Part(column, i) = Part(Costs(rows, W), i)
        OBVIOUS
      <4>1. Part(Costs(rows, W), i) = IF i \in W /\ Cost(rows[i]) # Unknown THEN Cost(rows[i]) ELSE 0
        BY <2>3, CostsAre
      <4>2. Part(column, i) = IF i \in W /\ TailCost(rows[i]) # Unknown THEN TailCost(rows[i]) ELSE 0
        BY <3>1 DEF Part
      <4>3. TailCost(rows[i]) # Cost(rows[i]) => TailCost(rows[i]) = Unknown /\ Cost(rows[i]) = 0
        BY <2>3, RowFigures
      <4> QED
        BY <4>1, <4>2, <4>3
    <3>5. IsColumn(Costs(rows, W))
      BY <2>3, CostsAre
    <3> QED
      BY <2>1, <2>3, <3>3, <3>4, <3>5, TotalsSame DEF column
  <2>5. ASSUME NEW g \in Groupings
        PROVE  LET told == Stats(rows, cols, g, bound)
               IN  /\ Sum(told.groups, "calls") = Cardinality(DOMAIN shown)
                   /\ Sum(told.groups, "cost") = due.spent
                   /\ told.unpriced = due.unpriced
    <3> DEFINE told  == Stats(rows, cols, g, bound)
               groups == told.groups
               K     == Keys(g, bound)
               keys  == SetToSeq(K)
               calls == [n \in DOMAIN keys |-> groups[keys[n]]["calls"]]
               money == [n \in DOMAIN keys |-> groups[keys[n]]["cost"]]
    <3>1. /\ DOMAIN groups = K /\ told.unpriced = Unpriced(rows, W)
          /\ \A k \in K : groups[k] = Agg(rows, Group(g, bound, k))
      BY <2>3, StatsAre
    <3>2. \A S : /\ Agg(rows, S)["calls"] = Cardinality(S)
                 /\ Agg(rows, S)["cost"] = Total(Costs(rows, S), Len(rows))
      BY DEF Agg
    <3> HIDE DEF told, groups
    <3>3. /\ Sum(groups, "calls") = Total(calls, Len(keys)) /\ Sum(groups, "cost") = Total(money, Len(keys))
          /\ \A n \in DOMAIN keys : keys[n] \in K
      <4>1. IsFiniteSet(K) /\ keys = SetToSeq(K)
        BY KeysAreFinite
      <4> HIDE DEF K, keys
      <4> QED
        BY <3>1, <4>1, SumIs
    <3>4. /\ DOMAIN calls = DOMAIN keys /\ DOMAIN money = DOMAIN keys
          /\ \A n \in DOMAIN keys :
               /\ calls[n] = Cardinality(Group(g, bound, keys[n]))
               /\ money[n] = Total(Costs(rows, Group(g, bound, keys[n])), Len(rows))
      BY <3>1, <3>2, <3>3
    <3>5. Total(calls, Len(keys)) = Cardinality(W) /\ Total(money, Len(keys)) = Total(Costs(rows, W), N)
      <4>1. keys = SetToSeq(Keys(g, bound))
        OBVIOUS
      <4> HIDE DEF keys, calls, money
      <4> QED
        BY <2>3, <3>4, <4>1, GroupsAddUp
    <3> HIDE DEF calls, money, keys, K
    <3> QED
      BY <2>1, <2>2, <3>1, <3>3, <3>5 DEF told, groups
  <2> QED
    BY <2>4, <2>5 DEF due, shown
<1> QED
  BY <1>1, ReaderInvariance, PTL

-----------------------------------------------------------------------------
(***************************************************************************)
(* Percentiles and rates                                                   *)
(***************************************************************************)
\* How many of a set's values are no more than one.
Upto(S, column, v) == Cardinality({i \in S : column[i] <= v})

\* Some value is in the kth place of those there are: the least that k of them do not
\* exceed.
LEMMA SortedIs ==
  ASSUME NEW S, NEW N \in Nat, S \subseteq 1..N, NEW column \in [S -> Nat],
         NEW k \in 1..Cardinality(S)
  PROVE  /\ \E i \in S : column[i] = Sorted(column, k)
         /\ Upto(S, column, Sorted(column, k)) >= k
         /\ Upto(S, column, Sorted(column, k) - 1) < k
<1> DEFINE Those(v) == {i \in S : column[i] <= v}
           Below(v) == {i \in S : column[i] < v}
           Place(v) == Cardinality(Below(v)) < k /\ Cardinality(Those(v)) >= k
<1>1. \A T \in SUBSET S : IsFiniteSet(T) /\ Cardinality(T) \in Nat
  BY PlacesAreFinite
<1>2. \E b \in Nat : Those(b) = S
  <2> DEFINE P == {n \in Nat : \E b \in Nat : \A i \in S : i <= n => column[i] <= b}
  <2>1. 0 \in P
    BY S \subseteq 1..N
  <2>2. ASSUME NEW n \in Nat, n \in P PROVE n + 1 \in P
    <3>1. PICK b \in Nat : \A i \in S : i <= n => column[i] <= b
      BY <2>2
    <3>2. \A i \in S : i \in Nat /\ column[i] \in Nat /\ (i <= n + 1 => i <= n \/ i = n + 1)
      OBVIOUS
    <3>3. CASE n + 1 \in S
      <4>1. PICK c \in Nat : c >= b /\ c >= column[n + 1]
        <5>1. column[n + 1] \in Nat
          BY <3>3
        <5>2. b + column[n + 1] \in Nat /\ b + column[n + 1] >= b /\ b + column[n + 1] >= column[n + 1]
          BY <5>1
        <5> QED
          BY <5>2
      <4>2. \A i \in S : i <= n + 1 => column[i] <= c
        BY <3>1, <3>2, <4>1
      <4> QED
        BY <4>2
    <3>4. CASE n + 1 \notin S
      <4>1. \A i \in S : i <= n + 1 => column[i] <= b
        BY <3>1, <3>2, <3>4
      <4> QED
        BY <4>1
    <3> QED
      BY <3>3, <3>4
  <2> HIDE DEF P
  <2>3. N \in P
    BY <2>1, <2>2, Climb
  <2>4. PICK b \in Nat : \A i \in S : i <= N => column[i] <= b
    BY <2>3 DEF P
  <2>5. \A i \in S : i <= N
    OBVIOUS
  <2> QED
    BY <2>4, <2>5
<1> DEFINE Enough == {v \in Nat : Cardinality(Those(v)) >= k}
<1>3. Enough # {}
  <2>1. Cardinality(S) >= k
    BY <1>1
  <2> QED
    BY <1>2, <2>1
<1>4. PICK v \in Enough : \A w \in Enough : v <= w
  BY <1>3, Least
<1>0. \A i \in S : column[i] \in Nat
  OBVIOUS
<1>5. \A w \in Nat : Below(w) = Those(w - 1)
  <2> SUFFICES ASSUME NEW w \in Nat PROVE \A i \in S : column[i] < w <=> column[i] <= w - 1
    OBVIOUS
  <2> QED
    BY <1>0
<1>6. Cardinality(Below(v)) < k
  <2>1. CASE v = 0
    <3>1. Below(v) = {}
      <4>1. \A i \in S : ~(column[i] < v)
        BY <1>0, <2>1
      <4> QED
        BY <4>1
    <3> QED
      BY <3>1, FS_EmptySet
  <2>2. CASE v # 0
    <3>1. v - 1 \in Nat /\ v - 1 \notin Enough
      BY <1>4, <2>2
    <3>2. Cardinality(Those(v - 1)) < k
      <4>1. Cardinality(Those(v - 1)) \in Nat
        BY <1>1
      <4>2. ~(Cardinality(Those(v - 1)) >= k)
        BY <3>1
      <4> HIDE DEF Those
      <4> QED
        BY <4>1, <4>2
    <3> QED
      BY <1>5, <3>2
  <2> QED
    BY <2>1, <2>2
<1>7. \E i \in S : column[i] = v
  <2> SUFFICES ASSUME \A i \in S : column[i] # v PROVE FALSE
    OBVIOUS
  <2>1. Below(v) = Those(v)
    <3>1. \A i \in S : column[i] < v <=> column[i] <= v
      BY <1>0
    <3> QED
      BY <3>1
  <2>2. Cardinality(Those(v)) >= k /\ Cardinality(Those(v)) \in Nat
    BY <1>1
  <2> HIDE DEF Below, Those
  <2> QED
    BY <1>6, <2>1, <2>2
<1>8. \E w \in {column[i] : i \in DOMAIN column} : Place(w)
  BY <1>6, <1>7
<1>9. Sorted(column, k) = CHOOSE w \in {column[i] : i \in DOMAIN column} : Place(w)
  BY DEF Sorted
<1> DEFINE is == Sorted(column, k)
<1>10. is \in {column[i] : i \in DOMAIN column} /\ Place(is)
  <2> HIDE DEF Place
  <2> QED
    BY <1>8, <1>9
<1> HIDE DEF is
<1>11. is \in Nat /\ \E i \in S : column[i] = is
  BY <1>10
<1> QED
  BY <1>5, <1>10, <1>11 DEF is, Upto

\* The rank of a percentile is the least place that has that share of the calls before or
\* in it.
RankFits(n, p, r) ==
  /\ r \in 1..n
  /\ \A c \in Nat : (c >= r => 100 * c >= p * n) /\ (c < r => 100 * c < p * n)

LEMMA RankIs ==
  ASSUME NEW n \in Nat \ {0}, NEW p \in {50, 95}
  PROVE  RankFits(n, p, Rank(n, p))
<1>1. CASE p = 50
  BY <1>1 DEF Rank, RankFits
<1>2. CASE p = 95
  BY <1>2 DEF Rank, RankFits
<1> QED
  BY <1>1, <1>2

\* The percentiles of a column are the nearest ranks.
IsNearest(S, column, p, v) ==
  /\ \E i \in S : column[i] = v
  /\ 100 * Upto(S, column, v) >= p * Cardinality(S)
  /\ 100 * Upto(S, column, v - 1) < p * Cardinality(S)

LEMMA PercentileIs ==
  ASSUME NEW S, NEW N \in Nat, S \subseteq 1..N, S # {}, NEW column \in [S -> Nat],
         NEW p \in {50, 95}
  PROVE  IsNearest(S, column, p, Percentile(column, p))
<1>1. \A T \in SUBSET S : IsFiniteSet(T) /\ Cardinality(T) \in Nat
  BY PlacesAreFinite
<1>2. PICK n \in Nat \ {0} : n = Cardinality(S)
  BY <1>1, FS_EmptySet
<1>3. PICK r : r = Rank(n, p) /\ RankFits(n, p, r)
  BY RankIs
<1>4. PICK v : v = Percentile(column, p)
  OBVIOUS
<1>5. r \in 1..Cardinality(S)
  BY <1>2, <1>3 DEF RankFits
<1>6. v = Sorted(column, r)
  BY <1>2, <1>3, <1>4 DEF Percentile
<1>7. (\E i \in S : column[i] = v) /\ Upto(S, column, v) >= r /\ Upto(S, column, v - 1) < r
  <2>1. /\ \E i \in S : column[i] = Sorted(column, r)
        /\ Upto(S, column, Sorted(column, r)) >= r
        /\ Upto(S, column, Sorted(column, r) - 1) < r
    BY <1>5, SortedIs
  <2> QED
    BY <1>6, <2>1
<1>8. Upto(S, column, v) \in Nat /\ Upto(S, column, v - 1) \in Nat
  BY <1>1 DEF Upto
<1>9. 100 * Upto(S, column, v) >= p * n /\ 100 * Upto(S, column, v - 1) < p * n
  BY <1>3, <1>7, <1>8 DEF RankFits
<1> QED
  BY <1>2, <1>4, <1>7, <1>9 DEF IsNearest

\* Without a bound a group is all the rows with its key.
LEMMA GroupIs ==
  ASSUME ReaderInv, NEW g, NEW k \in Keys(g, Empty)
  PROVE  /\ Group(g, Empty, k) = {i \in DOMAIN rows : Key(g, cols, rows[i]) = k}
         /\ Group(g, Empty, k) # {} /\ Group(g, Empty, k) \in SUBSET (1..Len(rows))
<1>1. In(rows, Empty) = DOMAIN rows
  BY DEF In, AtOrAfter, Empty
<1>2. DOMAIN rows = 1..Len(rows)
  BY RowsAreFinite
<1> QED
  BY <1>1, <1>2 DEF Group, Keys, KeyAt

\* What FiguresAreSound says of a percentile of some rows.
NearestAmong(S, p, v) ==
  /\ \E i \in S : rows[i].latency = v
  /\ 100 * Cardinality({i \in S : rows[i].latency <= v}) >= p * Cardinality(S)
  /\ 100 * Cardinality({i \in S : rows[i].latency <= v - 1}) < p * Cardinality(S)

LEMMA NearestIs ==
  ASSUME ReaderInv, NEW S \in SUBSET (1..Len(rows)), S # {}, NEW p \in {50, 95},
         NEW column \in [S -> Nat], \A i \in S : column[i] = rows[i].latency,
         NEW v, v = Percentile(column, p)
  PROVE  NearestAmong(S, p, v)
<1>1. PICK n \in Nat : n = Len(rows)
  BY RowsAreFinite
<1>2. S \subseteq 1..n
  BY <1>1
<1>3. IsNearest(S, column, p, v)
  BY <1>2, PercentileIs
<1>4. \E i \in S : rows[i].latency = v
  <2>1. PICK i \in S : column[i] = v
    BY <1>3 DEF IsNearest
  <2> QED
    BY <2>1
<1>5. \A w : Upto(S, column, w) = Cardinality({i \in S : rows[i].latency <= w})
  <2> SUFFICES ASSUME NEW w
               PROVE  {i \in S : column[i] <= w} = {i \in S : rows[i].latency <= w}
    BY DEF Upto
  <2> QED
    OBVIOUS
<1> QED
  BY <1>3, <1>4, <1>5 DEF IsNearest, NearestAmong

\* The cache hits of a group whose models are known are a part of its prompts.
LEMMA HitsAreAPart ==
  ASSUME CachedIsAPart, ReaderInv, NEW S \in SUBSET (1..Len(rows)),
         \A i \in S : rows[i].entry # "none"
  PROVE  Agg(rows, S).read <= Agg(rows, S).denom
<1> DEFINE read  == [i \in S |-> rows[i].read]
           denom == [i \in S |-> CacheDenom(rows[i])]
<1>1. /\ Agg(rows, S).read = Total(read, Len(rows))
      /\ Agg(rows, S).denom = Total(denom, Len(rows))
  BY DEF Agg
<1>2. Len(rows) \in Nat /\ DOMAIN rows = 1..Len(rows)
  BY RowsAreFinite
<1>3. \A i \in S : rows[i].read \in Nat /\ CacheDenom(rows[i]) \in Nat /\ rows[i].read <= CacheDenom(rows[i])
  <2> SUFFICES ASSUME NEW i \in S
               PROVE  /\ rows[i].read \in Nat /\ CacheDenom(rows[i]) \in Nat
                      /\ rows[i].read <= CacheDenom(rows[i])
    OBVIOUS
  <2>1. Tells(rows[i])
    BY <1>2 DEF ReaderInv, RowsTell
  <2>2. /\ rows[i].read \in Nat /\ rows[i].write \in Nat /\ rows[i].input \in Nat
        /\ rows[i].entry \in {"additive", "subset"}
    BY <2>1 DEF Tells, HasFigures
  <2>3. rows[i].entry = "subset" => rows[i].read <= rows[i].input
    BY <2>1 DEF Tells, IsAPart
  <2> QED
    BY <2>2, <2>3 DEF CacheDenom
<1>4. /\ DOMAIN read = S /\ DOMAIN denom = S
      /\ \A i \in S : read[i] \in Nat /\ denom[i] \in Nat /\ read[i] <= denom[i]
  BY <1>3
<1> HIDE DEF read, denom
<1>5. IsColumn(read) /\ IsColumn(denom)
  BY <1>4 DEF IsColumn
<1>6. \A i \in 1..Len(rows) : Part(read, i) <= Part(denom, i)
  BY <1>4 DEF Part, Unknown
<1> QED
  BY <1>1, <1>2, <1>5, <1>6, TotalsBelow

\* The percentiles of stats are the nearest ranks, and its cache hits are a part of the
\* prompts they are a rate of, as long as no provider that counts cached tokens in the
\* input counts more of them than that (stats.rs: percentiles, agg_stats).
THEOREM FiguresTheorem ==
  ASSUME CachedIsAPart
  PROVE  Spec => []FiguresAreSound
<1>1. ReaderInv => FiguresAreSound
  <2> SUFFICES ASSUME ReaderInv, NEW g \in Groupings,
                      NEW k \in DOMAIN Stats(rows, cols, g, Empty).groups
               PROVE  LET groups == Stats(rows, cols, g, Empty).groups
                          of == {i \in DOMAIN rows : Key(g, cols, rows[i]) = k}
                          upto(v) == Cardinality({i \in of : rows[i].latency <= v})
                          Nearest(p, v) ==
                            /\ \E i \in of : rows[i].latency = v
                            /\ 100 * upto(v) >= p * Cardinality(of)
                            /\ 100 * upto(v - 1) < p * Cardinality(of)
                      IN  /\ Nearest(50, groups[k].p50) /\ Nearest(95, groups[k].p95)
                          /\ (\A i \in of : rows[i].entry # "none") => groups[k].read <= groups[k].denom
    BY DEF FiguresAreSound
  <2> DEFINE groups == Stats(rows, cols, g, Empty).groups
             of == {i \in DOMAIN rows : Key(g, cols, rows[i]) = k}
             S  == Group(g, Empty, k)
             column == [i \in S |-> rows[i].latency]
  <2>1. k \in Keys(g, Empty) /\ groups[k] = Agg(rows, S)
    BY StatsAre
  <2>2. of = S /\ S # {} /\ S \in SUBSET (1..Len(rows))
    BY <2>1, GroupIs
  <2>3. /\ Agg(rows, S).p50 = Percentile(column, 50)
        /\ Agg(rows, S).p95 = Percentile(column, 95)
    BY DEF Agg
  <2>4. column \in [S -> Nat] /\ \A i \in S : column[i] = rows[i].latency
    <3>1. \A i \in S : rows[i].latency \in Nat
      BY <2>2, RowsAreFinite, RowFigures
    <3> QED
      BY <3>1
  <2> HIDE DEF groups, of, S, column
  <2>5. \A p \in {50, 95} : NearestAmong(of, p, Percentile(column, p))
    BY <2>2, <2>4, NearestIs
  <2>6. (\A i \in of : rows[i].entry # "none") => groups[k].read <= groups[k].denom
    BY <2>1, <2>2, HitsAreAPart
  <2>7. groups[k].p50 = Percentile(column, 50) /\ groups[k].p95 = Percentile(column, 95)
    BY <2>1, <2>3
  <2>8. NearestAmong(of, 50, groups[k].p50) /\ NearestAmong(of, 95, groups[k].p95)
    BY <2>5, <2>7
  <2> QED
    BY <2>6, <2>8 DEF groups, of, NearestAmong
<1> QED
  BY <1>1, ReaderInvariance, PTL
=============================================================================
