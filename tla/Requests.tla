------------------------------ MODULE Requests ------------------------------
(***************************************************************************)
(* Requests that take more than one statement, while the engine runs: the  *)
(* two statements of CancelTask, a client that pages through GET           *)
(* /api/tasks (a COUNT and a SELECT for each page), and the load test      *)
(* bench/main.go, which clears, injects and polls until the queue is       *)
(* drained.  Between any two of their statements every process of module   *)
(* Engine may take any number of steps.                                    *)
(*                                                                         *)
(* Abstractions.  A response is the part of it that its reader acts on.    *)
(* A behaviour has one cancel, one walk over the pages and one load test   *)
(* at most; bodies that do not parse (400) never reach a service.          *)
(***************************************************************************)
EXTENDS Engine

CONSTANTS
    DefaultPageSize, \* 20 in the code
    MaxPageSize,     \* 100 in the code
    Filters,         \* the queries a client may ask for, page by page
    Batches,         \* the load test's -batches
    BatchSize        \* rows in one POST /api/demo/seed (50 in the code)

Unset == "unset"   \* a query parameter that was not given; as a number, 0

(* A query is a services.ListTasksFilter without the page number. *)
ASSUME RequestsAssumption ==
    /\ Filters \subseteq [client    : Clients \cup {Unset},
                         status    : {"pending", Unset},
                         sort_by   : {"created_at", "priority", "status", "id", Unset},
                         order     : {"asc", "desc"},
                         page_size : Nat]
    /\ DefaultPageSize \in Nat \ {0}
    /\ MaxPageSize \in Nat \ {0}
    /\ Batches \in Nat
    /\ BatchSize \in Nat \ {0}

VARIABLES
    call,   \* the cancel request
    walk,   \* the client that goes through the pages
    bench   \* the load test

requestVars == <<call, walk, bench>>
engineRest == <<inst, procVars, stops, faulted, reclaimed>>

RequestsInit ==
    /\ Init
    /\ call = [pc |-> "idle"]
    /\ walk = [pc |-> "idle"]
    /\ bench = [pc |-> "idle", sent |-> 0, obeyed |-> TRUE]

-----------------------------------------------------------------------------
(* POST /api/tasks/:id/cancel. *)

(* WHERE id = ? AND client_id = ?, as in GetTask. *)
OwnRow(c, t) == t \in DOMAIN tasks /\ tasks[t].client_id = c

Held(t) == \E i \in Instances : Holds(i, t)

Guarded(c, t) == OwnRow(c, t) /\ tasks[t].status \in {"pending", "running"}

\* mutant: rows are not locked, as if the dequeue had no FOR UPDATE
CancelUpdateUnlocked(c, t) ==
    /\ call.pc = "idle" /\ ApiUp
    /\ IF Guarded(c, t) THEN CancelTask(c, t) ELSE UNCHANGED dbVars
    /\ call' = [pc |-> "updated", client |-> c, id |-> t,
                copied |-> Copied(t), hit |-> Guarded(c, t)]
    /\ UNCHANGED <<engineRest, walk, bench>>

(* The guarded UPDATE, which waits for a row lock.  hit is RowsAffected = 1; *)
(* copied is history: did anybody have a copy of the row at that moment?   *)
CancelUpdate(c, t) ==
    /\ call.pc = "idle" /\ ApiUp
    /\ t \notin Locked
    /\ IF Guarded(c, t) THEN CancelTask(c, t) ELSE UNCHANGED dbVars
    /\ call' = [pc |-> "updated", client |-> c, id |-> t,
                copied |-> Copied(t), hit |-> Guarded(c, t)]
    /\ UNCHANGED <<engineRest, walk, bench>>

(* respondError *)
CancelAnswer(c, t, hit) ==
    IF ~OwnRow(c, t) THEN "404"
    ELSE IF hit THEN tasks[t].status   \* 200, with the row
    ELSE "409"

(* The row is read back, after a hit to return it, otherwise to tell 404   *)
(* from 409.                                                               *)
CancelRead ==
    /\ call.pc = "updated"
    /\ call' = [pc |-> "answered", id |-> call.id, copied |-> call.copied,
                answer |-> CancelAnswer(call.client, call.id, call.hit)]
    /\ UNCHANGED <<dbVars, engineRest, walk, bench>>

(* That SELECT fails: 500, whether the task was cancelled or not. *)
CancelReadFails ==
    /\ call.pc = "updated"
    /\ call' = [pc |-> "answered", id |-> call.id, copied |-> call.copied, answer |-> "500"]
    /\ UNCHANGED <<dbVars, engineRest, walk, bench>>

CancelRequest ==
    \/ \E c \in Clients, t \in TaskId : CancelUpdate(c, t)
    \/ CancelRead
    \/ CancelReadFails

-----------------------------------------------------------------------------
(* GET /api/tasks, page after page. *)

Matching(f) == {t \in DOMAIN tasks :
                  /\ f.client \in {Unset, tasks[t].client_id}
                  /\ f.status \in {Unset, tasks[t].status}}

SortColumn(f) ==
    IF f.sort_by \in {"created_at", "priority", "status", "id"}
      THEN f.sort_by ELSE "created_at"

PageSize(f) ==
    IF f.page_size < 1 THEN DefaultPageSize
    ELSE IF f.page_size > MaxPageSize THEN MaxPageSize
    ELSE f.page_size

PageNumber(n) == IF n < 1 THEN 1 ELSE n

\* mutant: integer division without the ceiling
TotalPagesRoundedDown(total, size) == total \div size

TotalPages(total, size) == (total + size - 1) \div size

(* An ENUM sorts by the position of its value. *)
EnumIndex == [pending |-> 1, running |-> 2, completed |-> 3, failed |-> 4, cancelled |-> 5]

Value(t, col) == CASE col = "id"     -> t
                   [] col = "status" -> EnumIndex[tasks[t].status]
                   [] OTHER          -> tasks[t][col]

Sorted(f, a, b) ==
    LET x == Value(a, SortColumn(f))
        y == Value(b, SortColumn(f))
    IN IF f.order = "asc" THEN x <= y ELSE y <= x

(* The ways to choose the first n of the rows ts: ORDER BY leaves open how *)
(* rows that tie are ordered, and each query may order them differently.   *)
FirstRows(f, ts, n) ==
    {p \in SUBSET ts : /\ Cardinality(p) = IF n < Cardinality(ts) THEN n ELSE Cardinality(ts)
                       /\ \A a \in p, b \in ts \ p : Sorted(f, a, b)}

(* The client asks for the first page, without a page parameter.  start is  *)
(* history: the rows there are at the beginning.                           *)
StartWalk ==
    /\ walk.pc = "idle" /\ ApiUp
    /\ \E f \in Filters :
         walk' = [pc |-> "asking", filter |-> f, page |-> PageNumber(0), total |-> 0,
                  seen |-> {}, start |-> Matching(f), grown |-> FALSE]
    /\ UNCHANGED <<dbVars, engineRest, call, bench>>

(* ListTasks: q.Count(&total) ... *)
ListCount ==
    /\ walk.pc = "asking" /\ ApiUp
    /\ walk' = [walk EXCEPT !.pc = "counted", !.total = Cardinality(Matching(walk.filter))]
    /\ UNCHANGED <<dbVars, engineRest, call, bench>>

(* ... and the SELECT with LIMIT and OFFSET.  The client goes on to the    *)
(* next page until the response says that there is none.  grown is history: *)
(* were there more rows at the last SELECT than at the COUNT before it?    *)
ListFind ==
    /\ walk.pc = "counted"
    /\ LET f    == walk.filter
           size == PageSize(f)
           rows == Matching(f)
           more == walk.page < TotalPages(walk.total, size)
       IN \E skipped \in FirstRows(f, rows, (walk.page - 1) * size) :
          \E page \in FirstRows(f, rows \ skipped, size) :
            walk' = [walk EXCEPT !.pc    = IF more THEN "asking" ELSE "done",
                                 !.page  = IF more THEN @ + 1 ELSE @,
                                 !.seen  = @ \cup page,
                                 !.grown = Cardinality(rows) > walk.total]
    /\ UNCHANGED <<dbVars, engineRest, call, bench>>

ListRequest == StartWalk \/ ListCount \/ ListFind

-----------------------------------------------------------------------------
(* bench/main.go.  do() ignores errors and statuses, and a request that     *)
(* ran into the client's timeout may have been executed all the same: when *)
(* it is executed after all is not modelled, it happens at once or never.  *)
(* obeyed is history: was every request executed?                          *)

BenchGoes(from, to, done) ==
    /\ bench.pc = from
    /\ bench' = [pc |-> to, sent |-> IF from = "injecting" THEN bench.sent + 1 ELSE bench.sent,
                 obeyed |-> bench.obeyed /\ done]

BenchRequest(from, to) ==
    /\ BenchGoes(from, to, FALSE)
    /\ UNCHANGED <<dbVars, engineRest, call, walk>>

\* mutant: TRUNCATE, which starts AUTO_INCREMENT again
BenchTruncate ==
    /\ ApiUp /\ Locked = {}
    /\ tasks' = EmptyTable
    /\ dlq' = [t \in TaskId |-> 0]
    /\ nextId' = 1
    /\ BenchGoes("idle", "injecting", TRUE)
    /\ UNCHANGED <<engineRest, call, walk>>

(* POST /api/demo/clear *)
BenchClear ==
    /\ ApiUp /\ Locked = {}
    /\ ClearAllData
    /\ BenchGoes("idle", "injecting", TRUE)
    /\ UNCHANGED <<engineRest, call, walk>>

BenchClearFails == BenchRequest("idle", "injecting")

(* POST /api/demo/seed, -batches times *)
BenchInject ==
    /\ ApiUp
    /\ bench.sent < Batches
    /\ \E ins \in [1..BatchSize -> Input] : AddDemoTasks(ins)
    /\ BenchGoes("injecting", "injecting", TRUE)
    /\ UNCHANGED <<engineRest, call, walk>>

BenchInjectFails ==
    /\ bench.sent < Batches
    /\ BenchRequest("injecting", "injecting")

(* GetSummary, as far as the load test reads it: one GROUP BY status over  *)
(* all clients.                                                            *)
StatusCount(st) == Cardinality({t \in DOMAIN tasks : tasks[t].status = st})

TotalTasks == StatusCount("pending") + StatusCount("running") + StatusCount("completed")
              + StatusCount("failed") + StatusCount("cancelled")

(* The poll that finds s.TotalTasks >= target && inflight == 0. *)
BenchPoll ==
    /\ bench.pc = "injecting" /\ bench.sent = Batches
    /\ ApiUp
    /\ TotalTasks >= Batches * BatchSize
    /\ StatusCount("pending") + StatusCount("running") = 0
    /\ bench' = [bench EXCEPT !.pc = "drained"]
    /\ UNCHANGED <<dbVars, engineRest, call, walk>>

(* 15 minutes are over: the report of whatever the last poll found.         *)
BenchTimeout ==
    /\ bench.pc = "injecting" /\ bench.sent = Batches
    /\ bench' = [bench EXCEPT !.pc = "timeout"]
    /\ UNCHANGED <<dbVars, engineRest, call, walk>>

BenchStep ==
    \/ BenchClear \/ BenchClearFails
    \/ BenchInject \/ BenchInjectFails
    \/ BenchPoll \/ BenchTimeout

-----------------------------------------------------------------------------
(* Nobody else submits while the load test runs. *)
EngineRuns ==
    /\ Next
    /\ bench.pc # "idle" => nextId' = nextId
    /\ UNCHANGED requestVars

RequestsNext == EngineRuns \/ CancelRequest \/ ListRequest \/ BenchStep

RequestsSpec == RequestsInit /\ [][RequestsNext]_<<vars, requestVars>>

-----------------------------------------------------------------------------
Answers == {"404", "409", "500"} \cup Status

(* Every variable has its type. *)
RequestsTypeOK ==
    /\ TypeOK
    /\ call \in [pc : {"idle"}]
                \cup [pc : {"updated"}, client : Clients, id : TaskId,
                      copied : BOOLEAN, hit : BOOLEAN]
                \cup [pc : {"answered"}, id : TaskId, copied : BOOLEAN, answer : Answers]
    /\ \/ walk.pc = "idle"
       \/ /\ walk.pc \in {"asking", "counted", "done"}
          /\ walk.filter \in Filters
          /\ walk.page \in Nat \ {0} /\ walk.total \in Nat /\ walk.grown \in BOOLEAN
          /\ walk.seen \subseteq TaskId /\ walk.start \subseteq TaskId
    /\ bench \in [pc : {"idle", "injecting", "drained", "timeout"},
                  sent : 0..Batches, obeyed : BOOLEAN]

(* CancelTask reads the row back in a second statement: a cancel of a task *)
(* of which no instance and no sweep had a copy when the UPDATE was made,  *)
(* one that watchdogs have failed before included, never answers 200 with  *)
(* a row that says anything else than cancelled, whatever the schedulers,  *)
(* the workers and the watchdogs do in between.  (If somebody had a copy,  *)
(* the row may have been overwritten: CancelledStaysCancelled.)            *)
UnheldCancelAnswer ==
    call.pc = "answered" /\ ~call.copied =>
      call.answer \in {"cancelled", "404", "409", "500"}

(* A walk over the pages of an unfiltered list (ListTasks: COUNT, then     *)
(* LIMIT and OFFSET, nothing held between two pages): if the rows do not   *)
(* tie on a column that never changes, every row that is in the table from *)
(* the first page to the last is on one of them, whatever is inserted and  *)
(* cleared meanwhile and wherever in the order the new rows come.  There   *)
(* are two exceptions.  Under the default order, created_at, the rows of   *)
(* one batch tie, and rows of two batches may; then MySQL may leave rows   *)
(* out.  And a row that is inserted between the COUNT and the SELECT of    *)
(* the last page may move an old row to a page that the response says is   *)
(* not there.                                                              *)
WalkMissesNothing ==
    LET col == SortColumn(walk.filter)
        tie == \E a, b \in DOMAIN tasks : a # b /\ Value(a, col) = Value(b, col)
    IN walk.pc = "done" /\ walk.filter.status = Unset /\ col # "status" /\ ~tie
       /\ ~walk.grown
       => walk.start \cap DOMAIN tasks \subseteq walk.seen

(* bench/main.go "polls until every task reaches a terminal state":        *)
(* although it ignores errors and tasks from before the clear are still    *)
(* being executed and written back when its own arrive, when it reports a  *)
(* drained queue every row has ended and no instance holds one of them     *)
(* any more; and if no request failed, it counts exactly its own tasks.    *)
(* So it is while the load test runs under the conditions of the run and   *)
(* of DrainedWhenReported: no task is cancelled, no instance is killed, no *)
(* handler outlasts the watchdog's timeout, every outcome is recorded, and *)
(* nobody else submits.  A task cancelled under its worker, for one, has   *)
(* ended although it is still held.                                        *)
DrainVerdict ==
    [][bench.pc # "drained" /\ bench'.pc = "drained" =>
         /\ \A t \in DOMAIN tasks : tasks[t].status \in Terminal /\ ~Held(t)
         /\ bench.obeyed => Cardinality(DOMAIN tasks) = Batches * BatchSize]_<<vars, requestVars>>
=============================================================================
