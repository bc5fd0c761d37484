# Verification of the study-seat reservation system

The repository is a FastAPI application (`src/app`) with which students reserve seats in study
rooms, check in, and are reminded, released and penalised when they do not come, and with which
administrators keep the rooms, the seats, the accounts and the roles. This directory holds TLA+
models of the parts of it where several requests, scheduler loops, processes and a database meet,
the TLC runs that check them on small instances, and TLAPS proofs for instances of every size.

## 1. The system

One uvicorn process (docker-compose) or several serve the API. The endpoints of the API, and the GET
pages of the portal, are synchronous and run in a thread pool, each with a database session of its
own (`core/database.py: get_db`, no autoflush, no expiry on commit). The forms of the admin portal
are coroutines (`async def submit_*`) with synchronous bodies: the event loop serves one at a time.
The database is PostgreSQL 16 at READ COMMITTED in deployment and SQLite in development. A scheduler
loop in every process (`scheduler_service.py: run_scheduler_loop`) runs one *tick* per interval.

| component | state it keeps | operations | interacts with | module |
|---|---|---|---|---|
| reservation, write path | row of a reservation; `_write_locks` of the process; advisory locks | create (student, administrator) | reads resource, violation, system_config | `BookingWrite` |
| reservation, cancellation | `status`, canceller, reason | cancel (student, administrator) | same rows as checkin | `ReservationLifecycle` |
| reservation, queries | none | availability of a room, history | reads resource, reservation | `StudentVisits` |
| checkin | check-in record | check in by code or QR | reservation (guarded transition) | `ReservationLifecycle` |
| checkin, dynamic codes | none (a code is a function of room and time slice) | show, validate, list all | resource | `StudentVisits` |
| checkin, timeout release | none of its own | sweep | reservation, violation, in one transaction | `ReservationLifecycle` |
| violation | one record per no-show; manual blocks | record, block, release, penalty status | read by reservation | `PenaltyWindow` |
| violation, statistics | none | violation rate, usage rates | reads resource, reservation, violation | `StudentVisits` (violation rate) |
| notification | one log row per reservation and type | claim, deliver, finalize | mail server, reservation (reads) | `NotificationDelivery` |
| scheduler | none (a tick is a function of time) | tick: four tasks in order | notification, checkin | `NotificationDelivery` |
| system_config | one row per key | seed, read, update | read by everybody, in sessions of its own | `SystemConfig` |
| resource | rooms, seats | create, update, deactivate, visibility | read by reservation, checkin, assistant | `ResourceCatalog` |
| identity | departments, accounts, roles, permissions, assignments; in-memory admin sessions | log in, create, update, delete, assign, locate | guards every endpoint | `AccessControl`, `ResourceCatalog`, `StudentVisits` |
| bootstrap, start-up, migrations | base permissions, reserved role, first administrator; `alembic_version` | start, stop, upgrade, downgrade | writes the tables of identity | `Rollout` |
| assistant | none | three queries over rooms, seats, reservations | reads resource, reservation | `StudentVisits` |
| admin portal | none | forms, pages, navigation | calls the services above | `AccessControl`, `ResourceCatalog`, `BookingWrite` (the forms) |
| miniprogram, scripts | none on the server | | calls the API | none |

What is hard here, and is what the properties are about: two overlap checks by separate SELECTs that
only locks make atomic; advisory locks that end with the *commit*, inside the block that holds the
thread locks; exits at every statement; check-in, cancellation and sweep on one row with guarded and
unguarded UPDATEs; a sweep that locks many rows in one transaction; check-then-insert seeding in
separate sessions; messages handed to a mail server between two transactions; a catalogue and roles
that change between the statements of whoever reads them; databases of several ages meeting a
bootstrap that only creates and migrations that only backfill; processes whose bootstraps check and
insert at the same time; an event loop that a form of the portal can hold up; crashes between any two
of these. `PROJECT.json` lists the hazards with the line where each bites and the properties that cover it,
and the findings: statements of the documents that the code does not keep.

What makes each component correct, in a sentence. *Write path*: at no instant two active rows of one
seat or one user, every caller told the truth, no lock left behind, nobody waiting for ever.
*Cancellation, check-in, sweep*: a row goes its way once, nobody is present and punished, nothing is
half done. *Violation*: a restriction that lasts is enforced, and at most one block is active.
*system_config*: seeding never fails and never overwrites, the rules between keys hold.
*Notification*: one sender, one mail, and every message that is due arrives. *Identity*: no change
without its permission, no permission or assignment that appears or disappears without a cause, a
reserved role that is complete, and a start-up that nothing but a rival or a misused name stops. *Resource, queries, assistant,
statistics, codes*: what is read in several statements is consistent but for races that can be named.

## 2. The modules

| module | models | implements / uses |
|---|---|---|
| `BookingLedger` | what the reservation component promises: entries `none -> held -> released`, held only without a competitor | abstract; proved safe in the module |
| `BookingWrite` | `_create_reservation` inside `serialized_reservation_write`, statement by statement | refines `BookingLedger` |
| `ReservationLifecycle` | cancel, check-in and sweep on the same rows | refines `BookingLedger` too |
| `PenaltyWindow` | penalty by the sliding window, manual blocks, and the check a booking makes of both | stands behind `eligibility` of `BookingWrite` |
| `SystemConfig` | seeding and updating of the configuration | |
| `NotificationDelivery` | scheduler ticks, claims, deliveries, verdicts | takes the sweep as one step |
| `IdentityStore` | the tables of permissions, roles, assignments, accounts, with their keys | no actions of its own |
| `AccessControl` | sessions, permission checks, and the requests that write roles and assignments | extends `IdentityStore` |
| `Rollout` | upgrade, downgrade, and the start-up of each process with its bootstrap, SELECT by SELECT | extends `IdentityStore` |
| `Administration` | the life of a deployment: both, in several processes, with stops and crashes | composes `AccessControl` and `Rollout` |
| `ResourceCatalog` | departments, accounts, rooms, seats, and who changes them | |
| `StudentVisits` | what students, the assistant, the statistics and the search for an account make of them | extends `ResourceCatalog` |
| `SeatCatalog` | administrators and students at once | composes both |
| `*_proofs` | the theorems about the module of that name | extend it |
| `MC*` | the instances TLC checks | extend the above |

An operator introduced by a comment that speaks of a *Mutant* is a wrong variant of a definition
that follows it. No specification uses them; they document which mistake each property
would notice.

### BookingLedger and BookingWrite

`BookingWrite` gives each request a program counter. `threadSeat`, `threadUser` are the two
`lock.acquire()` of `_serialized_write`, `advisorySeat`, `advisoryUser` the two
`pg_advisory_xact_lock` (absent on SQLite), then come the checks in the order of
`_create_reservation` (`eligibility`, `seatConflict`, `userOverlap`), `insert` (INSERT and COMMIT,
which also frees the advisory locks), `refresh`, and the way out: `rollback` when something was
raised inside the `try`, the two `lock.release()`, and `close` for `get_db`. A statement may raise
anywhere; in the advisory loop the exception passes by the rollback. `eligibility` stands for all
checks of other tables and of the clock: it may go either way, but never accepts
`start_time >= end_time`. `Crash(p)` ends all requests of a process; on PostgreSQL their sessions
survive for a while with their advisory locks, and a COMMIT already sent may take effect.
`CheckIn`, `Expire`, `Cancel` are the other writers; a cancellation is unguarded. In the ledger a
commit is `Hold`; whatever takes a row out of the active ones is `Release`, of one entry or, when a
sweep commits, of several at once.

`DeploymentAssumption` says that without PostgreSQL there is one process: thread locks are a
dictionary of the process, and the code takes no other lock on SQLite.

`Portal` are the requests that come through `submit_reservation_actions_page`. They run the same
synchronous code on the event loop of their process, so while one of them is anywhere between its
arrival and its answer (`LoopIsFree`) the process accepts no request (`Arrive`) and finishes no
`get_db` (`CloseSession`: the exit of the dependency is scheduled by the loop). `LoopStuck` names the
one knot this can tie: a request whose statement failed between its two advisory locks keeps the first
of them until its session is closed, and a coroutine of the same process that waits for that lock is
what keeps the session from being closed.

### ReservationLifecycle

Each operation is split where another session can get in: a cancellation loads (`CancelLoad`),
passes its tests (`CancelApprove`) and writes by primary key (`CancelWrite`; the canceller and the
reason are left out); a check-in reads the clock, reads the row, and commits record and guarded
transition together; a sweep reads the cutoff, lists the candidates, marks them one by one (row
locks, `RowLocked`) and commits all, or fails and rolls back. A booking is one atomic step here,
with the guard that `BookingWrite` is proved to provide. The dynamic code is taken to be valid;
`StudentVisits` models its check.

### PenaltyWindow

One user: violations `[reservation, at]` recorded by sweeps, blocks inserted by `Activations` (a row
is named after the request that inserted it) and lifted by `Releases`, and the check of a booking
statement by statement: clock, count, times, block. `StartsPenalty` is the record at position
`threshold_count` of the window, by time and id. `lifted` is a history variable, not code: the
restrictions that were off at some instant since the check began. The check may miss a restriction
that only ever holds by *alternation* (violations take over after the count was read and before the
block is lifted): `NoBookingUnderRestriction` claims no more than that one lasting source is seen.

### SystemConfig

A request goes through `_seed_missing_required_configs` with its second attempt and its recheck,
then loads the rows in its own session; an update checks the range and the cross rule on what it
loaded and writes its row if the value changed. `OldReads` are served by a release that knows fewer
keys, during a deployment: the only way a seeding can lose twice.

### NotificationDelivery

A loop goes through the four tasks of a tick with the time the tick began. For each candidate it
reads the log row, claims it (unique INSERT, or UPDATE guarded by FAILED), delivers, and writes the
verdict (UPDATE guarded by PENDING). Errors of the delivery, before or after the mail server took
the mail, lead to FAILED; errors of a statement end the task; a crash ends the tick. The sweep is
one atomic step; its inner steps are in `ReservationLifecycle`.

### IdentityStore, AccessControl, Rollout, Administration

`IdentityStore` has the rows. A row of `role_permissions` or `user_roles` has an id in the database
and is deleted by it, so here it is a permission (or a role) *together with the request that
inserted it*: two rows about one thing are told apart, and a request deletes the rows it loaded and
no others. `Deploy` is the maker of what migrations, bootstrap and earlier times inserted.

`AccessControl` follows a request of an administrator: `Authorize` is the route's dependency, in a
thread of its own; the handler then reads (`...Load`, `...Check`) and writes (`...Write`), with other
transactions in between. `Enter` is what all handlers start with: `LoopIsFree` lets one form of the
portal in at a time and any number of requests of the API, and `BranchAllows` is the second
permission check of the one form that carries every operation on roles. The writes do what the ORM
sends: `UpdateRoleWrite` writes the columns that differ from what was loaded (`Column`), deletes the
bindings it loaded and inserts the wanted ones; `DeleteRoleWrite` fails on a binding or an
assignment that its cascade did not load; `AssignRolesWrite` inserts before it deletes, as one flush
does (`user_repository.py:77-84`), so the unique key refuses any role the user holds already. `seen`,
`rows` are what the request loaded; `others` and `allowed` are history: which requests had not
finished when it looked, and whether the permission of its operation was found at a check.
`StatementFails` is an error of the database at any write.

A portal form answers with a page, refused or done, and that page lists all roles and permissions to
whoever may enter the portal (`page_service.py:183-184`). This read is left out, and
`EveryChangeWasAllowed` does not speak of it: it is about what an operation itself reads to decide and
what it writes. Sessions are kept by the process they were opened in, and so is the event loop.

`Rollout` has `Upgrade` (all revisions in one transaction; of each, the permission it backfills and
its binding to the reserved role) and `Downgrade` by one, both while no process runs, and the start-up
of each process. `StartUp` goes one of three ways: the bootstrap is switched off, it ends for a
missing e-mail address or password (`main.py:66-69`), or it begins. Then each SELECT is a step
(`EnsureBasePermissions`, `EnsureSystemAdminRole`, `EnsureFirstAdmin`), other processes and
administrators come in between, and `Bootstrap` inserts and commits what was missing when it looked,
and changes nothing that exists, or is refused by a key (`KeyTaken`). `StartUpBreaks` is any other
error. `process[p].cause` says why a start-up ended. History variables: `rekeyed`, the reserved name
was put on a role with another code; `edited`, an administrator changed the reserved role; `raced`,
the processes for whom somebody else committed a bootstrap or a change to the reserved role while they
were starting. `BaseAt(rev)` is what a database of that revision was bootstrapped with: the
permissions its code knew.

`Administration` composes them: `Administer` (requests and sessions of the processes that are up),
`Maintain` (upgrades, downgrades and start-ups), and `Stop` (a process ends at any moment, its
sessions and open transactions are gone).

### ResourceCatalog, StudentVisits, SeatCatalog

`ResourceCatalog`: a request of an administrator is a check (`...Check`, `...Load`) and a write. The
services of departments and accounts map an `IntegrityError` to a conflict (`MapIntegrityError`), the
service of seats does not: `PutSeat` answers "failed". Updates write the columns that differ from
what was loaded (`Merge`). `LoopIsFree` is as in `AccessControl`, for one process. A request can also
end in a 500 without any race, and the model lets it at any of its statements: before it has written
(`FormBreaks`: the portal's form on seats parses its filter outside the `try`,
`admin_portal/routes/admin_resource.py:150`, or a connection is lost in a check), at the write
(`WriteBreaks`: no schema limits the length of a name or a code, their columns do, and only an
`IntegrityError` is mapped), or after the commit (`RefreshBreaks`, "unconfirmed": the row is there and
the caller is told of an error).

`StudentVisits`: a visit is one request that reads in several statements. Booking (`BookSnapshot`,
`BookCommit`) reads seat, room and visibility once and the conflicts again under the locks; check-in
takes the time once (`at`), then validates the code, then commits guarded; the availability of a room
reads the room, the seats, who holds them; the assistant's queries page by offset, with a total each
time (`ListPage`, `CountTotal`), then ask room by room (`AskOccupied`, `AskFreeSeats`,
`AskSeatAttributes`); the codes of all rooms are listed and then looked at again; the violation rate
counts the rooms, the seats, the violations and the reservations they are divided by in four
statements; an account is located by id or number (`LocateById`, `LocateByNumber`, `LocateAgain`).
`Release` is a sweep and `Tick` the clock.

`SeatCatalog` composes the two and adds what its properties need to remember: `stable[v]`, the rows
that belonged in a visit's answer from its first read to now, whether one was withdrawn, and which
reservations had been made when the assistant read who holds a seat; `moved`, the seats that have
been moved to another room. `MaxRequests` bounds how many requests are ever made.

## 3. The runs

| run | question | bounds |
|---|---|---|
| `BookingPostgres` | is the write path safe across processes, failures and a crash? | 3 requests in 2 processes, competing in pairs for a seat and for a user; 1 crash |
| `BookingProgress` | does every request end? | 3 requests of one user for one seat: a thread and a coroutine of one process, a thread of another; 1 crash |
| `LifecycleRaces` | do cancel, check-in and sweep keep each other's promises? | 2 bookings that compete, 2 cancellations and a double check-in of one of them, a check-in of the other, 1 loop, clock 0..4, 1 failed sweep |
| `LifecycleProgress` | does every booking leave BOOKED? | 2 loops and 2 bookings due together, 1 failed sweep |
| `Penalty` | do checks, violations and racing administrators agree on who is restricted? | 3 violations with threshold 2, window 3, duration 2, clock 0..5, 1 booking, 2 blocks, 2 releases (symmetric) |
| `ConfigSeeding` | is the race to seed harmless? | 3 keys, 3 readers of 2 releases, 3 updates |
| `Notify` | can a message be sent twice, or lost? | 2 loops, 3 messages of one reservation, 1 error, 1 crash |
| `Administration` | do roles and permissions change only as somebody wished, whatever is deployed, and what can stop a start-up? | 2 processes that start at any time (symmetric), 2 accounts, 2 requests (symmetric) with 13 operations through either door, 1 session, 3 of the processes and requests at once, 3 roles, databases at revision 0 or 3 with the second role active or not, steps back from 6 to 5, 1 stop |
| `SeatCatalog` | is what is read in several statements right but for races? | up to 3 requests out of 2 administrators' and 2 students' (symmetric), 10 changes, 3 rooms, 3 seats, 2 bookings, 2 students whose id and number collide, page size 1, slice 2, grace 1, clock 0..3 |
| `LifecycleCancelled`, `ConfigSkew`, `PenaltyTerm` | statements of the documents that do not hold | as `LifecycleRaces`, `ConfigSeeding`, `Penalty` (without bookings and blocks, clock 0..6) |

The largest runs take one to three minutes (distinct states: `LifecycleRaces` 1,134,056,
`Administration` 954,609, `SeatCatalog` 766,032, `BookingPostgres` 592,952, `BookingProgress`
145,976, with liveness).

The bounds are small because the protocols are symmetric in what they repeat: a conflict, a lock
cycle, a lost claim or a lost update needs two parties, and a third (the third request, the second
reservation of the sweep, the third reader) shows that it does not depend on there being two. The
clock of `ReservationLifecycle` runs to one unit past the last threshold; one unit stands for the
distance between the start of a booking, the end of its grace and its threshold. In
`NotificationDelivery` one unit is five minutes, the distance between the no-show reminder and the
default threshold; the reservation reminder, 15 minutes in the code, reaches one unit ahead, since
only its order before the start matters. Where the clock stops, the loops go on.

In `Administration` two requests are enough for every race of a property, which relates one request to
what another wrote between its reads and its write; revisions 0 and 3 are an empty database and one
that lies between two backfills (2 before it; 4 and 6 to come); revision 6 brings a backfill, so one
step back and forth takes a permission away and brings it back. The 13 operations are those that can
meet at one role or one account: of each kind, on the reserved role, on the second one and on one
created during the run. Requests are made once: what a third would find is what the first left. Among
the operations are those that get in the way of a bootstrap: the reserved role is deactivated, or loses
its code and keeps its name or not. `MaxEngaged` bounds how many requests have been made and processes
started at any time, to three: two start-ups beside each other and a request, which is what a lost key
needs, or two requests in one process. Two requests in two processes are left to the proofs.

In `BookingProgress` the two requests of one process need the same two thread locks, so whichever the
first does not give back the second waits for for ever; the third needs the same advisory locks from
another process; and one of the two is a coroutine, so that it can hold up the loop the other needs.

In `SeatCatalog` a page of one row makes every listing of two rows a paged one; three requests are a
reader, a writer and somebody else (two administrators at one place and a reader, a booking, a
cancellation and a listing); a clock of 0..3 with slices of two has a code that is one slice old in
the last second of its own, and reaches past the grace so that a sweep falls between two statements.
An account is typed as a number that is the one's id and the other's number.

`SeatCatalog` and the models of booking, configuration, penalty and administration end in an explicit
`Finished` step; scheduler loops never end. Only `BookingProgress` turns the deadlock check off: the
system may stop there with all requests answered or lost, or stuck in the knot of `LoopStuck`, and a
stop of any other kind violates `EveryRequestEnds`, which is what the run checks.

SQLite (`Postgres = FALSE`, one process) has no run: the theorems cover both values.

**Fairness.** `BookingWrite`: every request that can take a step of its own eventually does (threads
are scheduled), and PostgreSQL reaps lost sessions (TCP keepalive); never that a statement fails, so
no failure is what frees a waiting request. Closing the session of a request takes the event loop
(`CloseSession`); nothing is assumed of the loop beyond this, and that a coroutine may hold it for ever
is the exception in the property, not in the fairness. `ReservationLifecycle` and `NotificationDelivery`: time passes and every loop keeps
running (`while True` around `run_once`, with every exception caught). A loop whose process died goes
on too: `docker-compose.yml` has no restart policy, so this is an operator starting the service again
(`docs/delivery/huawei_cloud_deployment_runbook.md:295`, `scripts/huawei_cloud_update.sh`), and
`EveryReleaseIsAnnounced` is about deployments in which somebody does. Nothing is assumed of
students, administrators, arrivals, or the mail server beyond the bounded number of errors.

### What the findings say

* `LifecycleCancelled`: "Only booked reservations can be cancelled." is decided on a stale copy; the
  UPDATE has no guard. A CHECKED_IN or EXPIRED row becomes CANCELLED and keeps its record or its
  violation. It never makes a released row active, so `ImplementsLedger` still holds.
* `ConfigSkew`: two updates, legal one by one, put the violation threshold below the grace: then the
  sweep expires reservations whose check-in window is open.
* `PenaltyTerm`: a penalty ends before `penalty_start + duration` when an old violation leaves the
  window; with the defaults, violations on days 0, 25 and 29 restrict until day 30, not 36.

### What the properties had to leave room for

Behaviour no document denies, which a reader of the properties meets as an exception in them:

* An assignment of roles that keeps a role the user already holds is answered 500, because the flush
  inserts before it deletes (`AssignRolesWrite`).
* Giving the reserved role another code but leaving its name makes every later start-up fail at the
  bootstrap. So does a rival: of two processes that start on a database without the reserved role, one
  may be refused by a key and not come up, and an administrator's change of that role can do the same
  to a bootstrap it meets (`StartUpLosesToARival`).
* A form of the portal that books can hang its process for good: see `LoopStuck`
  (`EveryRequestEnds`). It takes an error of the database between two advisory locks.
* Two updates of one role at once merge: the bindings of both stay (`Merged`). A deletion can take
  along an assignment that was made after it asked whether there is any (`DeletionSparesTheAssigned`).
* Two requests that put seats in one place end in a 500 for one of them, where departments and accounts
  report a conflict (`KeyFailuresAreSeatRaces`). This is about violated keys only: a code or a name
  that its column cannot hold is answered 500 by itself, whoever sends it.
* Of two assignments for one user that run beside each other, through the API or in two processes, the
  result can be neither (`AssignmentsAreExact`).
* The availability page goes by the room a reservation was made in, booking by its seat: of a seat
  that was moved, the page of the new room does not show the older reservations
  (`AvailabilityAgreesWithBooking` leaves out `moved`).
* A listing that is paged by offset misses a row when an earlier one goes away between two pages, and
  listing the codes of all rooms fails when one is deactivated meanwhile
  (`PagedListingsAreComplete`).
* A seat can be booked whose room was closed or changed between the snapshot and the commit
  (`BookingsAreStaleByRacesOnly`); and who has booked a room that is deactivated later cannot check
  in and is swept.


## 4. The proofs

TLAPS checks them for every size of the instance: any number of requests, users, processes, roles,
reservations, loops, errors and crashes. What is assumed of the constants is named in the module that
declares them, and TLC evaluates it in the runs. Each `*_proofs` module has the same plan: `IInv`, the
inductive strengthening of its safety invariants (checked by TLC on the small instance before it was
proved), one lemma per action or group of actions that says it keeps `IInv`, the theorem that `IInv`
is invariant, and the theorems that follow from it.

**BookingLedger, BookingWrite_proofs**, from `RequestAssumption` (each request names a seat, a user,
a process and two integers), `PortalAssumption` (any of them may be a coroutine) and
`DeploymentAssumption`.

* `LedgerSafe`: `TypeOK /\ NoDoubleBooking` is inductive for the ledger. `CompetingIsSharing`: its
  notion of competing, defined by the two starts, means sharing any instant.
* `WriteInvariant`: `IInv` is inductive. `NoDoubleBooking` alone is not: it says nothing of a request
  that has passed its checks and has not yet inserted. `IInv` adds (1) that a lock is owned by
  exactly the requests whose program counter says so (`LockInv`: thread locks by process, advisory
  locks in the database, also for the session of a lost process), hence (`Exclusion`) two requests
  for one seat or one user are never both between the locks and the commit; (2) which rows exist at
  which program counter, and which answers have been given (`RowInv`); (3) that what a request has
  checked stays true until it commits (`FactInv`): no active row of its seat or its user overlaps.
  (3) needs (1): the only step that makes a row active is the commit of a request that holds the same
  locks. Other writers only ever deactivate rows or keep them active.
* `WriteImplementsLedger`: each step maps to a step of the ledger or a stutter; the commit maps to
  `Hold` because of (3). `WriteNeverDoubleBooks` follows from it and `LedgerSafe`.
* `WriteLeaksNoLock`, `WriteAnswersMatchRows`, `WriteTypeCorrect`: parts of `IInv`.

**ReservationLifecycle_proofs**, from `LifecycleAssumption`.

* `LifecycleInvariant`: `IInv` is inductive. `AttendedOrMissed` alone is not, since it does not say
  that a marked row cannot be checked in. `SweepInv` adds that a row a sweep has marked is BOOKED and
  nobody else's (its lock keeps the other UPDATEs out until the commit), and that it started a
  threshold ago; `OutcomeInv` ties records and violations to the status, CANCELLED excepted;
  `CancelInv` says that a cancellation under way has seen a row.
* `NobodyPresentAndPunished`, `OutcomesAreWhole`, `ViolationsAreDue`, `LifecycleTypeCorrect` follow.
* `LifecycleImplementsLedger`: `Book` maps to `Hold`, `CancelWrite` and `SweepCommit` to `Release` of
  one entry and of all marked ones, or to a stutter, everything else to a stutter.

**NotificationDelivery_proofs**, from `DeliveryAssumption`.

* `Invariant`: `WorkInv` says that a loop at work is in one of the three tasks that send. On top of
  it, `OneSenderPerMessage` (two loops at work on one message are the same loop) is inductive,
  because a claim needs a row that is absent or FAILED and leaves it PENDING. `MailInv` counts: the
  mails of a message are the unclear answers it has had, and one more once its row is SENT or the loop
  that has it was told "accepted".
* `OneSender`, `OneMail`, `SentStays` (no step leads out of SENT: a claim
  expects no row or FAILED, a verdict PENDING) and `TypeCorrect` follow.

**PenaltyWindow_proofs**, from `PenaltyAssumption`.

* The code finds the start of a penalty by a position in a sorted list. `PenalisedByCounting` turns
  this into counting: penalised means that the window has the threshold's number of records and
  fewer of them are older than a duration. It rests on `NthRecord`, that a finite set of records has
  one at each position, by well-founded induction over strict subsets with a set in place of the
  operator parameter. Counting is what steps preserve: recording adds records and never an older one.
* `Invariant`: `CheckInv` says that a check that has not yet seen the automatic restriction off is
  about a moment (`asOf`) at which the records still impose it, and that a check that passes has seen
  either source off. `OneActiveBlock` is kept by the unique key of active blocks; a release, guarded
  or not, only takes blocks out.
* `RestrictedCannotBook`, `AtMostOneBlock`, `ThresholdRestricts`, `TypeCorrect` follow.

**SystemConfig_proofs**, from `ConfigAssumption`.

* `Invariant`: only three sets of keys are ever present (`PresentInv`: none, those of the old
  release, all), since each INSERT is one transaction of all that was missing. `SeedInv`: a request
  whose INSERT failed finds that somebody else's went through, a request of the old release is then
  satisfied, and one of the new release can lose once more, to another of the new release, after
  which nothing is missing. So the third look suffices.
* `SeedingSucceeds`, `UpdatesOnly`, `TypeCorrect` follow.

**Administration_proofs**, from `IdentityAssumption`, `OperationAssumption` and
`AdministrationAssumption`, for every set of operations, any revisions to start from, and any
requests and processes interleaving.

* The steps of a request are sorted by what they do: it arrives or looks (no row changes), or writes.
* `Invariant`: `RequestInv` has requests under way only in a process that is up and on a database that
  has its first administrator, so revisions never change under one. A bootstrap of another process may
  run beside it, but on such a database it assigns nothing (`RootInv`, `SessionInv`: no session without
  the first administrator). `OthersInv`: whoever has not finished now had not finished when the request
  looked, and two forms of one portal are never both inside; hence a row that the request did not load
  was made by one of `others`, which `DeleteInv`, `AssignInv` and `UpdateInv` say for the three writes
  that use loaded rows. `CompleteInv`: as long as nobody edited the reserved role, the permissions it
  lacks are ones that a revision still to come backfills. `NameInv`: unless an administrator has given
  the reserved role another code, its name goes with its code. `StartInv`: what a bootstrap found
  missing is missing still, unless somebody committed meanwhile (`raced`).
* `ReservedRoleComplete` (from `CompleteInv`: at the newest revision nothing is still to come),
  `StartUpLoses` (from `StartInv` and `NameInv`: of the four ways to violate a key, each needs a row
  that appeared, changed or went since it was looked for, or the name on another role), `ChangesAllowed`, `GrantsSourced`, `AssignmentsExact`, `DeletionSpares` and
  `TypeCorrect` follow; the action properties use that the row a step removes or adds belongs to the
  request that takes the step.

**SeatCatalog_proofs**, from `CatalogAssumption`, `VisitAssumption` and `SeatCatalogAssumption`, for
any departments, rooms, seats, administrators and visits, any page size and any slice.

* The actions of administrators are sorted by what they do: a request begins (it has checked or
  loaded, no row changes), ends (it writes at most one row, or a key refuses it) or breaks (no row
  changes, and one that had committed stays committed: `Falls`). A visit's actions are taken
  one lemma each.
* `Invariant`: `CatalogInv` has the unique key of seats (`PlacesDiffer`), that what a request loaded
  is still there, and `RaceInv`: the place a request checked is still free, or another request has put
  a seat meanwhile, and not both of them through the portal, whose event loop lets no two of its
  requests overlap.
  `BookingInv`: a reservation is in the room of its seat unless the seat was moved, and who missed it
  has not been there. The rest speaks of one visit: what it has read, and what of it is still so.
* A visit keeps its part when anybody else moves (`OthersKeep`), by two things. Rows grow
  (`CatalogGrows`, `BookingsGrow`): none is ever deleted, a missed reservation stays missed and one
  that is over never becomes held again. And what is remembered of the visit, `stable`, only shrinks
  (`Remembers`).
* `ListingInv` is why paging by offset loses nothing: a row that is still missing has at least page
  times page size rows listed before it. This number only grows while nothing is withdrawn
  (`RanksGrow`), so the next page brings the row nearer or has it (`RankBelow`, `NextPage`), and once the
  pages cover the total no row is missing (`LastPage`, which needs that the total is counted after
  the page).
* `HeldInv`: the assistant knows of every reservation that was held when it looked at the room and
  still is. `StatisticsInv`: the violations counted are among the missed reservations of the same
  scope, which are past due and so among what they are divided by, unless they were cancelled since.
  `LocateInv`: an id and a number belong to one account each.
* `TypeCorrect`, `StaleByRacesOnly`, `ListingsComplete`, `RateAtMostOne`, `KeyFailuresAreRaces` and
  `LocatedAsTyped` follow. The action properties also need which action it is that answers
  (`WhoMoves`, `WhoAnswers`): `AtTheDoor` from `CheckinInv` and that two moments of one slice are less
  than a slice apart (`OneSlice`); `ShownFreeIsFree` from `BookingInv`, since the page goes by the room of a
  reservation and booking by its seat.

**Only model-checked.** All liveness (`EveryRequestEnds`, `EveryBookingSettles`,
`EveryReleaseIsAnnounced`): fairness and ENABLED are beyond what TLAPS can do here. The three violated
statements are counterexamples on one instance. Every other property that a run checks is proved.

## 5. Not modelled

* **Waiting for a connection.** The size of the pool is deployment data. A request that holds a
  connection and the locks takes a second one for the configuration; with the pool exhausted by such
  requests all wait until the pool's timeout, which `BookingWrite` has as the failure of a statement.
* **Usage rates.** Sums of durations over opening hours and a calendar: arithmetic on one snapshot
  whose inputs are read as in the violation rate, which is modelled.
* **Administrators' filtered lists**, of reservations, check-ins and violations: one or two SELECTs
  without an effect, about which there is nothing to say beyond the filter.
* **Rendering**: page contexts, HTML, schemas, the parsing of forms. They keep no state. The pages read
  what they show after an operation has ended; the portal's page of roles shows all of them to everyone
  who may enter (`page_service.py:183-184`).
* **The portal's navigation**: which links a page shows is a comparison of constant tables
  (`menu_service.py`) with the permissions of the routes, without a state. Some links are written into
  templates whatever the permissions (`templates/admin/user_roles.html:9-10`, `user_create.html:9`);
  whoever follows one without the permission is refused by the route, which is modelled.
* **Tables without revisions**: `DATABASE_AUTO_CREATE`, which creates the tables at start-up, is off in
  every deployment the repository has (`.env.example:6`, `docker-compose.yml:27`,
  `docs/process/runtime_facts.md:43`), although the code's default is on (`core/config.py:11`). Revisions change only while no process runs, although nothing in
  the code keeps an operator from doing otherwise.
* **Who cancelled and why.** Two cancellations of one booking each write the columns they changed, so
  the canceller can come from one and the reason from the other; the model leaves the columns out.
  Also left out: the audit columns of a block that two administrators lift at once.
* **Secrets**: password hashes and the signed tokens of students, which are functions of their input
  and the clock. The in-memory sessions of administrators are modelled.
* **The assistant's understanding**, how words are matched to one of its three queries: any query may
  be asked.
* **The schema**: of the migrations, the keys the models rely on and the permissions they backfill.
* **Outside the server**: the miniprogram (its retries are repeated requests), the deployment and
  test scripts, the stale copy of the sources under the build directory, the courseware.
