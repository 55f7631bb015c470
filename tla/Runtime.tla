------------------------------ MODULE Runtime ------------------------------
(***************************************************************************)
(* How the back end runs.  NestJS serves every HTTP request as an async    *)
(* function: between two awaited database calls any other request may run. *)
(* A request is therefore a process with a program counter, pc[q] (the     *)
(* database call it makes next), and local variables, loc[q] (what it read *)
(* and will use).  The worker container runs one BullMQ job at a time; job *)
(* holds what the running job still has to do.  now is the wall clock.     *)
(***************************************************************************)
EXTENDS Integers, FiniteSets

CONSTANTS
  Requests,      \* identifiers of requests; each is served once
  Horizon,       \* bound: the clock stops here
  Concurrency,   \* bound: requests and jobs in flight together (1: sequential)
  Crashes,       \* whether a request may die between two database calls
  Keep           \* "field absent from the body" of a partial update

ASSUME RuntimeAssumption ==
  /\ Horizon \in Nat
  /\ Concurrency \in Nat
  /\ Crashes \in BOOLEAN

VARIABLES
  now,  \* Date.now(), in the unit a reservation is a multiple of (one hour)
  pc,   \* pc[q]: the next database call of request q
  loc,  \* loc[q]: the local variables of request q's handler
  job   \* the rows the running job has still to deal with

runtimeVars == <<now, pc, loc, job>>

Times == 0..Horizon

NoLocals == <<>>

\* One column of a partial update.
Either(new, old) == IF new = Keep THEN old ELSE new

RuntimeInit ==
  /\ now = 0
  /\ pc = [q \in Requests |-> "new"]
  /\ loc = [q \in Requests |-> NoLocals]
  /\ job = {}

InFlight == {q \in Requests : pc[q] \notin {"new", "done"}}

CanStart ==
  Cardinality(InFlight) + (IF job = {} THEN 0 ELSE 1) < Concurrency

Begin(q, stage, locals) ==
  /\ pc[q] = "new"
  /\ CanStart
  /\ pc' = [pc EXCEPT ![q] = stage]
  /\ loc' = [loc EXCEPT ![q] = locals]
  /\ UNCHANGED <<now, job>>

Goto(q, stage, locals) ==
  /\ pc' = [pc EXCEPT ![q] = stage]
  /\ loc' = [loc EXCEPT ![q] = locals]
  /\ UNCHANGED <<now, job>>

\* The handler returned or threw.
Finish(q) == Goto(q, "done", NoLocals)

\* A handler that makes its only database call and returns.
Idle == CanStart /\ UNCHANGED runtimeVars

Tick ==
  /\ now < Horizon
  /\ now' = now + 1
  /\ UNCHANGED <<pc, loc, job>>

(***************************************************************************)
(* The API process dies, or loses its database connection, between two     *)
(* calls of a handler: what was committed stays, the rest never happens.   *)
(***************************************************************************)
Abort(q) ==
  /\ Crashes
  /\ q \in InFlight
  /\ Finish(q)

=============================================================================
