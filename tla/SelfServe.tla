----------------------------- MODULE SelfServe -----------------------------
(***************************************************************************)
(* Data self-serve: one user's requests, paid from a daily quota in Redis  *)
(* under a lock with a time to live.  A handler's Redis commands go over   *)
(* one connection in the order they are sent, so an un-awaited SET and the *)
(* DEL after it are one step.  Requests end in a message to the data       *)
(* processor, which Kafka may lose without the handler noticing.           *)
(***************************************************************************)
EXTENDS Naturals, FiniteSets, FiniteSetsExt

CONSTANTS Handlers,    \* calls under way at one time
          Requests,    \* ids of data_self_serve_requests
          None,        \* no request, no key
          Limit,       \* user_daily_limit
          MaxRetry,    \* MAX_RETRY of consume
          MaxCalls     \* bound: calls

ASSUME LimitAssumption == /\ Limit \in Nat \ {0} /\ MaxRetry \in Nat \ {0}
                          /\ None \notin Requests /\ None \notin Nat

VARIABLES quota,       \* Redis: the user's remaining units, None when there is no key
          locked,      \* Redis: the lock key exists
          handler,     \* the calls under way
          request,     \* request_status of each row; "none": no row
          valid,       \* validation_status is SUCCESSFULLY
          jobs,        \* PUSH_PAYLOAD_TO_DPC messages that reached the processor, by request
          calls,       \* calls begun
          spent,       \* auxiliary: units taken from the key
          slow,        \* auxiliary: the lock has run out under a holder
          twice        \* auxiliary: requests that two calls were submitting at one time

serveVars == <<quota, locked, handler, request, valid, jobs, calls, spent, slow, twice>>

Statuses == {"none", "DRAFT", "SUBMITED", "PROCESSING", "SUCCESSFULLY", "FAILED"}
PCs      == {"idle", "lock", "get", "set", "config", "unlock", "save", "push", "finish"}
NoCall   == [pc |-> "idle", call |-> "none", id |-> None, remain |-> 0, tries |-> 0]
On(x, pc) == handler[x].pc = pc
Holds(x) == handler[x].pc \in {"get", "set", "config", "unlock"}
Go(x, pc) == handler' = [handler EXCEPT ![x].pc = pc]
End(x)    == handler' = [handler EXCEPT ![x] = NoCall]
Enter(x, rec) == /\ On(x, "idle") /\ calls < MaxCalls /\ calls' = calls + 1
                 /\ handler' = [handler EXCEPT ![x] = rec]
Redis == <<quota, locked, spent, slow>>
Rows  == <<request, valid, jobs, twice>>

(***************************************************************************)
(* Entry: create, validateFileInput, submitRequestToDpc, update            *)
(***************************************************************************)
\* The id of a row to be inserted is chosen at once; nobody sees it before.
New(id) == request[id] = "none" /\ \A y \in Handlers : handler[y].id # id
\* Variant that forgets consume: the row is inserted and published unpaid.
CreateUnpaid(x, id) ==
    /\ New(id) /\ Enter(x, [NoCall EXCEPT !.pc = "save", !.call = "create", !.id = id])
    /\ UNCHANGED <<Redis, Rows>>
Create(x, id) ==
    /\ New(id) /\ Enter(x, [NoCall EXCEPT !.pc = "lock", !.call = "create", !.id = id])
    /\ UNCHANGED <<Redis, Rows>>

\* A DRAFT row and a message to the validator.
Upload(id) ==
    /\ New(id) /\ calls < MaxCalls /\ calls' = calls + 1
    /\ request' = [request EXCEPT ![id] = "DRAFT"]
    /\ UNCHANGED <<handler, valid, jobs, twice, Redis>>

Submitting(id) == \E y \in Handlers : handler[y].call = "submit" /\ handler[y].id = id
\* Variant that does not look at the request's state.
SubmitAnyState(x, id) ==
    /\ request[id] # "none" /\ valid[id]
    /\ Enter(x, [NoCall EXCEPT !.pc = "lock", !.call = "submit", !.id = id])
    /\ twice' = IF Submitting(id) THEN twice \cup {id} ELSE twice
    /\ UNCHANGED <<request, valid, jobs, Redis>>

\* findOne and the check of its state; the quota and the save come later.
Submit(x, id) ==
    /\ request[id] = "DRAFT" /\ valid[id]
    /\ Enter(x, [NoCall EXCEPT !.pc = "lock", !.call = "submit", !.id = id])
    /\ twice' = IF Submitting(id) THEN twice \cup {id} ELSE twice
    /\ UNCHANGED <<request, valid, jobs, Redis>>

\* The processor's callback: findOne and the check that the request is PROCESSING.
Update(x, id) ==
    /\ request[id] = "PROCESSING"
    /\ Enter(x, [NoCall EXCEPT !.pc = "finish", !.call = "update", !.id = id])
    /\ UNCHANGED <<Redis, Rows>>

(***************************************************************************)
(* consume                                                                 *)
(***************************************************************************)
\* Variant that goes on without the lock after the last attempt.
SetNxAnyway(x) ==
    /\ On(x, "lock")
    /\ IF ~locked \/ handler[x].tries + 1 = MaxRetry
       THEN locked' = TRUE /\ Go(x, "get")
       ELSE /\ locked' = locked
            /\ handler' = [handler EXCEPT ![x].tries = @ + 1]
    /\ UNCHANGED <<quota, spent, slow, calls, Rows>>

\* setNx; after MAX_RETRY attempts 'Service is busy'.
SetNx(x) ==
    /\ On(x, "lock")
    /\ IF ~locked
       THEN locked' = TRUE /\ Go(x, "get")
       ELSE /\ locked' = locked
            /\ IF handler[x].tries + 1 = MaxRetry THEN End(x)
               ELSE handler' = [handler EXCEPT ![x].tries = @ + 1]
    /\ UNCHANGED <<quota, spent, slow, calls, Rows>>

Get(x) ==
    /\ On(x, "get") /\ quota # 0
    /\ handler' = IF quota = None THEN [handler EXCEPT ![x].pc = "config"]
                  ELSE [handler EXCEPT ![x].pc = "set", ![x].remain = quota]
    /\ UNCHANGED <<calls, Redis, Rows>>

\* Variant that takes the refusal for a lost lock, and tries again.
ExhaustedAgain(x) ==
    /\ On(x, "get") /\ quota = 0
    /\ locked' = FALSE /\ Go(x, "lock")
    /\ UNCHANGED <<quota, spent, slow, calls, Rows>>

\* No unit is left: consumeExisting rejects, and nobody awaits it while `finally` awaits its DEL.
\* Node ends the process on the unhandled rejection; the DEL may be on its way by then.
Exhausted(x) ==
    /\ On(x, "get") /\ quota = 0
    /\ handler' = [y \in Handlers |-> NoCall]
    /\ locked' \in {TRUE, FALSE}
    /\ UNCHANGED <<quota, spent, slow, calls, Rows>>

\* consumeExisting's SET, then the DEL of `finally`.
TakeUnit(x) ==
    /\ On(x, "set")
    /\ quota' = handler[x].remain - 1 /\ spent' = spent + 1 /\ locked' = FALSE
    /\ Go(x, "save")
    /\ UNCHANGED <<slow, calls, Rows>>

\* The first unit of the day: the limit is read from the database, SET is awaited before DEL.
FirstUnit(x) ==
    /\ On(x, "config")
    /\ quota' = Limit - 1 /\ spent' = spent + 1
    /\ Go(x, "unlock")
    /\ UNCHANGED <<locked, slow, calls, Rows>>

Unlock(x) ==
    /\ On(x, "unlock") /\ locked' = FALSE
    /\ Go(x, "save")
    /\ UNCHANGED <<quota, spent, slow, calls, Rows>>

\* LOCK_TTL_SECONDS
Expire ==
    /\ locked /\ locked' = FALSE
    /\ slow' = (slow \/ \E x \in Handlers : Holds(x))
    /\ UNCHANGED <<quota, spent, handler, calls, Rows>>

(***************************************************************************)
(* After consume                                                           *)
(***************************************************************************)
\* create inserts its row; submit writes SUBMITED back over whatever the row says now.
Save(x) ==
    /\ On(x, "save")
    /\ request' = [request EXCEPT ![handler[x].id] = "SUBMITED"]
    /\ Go(x, "push")
    /\ UNCHANGED <<valid, jobs, twice, calls, Redis>>

\* The listener publishes; an error is logged and forgotten.
Push(x) ==
    /\ On(x, "push") /\ End(x)
    /\ \E arrives \in {0, 1} : jobs' = [jobs EXCEPT ![handler[x].id] = @ + arrives]
    /\ UNCHANGED <<request, valid, twice, calls, Redis>>

\* update's save; the COMPLETED_REQUEST notification is left out.
Finish(x) ==
    /\ On(x, "finish") /\ End(x)
    /\ \E to \in {"SUCCESSFULLY", "FAILED"} : request' = [request EXCEPT ![handler[x].id] = to]
    /\ UNCHANGED <<valid, jobs, twice, calls, Redis>>

\* A statement, or the configuration, fails: `finally` still deletes the lock.
Fail(x) ==
    /\ handler[x].pc \in {"config", "save", "push", "finish"} /\ End(x)
    /\ locked' = (locked /\ ~On(x, "config"))
    /\ UNCHANGED <<quota, spent, slow, calls, Rows>>

(***************************************************************************)
(* The validator and the data processor, outside this program              *)
(***************************************************************************)
Validated(id) ==
    /\ request[id] = "DRAFT" /\ ~valid[id]
    /\ valid' = [valid EXCEPT ![id] = TRUE]
    /\ UNCHANGED <<handler, request, jobs, twice, calls, Redis>>

Processed(id) ==
    /\ request[id] = "SUBMITED" /\ jobs[id] > 0
    /\ request' = [request EXCEPT ![id] = "PROCESSING"]
    /\ UNCHANGED <<handler, valid, jobs, twice, calls, Redis>>

ServeInit ==
    /\ quota = None /\ locked = FALSE /\ spent = 0 /\ slow = FALSE /\ calls = 0 /\ twice = {}
    /\ handler = [x \in Handlers |-> NoCall]
    /\ request = [id \in Requests |-> "none"] /\ valid = [id \in Requests |-> FALSE]
    /\ jobs = [id \in Requests |-> 0]

HandlerStep(x) == \/ SetNx(x) \/ Get(x) \/ Exhausted(x) \/ TakeUnit(x) \/ FirstUnit(x)
                  \/ Unlock(x) \/ Save(x) \/ Push(x) \/ Finish(x)

ServeNext ==
    \/ \E x \in Handlers :
          \/ \E id \in Requests : Create(x, id) \/ Submit(x, id) \/ Update(x, id)
          \/ HandlerStep(x) \/ Fail(x)
    \/ \E id \in Requests : Upload(id) \/ Validated(id) \/ Processed(id)
    \/ Expire

ServeSpec == ServeInit /\ [][ServeNext]_serveVars

\* Handlers go on, Redis lets the lock run out.
ServeFairness == WF_serveVars(Expire) /\ \A x \in Handlers : WF_serveVars(HandlerStep(x))
ServeFairSpec == ServeSpec /\ ServeFairness

(***************************************************************************)
(* Properties                                                              *)
(***************************************************************************)
ServeTypeOK ==
    /\ quota \in {None} \cup (0..Limit) /\ locked \in BOOLEAN /\ slow \in BOOLEAN
    /\ handler \in [Handlers -> [pc : PCs, call : {"none", "create", "submit", "update"},
                                 id : Requests \cup {None}, remain : 0..Limit, tries : 0..MaxRetry - 1]]
    /\ request \in [Requests -> Statuses] /\ valid \in [Requests -> BOOLEAN]
    /\ jobs \in [Requests -> Nat] /\ spent \in Nat /\ twice \subseteq Requests

\* As long as no holder outlives the lock's three seconds, every unit taken shows in the key, so a
\* day never pays for more than the limit, crashes between the lock and its release included.  With
\* a holder that does, units may be given away, but the key stays between zero and the limit.
QuotaAccounted ==
    /\ quota \in {None} \cup (0..Limit)
    /\ ~slow => IF quota = None THEN spent = 0 ELSE spent + quota = Limit

\* What reaches the data processor has been paid for, even twice submitted or with a lost lock.
Arrived  == UNION {{id} \X (1..jobs[id]) : id \in Requests}
JobsPaid == Cardinality(Arrived) <= spent

\* Unless two calls were submitting it at one time, a request is sent to the processor once
\* (data-self-serve.service.ts 194).
SubmittedOnce == \A id \in Requests \ twice : jobs[id] <= 1

\* Every call ends: it gets the lock, or gives up after MAX_RETRY attempts, whatever the other calls
\* do to the lock and however the lock of a dead process goes away.
CallsEnd == \A x \in Handlers : ~On(x, "idle") ~> On(x, "idle")
=============================================================================
