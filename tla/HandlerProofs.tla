--------------------------- MODULE HandlerProofs ---------------------------
(***************************************************************************)
(* Proofs about the requests that run beside each other.  SelfServe, for   *)
(* any number of handlers, requests, attempts and calls, and any daily     *)
(* limit: the quota's account, the single submission and the jobs paid     *)
(* for.  CustomUpload, for any number of files in the request.             *)
(* PaymentDocuments, for any users, programs and documents.                *)
(***************************************************************************)
EXTENDS SelfServe, PaymentDocuments, CustomUpload, FiniteSetTheorems, TLAPS

(***************************************************************************)
(* Data self-serve: the quota                                              *)
(***************************************************************************)
\* What a handler has read is worth a unit, and stays so when it has lost the lock.
Remains == \A x \in Handlers : On(x, "set") => handler[x].remain \in 1..Limit

\* The lock excludes, as long as no holder has outlived it, so what the holder has read still holds.
Excludes ==
    ~slow => /\ \A x \in Handlers : Holds(x) => locked
             /\ \A x, y \in Handlers : Holds(x) /\ Holds(y) => x = y
             /\ \A x \in Handlers : On(x, "set") => quota = handler[x].remain
             /\ \A x \in Handlers : On(x, "config") => quota = None

QuotaInv == ServeTypeOK /\ Remains /\ Excludes /\ QuotaAccounted

LEMMA NoCallTyped ==
    NoCall \in [pc : PCs, call : {"none", "create", "submit", "update"},
                id : Requests \cup {None}, remain : 0..Limit, tries : 0..MaxRetry - 1]
BY LimitAssumption DEF NoCall, PCs

LEMMA QuotaInit == ServeInit => QuotaInv
<1> SUFFICES ASSUME ServeInit PROVE QuotaInv
  OBVIOUS
<1>1. handler = [x \in Handlers |-> NoCall] /\ quota = None
  BY DEF ServeInit
<1>2. ServeTypeOK
  BY <1>1, NoCallTyped DEF ServeInit, ServeTypeOK, Statuses
<1>3. Remains /\ Excludes
  BY <1>1 DEF Remains, Excludes, On, Holds, NoCall
<1>4. QuotaAccounted
  BY <1>1 DEF ServeInit, QuotaAccounted
<1> QED BY <1>2, <1>3, <1>4 DEF QuotaInv

LEMMA QuotaStep == QuotaInv /\ [ServeNext]_serveVars => QuotaInv'
<1> SUFFICES ASSUME QuotaInv, [ServeNext]_serveVars PROVE QuotaInv'
  OBVIOUS
<1> USE LimitAssumption, NoCallTyped
<1> DEFINE Calls == [pc : PCs, call : {"none", "create", "submit", "update"},
                     id : Requests \cup {None}, remain : 0..Limit, tries : 0..MaxRetry - 1]
<1>0. handler \in [Handlers -> Calls]
  BY DEF QuotaInv, ServeTypeOK
<1>g. ASSUME NEW x \in Handlers, NEW p \in PCs, Go(x, p) \/ End(x) PROVE handler' \in [Handlers -> Calls]
  <2>1. [handler[x] EXCEPT !.pc = p] \in Calls
    BY <1>0
  <2>2. CASE Go(x, p)
    BY <1>0, <2>1, <2>2 DEF Go
  <2>3. CASE End(x)
    BY <1>0, <2>3 DEF End
  <2> QED BY <1>g, <2>2, <2>3
<1>e. ASSUME NEW x \in Handlers, NEW rec \in Calls, Enter(x, rec), rec.pc \in {"lock", "save", "finish"},
             UNCHANGED Redis, request' \in [Requests -> Statuses], valid' \in [Requests -> BOOLEAN],
             jobs' \in [Requests -> Nat], twice' \subseteq Requests
      PROVE  QuotaInv'
  <2>1. ServeTypeOK'
    BY <1>e, <1>0 DEF QuotaInv, ServeTypeOK, Enter, Redis
  <2>2. Remains' /\ Excludes' /\ QuotaAccounted'
    BY <1>e, <1>0 DEF QuotaInv, Remains, Excludes, QuotaAccounted, On, Holds, Enter, Redis
  <2> QED BY <2>1, <2>2 DEF QuotaInv
<1>1. ASSUME NEW x \in Handlers, NEW id \in Requests, Create(x, id) PROVE QuotaInv'
  <2>1. [NoCall EXCEPT !.pc = "lock", !.call = "create", !.id = id] \in Calls
    BY DEF NoCall, PCs
  <2> QED BY <1>1, <1>e, <2>1 DEF Create, QuotaInv, ServeTypeOK, NoCall, Rows
<1>2. ASSUME NEW x \in Handlers, NEW id \in Requests, Submit(x, id) PROVE QuotaInv'
  <2>1. [NoCall EXCEPT !.pc = "lock", !.call = "submit", !.id = id] \in Calls
    BY DEF NoCall, PCs
  <2> QED BY <1>2, <1>e, <2>1 DEF Submit, QuotaInv, ServeTypeOK, NoCall
<1>3. ASSUME NEW x \in Handlers, NEW id \in Requests, Update(x, id) PROVE QuotaInv'
  <2>1. [NoCall EXCEPT !.pc = "finish", !.call = "update", !.id = id] \in Calls
    BY DEF NoCall, PCs
  <2> QED BY <1>3, <1>e, <2>1 DEF Update, QuotaInv, ServeTypeOK, NoCall, Rows
<1>4. ASSUME NEW x \in Handlers, SetNx(x) PROVE QuotaInv'
  <2>1. handler' \in [Handlers -> Calls]
    <3>1. handler[x].tries + 1 # MaxRetry => handler[x].tries + 1 \in 0..MaxRetry - 1
      BY <1>0
    <3>2. CASE handler' = [handler EXCEPT ![x].tries = @ + 1] /\ handler[x].tries + 1 # MaxRetry
      BY <3>1, <3>2, <1>0
    <3>3. CASE Go(x, "get") \/ End(x)
      BY <3>3, <1>0 DEF Go, End, PCs
    <3> QED BY <1>4, <3>2, <3>3 DEF SetNx
  <2>3. ServeTypeOK'
    BY <1>4, <2>1 DEF QuotaInv, ServeTypeOK, SetNx, Rows
  <2>2. Remains' /\ Excludes' /\ QuotaAccounted'
    BY <1>4, <1>0 DEF QuotaInv, Remains, Excludes, QuotaAccounted, SetNx, On, Holds, Go, End, NoCall
  <2> QED BY <2>2, <2>3 DEF QuotaInv
<1>5. ASSUME NEW x \in Handlers, Get(x) PROVE QuotaInv'
  <2>1. ServeTypeOK'
    <3>1. CASE quota = None
      <4>1. handler' \in [Handlers -> Calls]
        BY <1>5, <1>g, <3>1 DEF Get, Go, PCs
      <4> QED BY <1>5, <4>1 DEF QuotaInv, ServeTypeOK, Get, Redis, Rows
    <3>2. CASE quota # None
      <4>1. quota \in 0..Limit
        BY <3>2 DEF QuotaInv, QuotaAccounted
      <4>2. handler' = [handler EXCEPT ![x] = [handler[x] EXCEPT !.pc = "set", !.remain = quota]]
        BY <1>5, <1>0, <3>2 DEF Get
      <4>3. [handler[x] EXCEPT !.pc = "set", !.remain = quota] \in Calls
        BY <1>0, <4>1 DEF PCs
      <4>4. handler' \in [Handlers -> Calls]
        BY <1>0, <4>2, <4>3
      <4> QED BY <1>5, <4>4 DEF QuotaInv, ServeTypeOK, Get, Redis, Rows
    <3> QED BY <3>1, <3>2
  <2>2. Remains' /\ Excludes' /\ QuotaAccounted'
    BY <1>5, <1>0 DEF QuotaInv, ServeTypeOK, Remains, Excludes, QuotaAccounted, Get, On, Holds, Redis
  <2> QED BY <2>1, <2>2 DEF QuotaInv
<1>6. ASSUME NEW x \in Handlers, Exhausted(x) PROVE QuotaInv'
  <2>1. ServeTypeOK'
    BY <1>6, <1>0 DEF QuotaInv, ServeTypeOK, Exhausted, Rows
  <2>2. Remains' /\ Excludes' /\ QuotaAccounted'
    BY <1>6, <1>0 DEF QuotaInv, Remains, Excludes, QuotaAccounted, Exhausted, On, Holds, NoCall
  <2> QED BY <2>1, <2>2 DEF QuotaInv
<1>7. ASSUME NEW x \in Handlers, TakeUnit(x) PROVE QuotaInv'
  <2>1. handler[x].remain \in 1..Limit /\ spent \in Nat /\ Holds(x)
    BY <1>7 DEF QuotaInv, ServeTypeOK, Remains, TakeUnit, On, Holds
  <2>2. ServeTypeOK'
    <3>1. handler' \in [Handlers -> Calls]
      BY <1>7, <1>0 DEF TakeUnit, Go, PCs
    <3>2. quota' \in 0..Limit /\ spent' \in Nat
      BY <1>7, <2>1 DEF TakeUnit
    <3> QED BY <1>7, <3>1, <3>2 DEF QuotaInv, ServeTypeOK, TakeUnit, Rows
  <2>3. Remains' /\ Excludes'
    BY <1>7, <1>0, <2>1 DEF QuotaInv, Remains, Excludes, TakeUnit, On, Holds, Go
  <2>4. QuotaAccounted'
    BY <1>7, <2>1 DEF QuotaInv, Excludes, QuotaAccounted, TakeUnit, On
  <2> QED BY <2>2, <2>3, <2>4 DEF QuotaInv
<1>8. ASSUME NEW x \in Handlers, FirstUnit(x) PROVE QuotaInv'
  <2>1. spent \in Nat /\ Holds(x)
    BY <1>8 DEF QuotaInv, ServeTypeOK, FirstUnit, On, Holds
  <2>2. ServeTypeOK'
    <3>1. handler' \in [Handlers -> Calls]
      BY <1>8, <1>0 DEF FirstUnit, Go, PCs
    <3>2. quota' \in 0..Limit /\ spent' \in Nat
      BY <1>8, <2>1 DEF FirstUnit
    <3> QED BY <1>8, <3>1, <3>2 DEF QuotaInv, ServeTypeOK, FirstUnit, Rows
  <2>3. Remains' /\ Excludes'
    BY <1>8, <1>0, <2>1 DEF QuotaInv, Remains, Excludes, FirstUnit, On, Holds, Go
  <2>4. QuotaAccounted'
    BY <1>8, <2>1 DEF QuotaInv, Excludes, QuotaAccounted, FirstUnit, On
  <2> QED BY <2>2, <2>3, <2>4 DEF QuotaInv
<1>9. ASSUME NEW x \in Handlers, Unlock(x) PROVE QuotaInv'
  <2>1. ServeTypeOK'
    <3>1. handler' \in [Handlers -> Calls]
      BY <1>9, <1>g DEF Unlock, PCs
    <3> QED BY <1>9, <3>1 DEF QuotaInv, ServeTypeOK, Unlock, Rows
  <2>2. Remains' /\ Excludes' /\ QuotaAccounted'
    BY <1>9, <1>0 DEF QuotaInv, Remains, Excludes, QuotaAccounted, Unlock, On, Holds, Go
  <2> QED BY <2>1, <2>2 DEF QuotaInv
<1>10. ASSUME NEW x \in Handlers, Save(x) PROVE QuotaInv'
  <2>1. ServeTypeOK'
    <3>1. handler' \in [Handlers -> Calls]
      BY <1>10, <1>g DEF Save, PCs
    <3>2. request' \in [Requests -> Statuses]
      BY <1>10 DEF QuotaInv, ServeTypeOK, Save, Statuses
    <3> QED BY <1>10, <3>1, <3>2 DEF QuotaInv, ServeTypeOK, Save, Redis
  <2>2. Remains' /\ Excludes' /\ QuotaAccounted'
    BY <1>10, <1>0 DEF QuotaInv, Remains, Excludes, QuotaAccounted, Save, On, Holds, Go, Redis
  <2> QED BY <2>1, <2>2 DEF QuotaInv
<1>11. ASSUME NEW x \in Handlers, Push(x) PROVE QuotaInv'
  <2>1. ServeTypeOK'
    <3>1. PICK n \in {0, 1} : jobs' = [jobs EXCEPT ![handler[x].id] = @ + n]
      BY <1>11 DEF Push
    <3>2. jobs \in [Requests -> Nat]
      BY DEF QuotaInv, ServeTypeOK
    <3>3. jobs' \in [Requests -> Nat]
      <4>1. \A id \in Requests : jobs'[id] = jobs[id] \/ jobs'[id] = jobs[id] + n
        BY <3>1, <3>2
      <4>2. \A id \in Requests : jobs'[id] \in Nat
        BY <4>1, <3>2
      <4> QED BY <3>1, <3>2, <4>2
    <3> QED BY <1>11, <1>0, <3>3 DEF QuotaInv, ServeTypeOK, Push, End, Redis
  <2>2. Remains' /\ Excludes' /\ QuotaAccounted'
    BY <1>11, <1>0 DEF QuotaInv, Remains, Excludes, QuotaAccounted, Push, On, Holds, End, Redis, NoCall
  <2> QED BY <2>1, <2>2 DEF QuotaInv
<1>12. ASSUME NEW x \in Handlers, Finish(x) PROVE QuotaInv'
  <2>1. ServeTypeOK'
    <3>1. request \in [Requests -> Statuses]
      BY DEF QuotaInv, ServeTypeOK
    <3>2. request' \in [Requests -> Statuses]
      BY <1>12, <3>1 DEF Finish, Statuses
    <3> QED BY <1>12, <1>0, <3>2 DEF QuotaInv, ServeTypeOK, Finish, End, Redis
  <2>2. Remains' /\ Excludes' /\ QuotaAccounted'
    BY <1>12, <1>0 DEF QuotaInv, Remains, Excludes, QuotaAccounted, Finish, On, Holds, End, Redis, NoCall
  <2> QED BY <2>1, <2>2 DEF QuotaInv
<1>13. ASSUME NEW x \in Handlers, Fail(x) PROVE QuotaInv'
  <2>1. ServeTypeOK'
    BY <1>13, <1>0 DEF QuotaInv, ServeTypeOK, Fail, End, Rows
  <2>2. Remains' /\ Excludes' /\ QuotaAccounted'
    <3>1. handler'[x].pc = "idle" /\ \A y \in Handlers \ {x} : handler'[y] = handler[y]
      BY <1>13, <1>0 DEF Fail, End, NoCall
    <3>2. UNCHANGED <<quota, spent, slow>> /\ (locked' \/ ~locked \/ handler[x].pc = "config")
      BY <1>13 DEF Fail, On
    <3>3. Remains' /\ QuotaAccounted'
      BY <3>1, <3>2 DEF QuotaInv, Remains, QuotaAccounted, On
    <3>4. Excludes'
      BY <3>1, <3>2 DEF QuotaInv, Excludes, On, Holds
    <3> QED BY <3>3, <3>4
  <2> QED BY <2>1, <2>2 DEF QuotaInv
<1>14. ASSUME NEW id \in Requests, Upload(id) \/ Validated(id) \/ Processed(id) PROVE QuotaInv'
  <2>1. ServeTypeOK'
    <3>1. /\ handler' = handler /\ jobs' = jobs /\ twice' = twice /\ UNCHANGED Redis
          /\ request' \in [Requests -> Statuses] /\ valid' \in [Requests -> BOOLEAN]
      <4>0. request \in [Requests -> Statuses] /\ valid \in [Requests -> BOOLEAN]
        BY DEF QuotaInv, ServeTypeOK
      <4>1. CASE Upload(id)
        BY <4>0, <4>1 DEF Upload, Statuses
      <4>2. CASE Validated(id)
        BY <4>0, <4>2 DEF Validated
      <4>3. CASE Processed(id)
        BY <4>0, <4>3 DEF Processed, Statuses
      <4> QED BY <1>14, <4>1, <4>2, <4>3
    <3> QED BY <3>1 DEF QuotaInv, ServeTypeOK, Redis
  <2>2. Remains' /\ Excludes' /\ QuotaAccounted'
    BY <1>14 DEF QuotaInv, Remains, Excludes, QuotaAccounted, On, Holds, Upload, Validated, Processed, Redis
  <2> QED BY <2>1, <2>2 DEF QuotaInv
<1>15. CASE Expire
  <2>1. ServeTypeOK'
    BY <1>15, <1>0 DEF QuotaInv, ServeTypeOK, Expire, Rows
  <2>2. Remains' /\ Excludes' /\ QuotaAccounted'
    BY <1>15 DEF QuotaInv, Remains, Excludes, QuotaAccounted, On, Holds, Expire
  <2> QED BY <2>1, <2>2 DEF QuotaInv
<1>16. CASE UNCHANGED serveVars
  BY <1>16 DEF serveVars, QuotaInv, ServeTypeOK, Remains, Excludes, QuotaAccounted, On, Holds
<1> QED
  BY <1>1, <1>2, <1>3, <1>4, <1>5, <1>6, <1>7, <1>8, <1>9, <1>10, <1>11, <1>12, <1>13, <1>14, <1>15, <1>16
  DEF ServeNext, HandlerStep

\* Rows, quota and calls keep their types.
THEOREM ServeTypeCorrect == ServeSpec => []ServeTypeOK
<1>1. QuotaInv => ServeTypeOK
  BY DEF QuotaInv
<1> QED BY <1>1, QuotaInit, QuotaStep, PTL DEF ServeSpec

\* The day's quota adds up unless a holder has outlived the lock, and the key never leaves its range
\* even then (data-self-serve-quota.service.ts 20-76).
THEOREM QuotaAccountedAlways == ServeSpec => []QuotaAccounted
<1>1. QuotaInv => QuotaAccounted
  BY DEF QuotaInv
<1> QED BY <1>1, QuotaInit, QuotaStep, PTL DEF ServeSpec

(***************************************************************************)
(* One submission                                                          *)
(***************************************************************************)
Sends(x) == handler[x].call \in {"create", "submit"}
AsCalled == \A x \in Handlers : /\ handler[x].pc = "idle" => handler[x] = NoCall
                                /\ handler[x].pc = "finish" => ~Sends(x)
                                /\ handler[x].pc \notin {"idle", "finish"} => Sends(x)
                                /\ Sends(x) => handler[x].id \in Requests
NotYetSent == \A id \in Requests : request[id] \in {"none", "DRAFT"} => jobs[id] = 0
Sending    == \A x \in Handlers : Sends(x) =>
                  /\ handler[x].id \notin twice => jobs[handler[x].id] = 0
                  /\ handler[x].call = "create" => request[handler[x].id] # "DRAFT"
                  /\ handler[x].pc = "push" => request[handler[x].id] \notin {"none", "DRAFT"}
OneSends   == \A x, y \in Handlers : Sends(x) /\ Sends(y) /\ handler[x].id = handler[y].id /\ x # y =>
                  handler[x].id \in twice

SubmitInv == AsCalled /\ NotYetSent /\ Sending /\ OneSends /\ SubmittedOnce

LEMMA SubmitInit == ServeInit => SubmitInv
BY DEF ServeInit, SubmitInv, AsCalled, NotYetSent, Sending, OneSends, SubmittedOnce, Sends, NoCall

LEMMA SubmitStep == ServeTypeOK /\ SubmitInv /\ [ServeNext]_serveVars => SubmitInv'
<1> SUFFICES ASSUME ServeTypeOK, SubmitInv, [ServeNext]_serveVars PROVE SubmitInv'
  OBVIOUS
<1> USE LimitAssumption
<1> DEFINE Calls == [pc : PCs, call : {"none", "create", "submit", "update"},
                     id : Requests \cup {None}, remain : 0..Limit, tries : 0..MaxRetry - 1]
<1>0. /\ handler \in [Handlers -> Calls] /\ request \in [Requests -> Statuses]
      /\ jobs \in [Requests -> Nat] /\ twice \subseteq Requests
  BY DEF ServeTypeOK
\* Steps that change neither rows nor what a call is about.
<1>s. ASSUME UNCHANGED Rows,
             \A y \in Handlers : /\ handler'[y].call = handler[y].call /\ handler'[y].id = handler[y].id
                                 /\ handler'[y] = handler[y] \/ /\ handler[y].pc \in {"lock", "get", "set", "config", "unlock"}
                                                                /\ handler'[y].pc \in {"lock", "get", "set", "config", "unlock", "save"}
      PROVE  SubmitInv'
  BY <1>s, <1>0 DEF SubmitInv, AsCalled, NotYetSent, Sending, OneSends, SubmittedOnce, Sends, Rows
\* Steps that end calls.
<1>n. ASSUME UNCHANGED Rows, \A y \in Handlers : handler'[y] \in {handler[y], NoCall}
      PROVE  SubmitInv'
  BY <1>n, <1>0 DEF SubmitInv, AsCalled, NotYetSent, Sending, OneSends, SubmittedOnce, Sends, Rows, NoCall
<1>1. ASSUME NEW x \in Handlers, NEW id \in Requests, Create(x, id) PROVE SubmitInv'
  <2> DEFINE rec == [NoCall EXCEPT !.pc = "lock", !.call = "create", !.id = id]
  <2>1. rec.pc = "lock" /\ rec.call = "create" /\ rec.id = id
    BY DEF NoCall
  <2>2. handler' = [handler EXCEPT ![x] = rec] /\ UNCHANGED Rows
    BY <1>1 DEF Create, Enter
  <2>3. request[id] = "none" /\ \A y \in Handlers : handler[y].id # id
    BY <1>1 DEF Create, New
  <2> HIDE DEF rec
  <2> QED BY <2>1, <2>2, <2>3, <1>0
          DEF SubmitInv, AsCalled, NotYetSent, Sending, OneSends, SubmittedOnce, Sends, Rows
<1>2. ASSUME NEW x \in Handlers, NEW id \in Requests, Submit(x, id) PROVE SubmitInv'
  <2> DEFINE rec == [NoCall EXCEPT !.pc = "lock", !.call = "submit", !.id = id]
  <2>1. rec.pc = "lock" /\ rec.call = "submit" /\ rec.id = id
    BY DEF NoCall
  <2>2. handler' = [handler EXCEPT ![x] = rec] /\ UNCHANGED <<request, jobs>>
    BY <1>2 DEF Submit, Enter
  <2>3. request[id] = "DRAFT"
    BY <1>2 DEF Submit
  <2>4. twice \subseteq twice' /\ (Submitting(id) => id \in twice')
    BY <1>2 DEF Submit
  <2>5. \A y \in Handlers : Sends(y) /\ handler[y].id = id => id \in twice'
    BY <2>3, <2>4 DEF SubmitInv, Sending, Sends, Submitting
  <2> HIDE DEF rec
  <2> QED BY <2>1, <2>2, <2>3, <2>4, <2>5, <1>0
          DEF SubmitInv, AsCalled, NotYetSent, Sending, OneSends, SubmittedOnce, Sends
<1>3. ASSUME NEW x \in Handlers, NEW id \in Requests, Update(x, id) PROVE SubmitInv'
  <2> DEFINE rec == [NoCall EXCEPT !.pc = "finish", !.call = "update", !.id = id]
  <2>1. rec.pc = "finish" /\ rec.call = "update" /\ rec.id = id
    BY DEF NoCall
  <2>2. handler' = [handler EXCEPT ![x] = rec] /\ UNCHANGED Rows
    BY <1>3 DEF Update, Enter
  <2> HIDE DEF rec
  <2> QED BY <2>1, <2>2, <1>0
          DEF SubmitInv, AsCalled, NotYetSent, Sending, OneSends, SubmittedOnce, Sends, Rows
<1>4. ASSUME NEW x \in Handlers, SetNx(x) PROVE SubmitInv'
  <2>1. CASE End(x)
    BY <1>4, <2>1, <1>n, <1>0 DEF SetNx, End
  <2>2. CASE ~End(x)
    BY <1>4, <2>2, <1>s, <1>0 DEF SetNx, On, Go
  <2> QED BY <2>1, <2>2
<1>5. ASSUME NEW x \in Handlers, Get(x) PROVE SubmitInv'
  BY <1>5, <1>s, <1>0 DEF Get, On
<1>6. ASSUME NEW x \in Handlers, Exhausted(x) PROVE SubmitInv'
  BY <1>6, <1>n DEF Exhausted
<1>7. ASSUME NEW x \in Handlers, TakeUnit(x) \/ FirstUnit(x) \/ Unlock(x) PROVE SubmitInv'
  BY <1>7, <1>s, <1>0 DEF TakeUnit, FirstUnit, Unlock, On, Go
<1>8. ASSUME NEW x \in Handlers, Save(x) PROVE SubmitInv'
  <2>1. /\ handler' = [handler EXCEPT ![x].pc = "push"] /\ UNCHANGED <<jobs, twice>>
        /\ request' = [request EXCEPT ![handler[x].id] = "SUBMITED"] /\ handler[x].pc = "save"
    BY <1>8 DEF Save, Go, On
  <2> QED BY <2>1, <1>0 DEF SubmitInv, AsCalled, NotYetSent, Sending, OneSends, SubmittedOnce, Sends
<1>9. ASSUME NEW x \in Handlers, Push(x) PROVE SubmitInv'
  <2>1. PICK n \in {0, 1} : jobs' = [jobs EXCEPT ![handler[x].id] = @ + n]
    BY <1>9 DEF Push
  <2>2. handler' = [handler EXCEPT ![x] = NoCall] /\ UNCHANGED <<request, twice>> /\ handler[x].pc = "push"
    BY <1>9 DEF Push, End, On
  <2>3. /\ Sends(x) /\ handler[x].id \in Requests /\ request[handler[x].id] \notin {"none", "DRAFT"}
        /\ handler[x].id \notin twice => jobs[handler[x].id] = 0
    BY <2>2 DEF SubmitInv, AsCalled, Sending
  <2>4. \A id \in Requests : IF id = handler[x].id THEN jobs'[id] = jobs[id] + n ELSE jobs'[id] = jobs[id]
    BY <2>1, <1>0
  <2>5. AsCalled' /\ OneSends'
    BY <2>2, <1>0 DEF SubmitInv, AsCalled, OneSends, Sends, NoCall
  <2>6. NotYetSent'
    BY <2>2, <2>3, <2>4 DEF SubmitInv, NotYetSent
  <2>7. Sending'
    <3> SUFFICES ASSUME NEW y \in Handlers, Sends(y)'
                 PROVE  /\ (handler[y].id \notin twice => jobs[handler[y].id] = 0)'
                        /\ (handler[y].call = "create" => request[handler[y].id] # "DRAFT")'
                        /\ (handler[y].pc = "push" => request[handler[y].id] \notin {"none", "DRAFT"})'
      BY DEF Sending
    <3>1. y # x /\ handler'[y] = handler[y] /\ Sends(y)
      BY <2>2, <1>0 DEF Sends, NoCall
    <3>2. handler[y].id \notin twice => handler[y].id # handler[x].id
      BY <3>1, <2>3 DEF SubmitInv, OneSends
    <3>3. handler[y].id \in Requests
      BY <3>1 DEF SubmitInv, AsCalled
    <3> QED BY <3>1, <3>2, <3>3, <2>2, <2>4 DEF SubmitInv, Sending
  <2>8. SubmittedOnce'
    BY <2>2, <2>3, <2>4, <1>0 DEF SubmitInv, SubmittedOnce
  <2> QED BY <2>5, <2>6, <2>7, <2>8 DEF SubmitInv
<1>10. ASSUME NEW x \in Handlers, Finish(x) PROVE SubmitInv'
  <2>1. PICK to \in {"SUCCESSFULLY", "FAILED"} : request' = [request EXCEPT ![handler[x].id] = to]
    BY <1>10 DEF Finish
  <2>2. handler' = [handler EXCEPT ![x] = NoCall] /\ UNCHANGED <<jobs, twice>>
    BY <1>10 DEF Finish, End
  <2> QED BY <2>1, <2>2, <1>0
          DEF SubmitInv, AsCalled, NotYetSent, Sending, OneSends, SubmittedOnce, Sends, NoCall
<1>11. ASSUME NEW x \in Handlers, Fail(x) PROVE SubmitInv'
  BY <1>11, <1>n, <1>0 DEF Fail, End
<1>12. ASSUME NEW id \in Requests, Upload(id) PROVE SubmitInv'
  <2>1. request' = [request EXCEPT ![id] = "DRAFT"] /\ UNCHANGED <<handler, jobs, twice>>
    BY <1>12 DEF Upload
  <2>2. request[id] = "none" /\ \A y \in Handlers : handler[y].id # id
    BY <1>12 DEF Upload, New
  <2> QED BY <2>1, <2>2, <1>0 DEF SubmitInv, AsCalled, NotYetSent, Sending, OneSends, SubmittedOnce, Sends
<1>13. ASSUME NEW id \in Requests, Processed(id) PROVE SubmitInv'
  <2>1. request' = [request EXCEPT ![id] = "PROCESSING"] /\ UNCHANGED <<handler, jobs, twice>>
    BY <1>13 DEF Processed
  <2> QED BY <2>1, <1>0 DEF SubmitInv, AsCalled, NotYetSent, Sending, OneSends, SubmittedOnce, Sends
<1>14. ASSUME UNCHANGED <<handler, request, jobs, twice>> PROVE SubmitInv'
  BY <1>14 DEF SubmitInv, AsCalled, NotYetSent, Sending, OneSends, SubmittedOnce, Sends
<1>15. ASSUME NEW id \in Requests, Validated(id) PROVE SubmitInv'
  BY <1>14, <1>15 DEF Validated
<1>16. CASE Expire \/ UNCHANGED serveVars
  BY <1>14, <1>16 DEF Expire, Rows, serveVars
<1> QED
  BY <1>1, <1>2, <1>3, <1>4, <1>5, <1>6, <1>7, <1>8, <1>9, <1>10, <1>11, <1>12, <1>13, <1>15, <1>16
  DEF ServeNext, HandlerStep

\* A request goes to the data processor once, unless two calls were submitting it at one time
\* (data-self-serve.service.ts 194).
THEOREM SubmittedOnceAlways == ServeSpec => []SubmittedOnce
<1>1. SubmitInv => SubmittedOnce
  BY DEF SubmitInv
<1> QED BY <1>1, ServeTypeCorrect, SubmitInit, SubmitStep, PTL DEF ServeSpec

(***************************************************************************)
(* Paid: a unit was taken for every message that arrived, and for every    *)
(* call that is past the quota and has not sent its own                    *)
(***************************************************************************)
Paid    == {x \in Handlers : handler[x].pc \in {"unlock", "save", "push"}}
PaidInv == /\ IsFiniteSet(Arrived) /\ IsFiniteSet(Paid)
           /\ Cardinality(Arrived) + Cardinality(Paid) <= spent

\* Calls that come, wait or end: nobody is past the quota who was not.
LEMMA NobodyPays ==
    ASSUME ServeTypeOK, PaidInv, jobs' = jobs, spent' = spent, Paid' \subseteq Paid
    PROVE  PaidInv'
<1>1. Arrived' = Arrived
  BY DEF Arrived
<1>2. IsFiniteSet(Paid') /\ Cardinality(Paid') <= Cardinality(Paid)
  BY FS_Subset DEF PaidInv
<1>3. Cardinality(Arrived) \in Nat /\ Cardinality(Paid) \in Nat /\ Cardinality(Paid') \in Nat /\ spent \in Nat
  BY <1>2, FS_CardinalityType DEF PaidInv, ServeTypeOK
<1> QED BY <1>1, <1>2, <1>3 DEF PaidInv

LEMMA AddsOne ==
    ASSUME NEW S, NEW e, IsFiniteSet(S)
    PROVE  IsFiniteSet(S \cup {e}) /\ Cardinality(S \cup {e}) <= Cardinality(S) + 1
<1>1. Cardinality(S) \in Nat
  BY FS_CardinalityType
<1>2. CASE e \in S
  <2>1. S \cup {e} = S
    BY <1>2
  <2> QED BY <2>1, <1>1
<1>3. CASE e \notin S
  <2>1. IsFiniteSet(S \cup {e}) /\ Cardinality(S \cup {e}) = Cardinality(S) + 1
    BY <1>3, FS_AddElement
  <2> QED BY <2>1, <1>1
<1> QED BY <1>2, <1>3

\* One call takes a unit.
LEMMA OnePays ==
    ASSUME ServeTypeOK, PaidInv, jobs' = jobs, spent' = spent + 1, NEW x \in Handlers, Paid' = Paid \cup {x}
    PROVE  PaidInv'
<1>1. Arrived' = Arrived
  BY DEF Arrived
<1>2. IsFiniteSet(Paid') /\ Cardinality(Paid') <= Cardinality(Paid) + 1
  BY AddsOne DEF PaidInv
<1>3. Cardinality(Arrived) \in Nat /\ Cardinality(Paid) \in Nat /\ Cardinality(Paid') \in Nat /\ spent \in Nat
  BY <1>2, FS_CardinalityType DEF PaidInv, ServeTypeOK
<1> QED BY <1>1, <1>2, <1>3 DEF PaidInv

\* One call sends its message, and is done.
LEMMA OneSendsPaid ==
    ASSUME ServeTypeOK, PaidInv, NEW x \in Handlers, Push(x)
    PROVE  PaidInv'
<1>1. PICK n \in {0, 1} : jobs' = [jobs EXCEPT ![handler[x].id] = @ + n]
  BY DEF Push
<1>2. spent' = spent /\ Paid' = Paid \ {x} /\ x \in Paid
  BY DEF Push, End, On, Paid, NoCall, ServeTypeOK, Redis
<1>3. PICK e : e = <<handler[x].id, jobs[handler[x].id] + 1>>
  OBVIOUS
<1>4. Arrived' \subseteq Arrived \cup {e}
  <2> SUFFICES ASSUME NEW id \in Requests, NEW m \in 1..jobs'[id] PROVE <<id, m>> \in Arrived \cup {e}
    BY DEF Arrived
  <2>1. CASE m \in 1..jobs[id]
    BY <2>1 DEF Arrived
  <2>2. CASE m \notin 1..jobs[id]
    BY <1>1, <1>3, <2>2 DEF ServeTypeOK
  <2> QED BY <2>1, <2>2
<1>5. IsFiniteSet(Arrived \cup {e}) /\ Cardinality(Arrived \cup {e}) <= Cardinality(Arrived) + 1
  <2>1. PICK A : A = Arrived
    OBVIOUS
  <2>2. IsFiniteSet(A)
    BY <2>1 DEF PaidInv
  <2>3. IsFiniteSet(A \cup {e}) /\ Cardinality(A \cup {e}) <= Cardinality(A) + 1
    BY <2>2, AddsOne
  <2> QED BY <2>1, <2>3
<1>6. IsFiniteSet(Arrived') /\ Cardinality(Arrived') <= Cardinality(Arrived \cup {e})
  BY <1>4, <1>5, FS_Subset
<1>7. IsFiniteSet(Paid') /\ Cardinality(Paid') = Cardinality(Paid) - 1
  BY <1>2, FS_RemoveElement DEF PaidInv
<1>8. /\ Cardinality(Arrived) \in Nat /\ Cardinality(Arrived') \in Nat /\ Cardinality(Arrived \cup {e}) \in Nat
      /\ Cardinality(Paid) \in Nat /\ Cardinality(Paid') \in Nat /\ spent \in Nat
  BY <1>5, <1>6, <1>7, FS_CardinalityType DEF PaidInv, ServeTypeOK
<1> QED BY <1>2, <1>5, <1>6, <1>7, <1>8 DEF PaidInv

LEMMA PaidInit == ServeInit => PaidInv
<1> SUFFICES ASSUME ServeInit PROVE PaidInv
  OBVIOUS
<1>1. Arrived = {} /\ Paid = {} /\ spent = 0
  BY DEF ServeInit, Arrived, Paid, NoCall
<1> QED BY <1>1, FS_EmptySet DEF PaidInv

LEMMA PaidStep == ServeTypeOK /\ PaidInv /\ [ServeNext]_serveVars => PaidInv'
<1> SUFFICES ASSUME ServeTypeOK, PaidInv, [ServeNext]_serveVars PROVE PaidInv'
  OBVIOUS
<1> DEFINE Calls == [pc : PCs, call : {"none", "create", "submit", "update"},
                     id : Requests \cup {None}, remain : 0..Limit, tries : 0..MaxRetry - 1]
<1>0. handler \in [Handlers -> Calls]
  BY DEF ServeTypeOK
<1>1. ASSUME NEW x \in Handlers, NEW id \in Requests, Create(x, id) \/ Submit(x, id) \/ Update(x, id)
      PROVE  PaidInv'
  <2>1. UNCHANGED <<jobs, spent>>
    BY <1>1 DEF Create, Submit, Update, Redis, Rows
  <2>2. \A y \in Handlers : y # x => handler'[y] = handler[y]
    BY <1>0, <1>1 DEF Create, Submit, Update, Enter
  <2>3. handler'[x].pc \in {"lock", "finish"}
    <3>1. CASE Create(x, id)
      BY <1>0, <3>1 DEF Create, Enter, NoCall
    <3>2. CASE Submit(x, id)
      BY <1>0, <3>2 DEF Submit, Enter, NoCall
    <3>3. CASE Update(x, id)
      BY <1>0, <3>3 DEF Update, Enter, NoCall
    <3> QED BY <1>1, <3>1, <3>2, <3>3
  <2>4. Paid' \subseteq Paid
    BY <2>2, <2>3 DEF Paid
  <2> QED BY <2>1, <2>4, NobodyPays
<1>2. ASSUME NEW x \in Handlers,
             \/ SetNx(x) \/ Get(x) \/ Exhausted(x) \/ Unlock(x) \/ Save(x) \/ Finish(x) \/ Fail(x)
      PROVE  PaidInv'
  <2>1. CASE SetNx(x) \/ Get(x)
    <3>1. UNCHANGED <<jobs, spent>>
      BY <2>1 DEF SetNx, Get, Redis, Rows
    <3>2. \A y \in Handlers : y # x => handler'[y] = handler[y]
      BY <1>0, <2>1 DEF SetNx, Get, Go, End
    <3>3. handler'[x].pc \in {"idle", "lock", "get", "set", "config"}
      BY <1>0, <2>1 DEF SetNx, Get, On, Go, End, NoCall
    <3>4. Paid' \subseteq Paid
      BY <3>2, <3>3 DEF Paid
    <3> QED BY <3>1, <3>4, NobodyPays
  <2>2. CASE Exhausted(x) \/ Finish(x) \/ Fail(x)
    <3>1. UNCHANGED <<jobs, spent>>
      BY <2>2 DEF Exhausted, Finish, Fail, Redis, Rows
    <3>2. \A y \in Handlers : handler'[y] = handler[y] \/ handler'[y].pc = "idle"
      <4>1. NoCall.pc = "idle"
        BY DEF NoCall
      <4>2. CASE Exhausted(x)
        BY <4>1, <4>2 DEF Exhausted
      <4>3. CASE Finish(x) \/ Fail(x)
        BY <1>0, <4>1, <4>3 DEF Finish, Fail, End
      <4> QED BY <2>2, <4>2, <4>3
    <3>3. Paid' \subseteq Paid
      BY <3>2 DEF Paid
    <3> QED BY <3>1, <3>3, NobodyPays
  <2>3. CASE Unlock(x) \/ Save(x)
    <3>1. UNCHANGED <<jobs, spent>> /\ Paid' \subseteq Paid
      BY <1>0, <2>3 DEF Unlock, Save, On, Go, Paid, Redis, Rows
    <3> QED BY <3>1, NobodyPays
  <2> QED BY <1>2, <2>1, <2>2, <2>3
<1>3. ASSUME NEW x \in Handlers, TakeUnit(x) \/ FirstUnit(x) PROVE PaidInv'
  <2>1. jobs' = jobs /\ spent' = spent + 1 /\ Paid' = Paid \cup {x}
    BY <1>0, <1>3 DEF TakeUnit, FirstUnit, Go, Paid, Rows
  <2> QED BY <2>1, OnePays
<1>4. ASSUME NEW id \in Requests, Upload(id) \/ Validated(id) \/ Processed(id) PROVE PaidInv'
  <2>1. UNCHANGED <<jobs, spent, handler>>
    BY <1>4 DEF Upload, Validated, Processed, Redis
  <2> QED BY <2>1, NobodyPays DEF Paid
<1>5. CASE Expire \/ UNCHANGED serveVars
  <2>1. UNCHANGED <<jobs, spent, handler>>
    BY <1>5 DEF Expire, Rows, serveVars
  <2> QED BY <2>1, NobodyPays DEF Paid
<1> QED BY <1>1, <1>2, <1>3, <1>4, <1>5, OneSendsPaid DEF ServeNext, HandlerStep

\* What reaches the data processor has been paid for: as many messages as units at most, for any
\* number of calls, with drafts submitted twice, locks that ran out, and calls that crashed.
THEOREM JobsPaidAlways == ServeSpec => []JobsPaid
<1>1. ServeTypeOK /\ PaidInv => JobsPaid
  <2> SUFFICES ASSUME ServeTypeOK, PaidInv PROVE JobsPaid
    OBVIOUS
  <2>1. Cardinality(Arrived) \in Nat /\ Cardinality(Paid) \in Nat /\ spent \in Nat
    BY FS_CardinalityType DEF PaidInv, ServeTypeOK
  <2> QED BY <2>1 DEF PaidInv, JobsPaid
<1> QED BY <1>1, ServeTypeCorrect, PaidInit, PaidStep, PTL DEF ServeSpec

(***************************************************************************)
(* Custom upload: the invariant                                            *)
(***************************************************************************)
Copies == {"none", "half", "whole"}

Types ==
    /\ pc \in {"move", "copy", "staged", "save", "unpublish", "done", "failed", "over", "dead"}
    /\ current \in Files /\ published \in SUBSET Files /\ media \in SUBSET Files /\ stuck \in BOOLEAN
    /\ staging \in [Files -> Copies] /\ public \in [Files -> Copies]

\* What is public has been recorded, is whole, and was whole in its staging file before.
Recorded == /\ \A f \in Files : public[f] # "half" /\ (public[f] # "none" => f \in published)
            /\ pc = "staged" => staging[current] = "whole"

\* The files before the current one are finished; "save" has published the current one too.
Progress ==
    /\ pc \in {"move", "copy", "staged", "save"} =>
          \A f \in Files : f < current => f \in media /\ public[f] = "whole"
    /\ pc = "save" => public[current] = "whole"
    /\ pc = "done" => \A f \in Files : f \in media /\ public[f] = "whole"

UploadInv == Types /\ Recorded /\ Progress /\ NothingPublished

(***************************************************************************)
(* One lemma per action that publishes or takes back                       *)
(***************************************************************************)
LEMMA MoveKeeps == ASSUME UploadInv, MoveFile PROVE UploadInv'
<1> USE DEF UploadInv, MoveFile, NothingPublished
<1>1. Types'
  BY DEF Types, Copies, ToCatch
<1>2. Recorded'
  BY DEF Types, Copies, Recorded, ToCatch
<1>3. Progress'
  BY FileCountAssumption DEF Types, Copies, Progress, Files, ToCatch
<1>4. pc' # "failed"
  BY DEF ToCatch
<1> QED BY <1>1, <1>2, <1>3, <1>4

LEMMA CopyKeeps == ASSUME UploadInv, CopyFile PROVE UploadInv'
<1> USE DEF UploadInv, CopyFile, NothingPublished
<1>1. Types'
  BY DEF Types, Copies, ToCatch
<1>2. Recorded'
  BY DEF Types, Copies, Recorded, ToCatch
<1>3. Progress'
  BY DEF Types, Progress, ToCatch
<1>4. pc' # "failed"
  BY DEF ToCatch
<1> QED BY <1>1, <1>2, <1>3, <1>4

LEMMA RenameKeeps == ASSUME UploadInv, RenameStaged PROVE UploadInv'
<1> USE DEF UploadInv, RenameStaged, NothingPublished
<1>1. Types'
  BY DEF Types, Copies, Recorded, ToCatch
<1>2. Recorded'
  BY DEF Types, Copies, Recorded, ToCatch
<1>3. Progress'
  BY FileCountAssumption DEF Types, Copies, Recorded, Progress, Files, ToCatch
<1>4. pc' # "failed"
  BY DEF ToCatch
<1> QED BY <1>1, <1>2, <1>3, <1>4

LEMMA SaveKeeps == ASSUME UploadInv, SaveRow PROVE UploadInv'
<1> USE DEF UploadInv, SaveRow, NothingPublished
<1>0. current' \in Files /\ media' \in SUBSET Files
  <2>1. current \in Files /\ media \in SUBSET Files
    BY DEF Types
  <2>2. media' = media \/ media' = media \cup {current}
    OBVIOUS
  <2>3. current' = current \/ (current # FileCount /\ current' = current + 1)
    BY DEF ToCatch
  <2>4. current' \in Files
    BY <2>1, <2>3, FileCountAssumption DEF Files
  <2>5. media' \in SUBSET Files
    BY <2>1, <2>2
  <2> QED BY <2>4, <2>5
<1>1. Types'
  BY <1>0 DEF Types, ToCatch
<1>2. Recorded'
  BY DEF Types, Recorded, ToCatch
<1>3. Progress'
  BY FileCountAssumption DEF Types, Progress, Files, ToCatch
<1>4. pc' # "failed"
  BY DEF ToCatch
<1> QED BY <1>1, <1>2, <1>3, <1>4

LEMMA UnpublishKeeps == ASSUME UploadInv, Unpublish PROVE UploadInv'
<1> USE DEF UploadInv
<1>1. PICK left \in SUBSET published :
         /\ public' = [f \in Files |-> IF f \in published \ left THEN "none" ELSE public[f]]
         /\ stuck' = (left # {})
  BY DEF Unpublish
<1>2. pc' = "failed" /\ UNCHANGED <<current, staging, published, media>>
  BY DEF Unpublish
<1>3. Types'
  BY <1>1, <1>2 DEF Types, Copies
<1>4. Recorded'
  BY <1>1, <1>2 DEF Types, Recorded
<1>5. Progress'
  BY <1>2 DEF Progress
<1>6. NothingPublished'
  <2> SUFFICES ASSUME ~stuck', NEW f \in Files PROVE public'[f] = "none"
    BY DEF NothingPublished
  <2>1. left = {}
    BY <1>1
  <2> QED BY <1>1, <2>1 DEF Recorded
<1> QED BY <1>3, <1>4, <1>5, <1>6

(***************************************************************************)
(* The properties                                                          *)
(***************************************************************************)
\* What is behind both properties: only whole files are ever published, all of them recorded.
THEOREM UploadInvInvariant == UploadSpec => []UploadInv
<1>1. UploadInit => UploadInv
  <2> SUFFICES ASSUME UploadInit PROVE UploadInv
    OBVIOUS
  <2> USE DEF UploadInit
  <2>1. 1 \in Files /\ \A f \in Files : ~(f < 1)
    BY FileCountAssumption DEF Files
  <2>2. Types
    BY <2>1 DEF Types, Copies
  <2>3. Recorded /\ Progress /\ NothingPublished
    BY <2>1 DEF Recorded, Progress, NothingPublished
  <2> QED BY <2>2, <2>3 DEF UploadInv
<1>2. UploadInv /\ [UploadNext]_uploadVars => UploadInv'
  <2> SUFFICES ASSUME UploadInv, [UploadNext]_uploadVars PROVE UploadInv'
    OBVIOUS
  <2>1. CASE CleanupTempFiles
    BY <2>1 DEF CleanupTempFiles, UploadInv, Types, Recorded, Progress, NothingPublished
  <2>2. CASE Crash
    BY <2>2 DEF Crash, UploadInv, Types, Recorded, Progress, NothingPublished
  <2>3. CASE UNCHANGED uploadVars
    BY <2>3 DEF uploadVars, UploadInv, Types, Recorded, Progress, NothingPublished
  <2> QED BY <2>1, <2>2, <2>3, MoveKeeps, CopyKeeps, RenameKeeps, SaveKeeps, UnpublishKeeps
             DEF UploadNext
<1> QED BY <1>1, <1>2, PTL DEF UploadSpec

\* A failed request leaves nothing under a final name, unless an unlink of the roll-back failed.
THEOREM NothingPublishedAlways == UploadSpec => []NothingPublished
<1>1. UploadInv => NothingPublished
  BY DEF UploadInv
<1> QED BY <1>1, UploadInvInvariant, PTL

\* No half-written file is ever served, and a finished request's files are all there with their rows.
THEOREM ServedWholeAlways == UploadSpec => []ServedWhole
<1>1. UploadInv => ServedWhole
  BY DEF UploadInv, ServedWhole, Types, Recorded, Progress
<1> QED BY <1>1, UploadInvInvariant, PTL

(***************************************************************************)
(* Payment documents: the invariant is the type of what is stored          *)
(***************************************************************************)
DocumentRows == [program : Programs, step : Steps, status : DocStatuses, uploader : Members]
DocumentsTyped == doc \in [Documents -> DocumentRows \cup {NoDocument}]

\* Every stored document is at a step that the rights know of.
THEOREM DocumentsTypedInvariant == PaySpec => []DocumentsTyped
<1>1. PayInit => DocumentsTyped
  BY DEF PayInit, DocumentsTyped
<1>2. DocumentsTyped /\ [PayNext]_payVars => DocumentsTyped'
  <2> SUFFICES ASSUME DocumentsTyped, [PayNext]_payVars PROVE DocumentsTyped'
    OBVIOUS
  <2>1. ASSUME NEW u \in Members, NEW d \in Documents, NEW p \in Programs, NEW step \in Steps,
               NEW status \in DocStatuses, UploadDocument(u, d, p, step, status)
        PROVE  DocumentsTyped'
    <3>1. [program |-> p, step |-> step, status |-> status, uploader |-> u] \in DocumentRows
      BY DEF DocumentRows
    <3> QED BY <2>1, <3>1 DEF UploadDocument, DocumentsTyped
  <2>2. doc' = doc => DocumentsTyped'
    BY DEF DocumentsTyped
  <2> QED BY <2>1, <2>2 DEF PayNext, Regrant, Reown, ChangeProgram, payVars
<1> QED BY <1>1, <1>2, PTL DEF PaySpec

\* A right at a program says that the program is there, and an upload right shows every step.
LEMMA RightsAreLive == ASSUME NEW u, NEW p, NEW s, s \in FullSteps(u, p) \cup OwnSteps(u, p), p \in Programs
                       PROVE  program[p].live
BY DEF FullSteps, OwnSteps, Owner, Accessible

LEMMA UploaderSees == ASSUME NEW u, NEW p, NEW s \in Steps, HasCapability(u, p, "upload")
                      PROVE  s \in FullSteps(u, p)
<1>1. "upload" \in ViewCodes(s) \ OwnOnly
  BY DEF ViewCodes, OwnOnly, Steps
<1> QED BY <1>1 DEF FullSteps, HasCapability

LEMMA ApproverSees == ASSUME NEW u, NEW p, NEW s \in {"prepare", "ex_prepare"}, HasCapability(u, p, "approve")
                      PROVE  s \in FullSteps(u, p)
<1>1. s \in Steps /\ "approve" \in ViewCodes(s) \ OwnOnly
  BY DEF ViewCodes, OwnOnly, Steps
<1> QED BY <1>1 DEF FullSteps, HasCapability

LEMMA ReconSees == ASSUME NEW u, NEW p, HasCapability(u, p, "upload_recon")
                   PROVE  "recon_data" \in FullSteps(u, p) \cup OwnSteps(u, p)
<1>1. "recon_data" \in Steps /\ "upload_recon" \in ViewCodes("recon_data") \cap OwnOnly
  BY DEF ViewCodes, OwnOnly, Steps
<1> QED BY <1>1 DEF FullSteps, OwnSteps, HasCapability

\* What each right shows of a stored document.
LEMMA StoredRow == ASSUME DocumentsTyped, NEW d \in Stored
                   PROVE  doc[d].step \in Steps /\ doc[d].program \in Programs
BY DEF DocumentsTyped, Stored, DocumentRows

LEMMA RightsOpen ==
    ASSUME DocumentsTyped, NEW u \in Members, NEW d \in Stored,
           \/ HasCapability(u, doc[d].program, "upload")
           \/ HasCapability(u, doc[d].program, "approve") /\ doc[d].step \in {"prepare", "ex_prepare"}
           \/ /\ HasCapability(u, doc[d].program, "upload_recon")
              /\ doc[d].step = "recon_data" /\ doc[d].uploader = u
    PROVE  CanOpen(u, d)
<1>1. CASE HasCapability(u, doc[d].program, "upload")
  BY <1>1, StoredRow, UploaderSees DEF CanOpen
<1>2. CASE HasCapability(u, doc[d].program, "approve") /\ doc[d].step \in {"prepare", "ex_prepare"}
  BY <1>2, ApproverSees DEF CanOpen
<1>3. CASE /\ HasCapability(u, doc[d].program, "upload_recon")
           /\ doc[d].step = "recon_data" /\ doc[d].uploader = u
  BY <1>3, ReconSees DEF CanOpen
<1> QED BY <1>1, <1>2, <1>3

\* The list of a program shows exactly what can be opened, and the filters' lists of users name
\* nobody for a document one cannot open.
THEOREM ListMatchesOpenAlways == PaySpec => []ListMatchesOpen
<1>1. DocumentsTyped => ListMatchesOpen
  <2> SUFFICES ASSUME DocumentsTyped, NEW u \in Members PROVE
          /\ \A d \in Stored : d \in Listed(u, doc[d].program) <=> CanOpen(u, d)
          /\ CrossListed(u) \subseteq {d \in Stored : CanOpen(u, d)}
    BY DEF ListMatchesOpen
  <2>1. ASSUME NEW d \in Stored PROVE d \in Listed(u, doc[d].program) <=> CanOpen(u, d)
    <3>1. CanOpen(u, d) => program[doc[d].program].live
      BY StoredRow, RightsAreLive DEF CanOpen
    <3> QED BY <3>1 DEF Listed, CanOpen
  <2>2. ASSUME NEW d \in CrossListed(u) PROVE d \in Stored /\ CanOpen(u, d)
    BY <2>2, RightsOpen DEF CrossListed, HasCapability
  <2> QED BY <2>1, <2>2
<1> QED BY <1>1, DocumentsTypedInvariant, PTL

\* Whoever may change a document's status, or may upload what this document is, can open it.
THEOREM ActorsSeeAlways == PaySpec => []ActorsSee
<1>1. DocumentsTyped => ActorsSee
  <2> SUFFICES ASSUME DocumentsTyped, NEW u \in Members, NEW d \in Stored,
                      \/ \E status \in DocStatuses : MaySet(u, d, status)
                      \/ MayUpload(u, doc[d].program, doc[d].step) /\ doc[d].uploader = u
               PROVE  CanOpen(u, d)
    BY DEF ActorsSee
  <2>1. \/ MayUpload(u, doc[d].program, doc[d].step) /\ doc[d].uploader = u
        \/ doc[d].step \in {"prepare", "ex_prepare"} /\ HasCapability(u, doc[d].program, "approve")
    BY DEF MaySet
  <2> QED BY <2>1, RightsOpen DEF MayUpload
<1> QED BY <1>1, DocumentsTypedInvariant, PTL
=============================================================================
