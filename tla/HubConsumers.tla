---------------------------- MODULE HubConsumers ----------------------------
(***************************************************************************)
(* The Data Hub's consuming applications: one of them, edited and switched *)
(* by concurrent transactions that take its row FOR UPDATE, read what they *)
(* replace, and append a numbered snapshot.  The links to its SO-app users *)
(* are part of the content: they are read and replaced under the row lock. *)
(***************************************************************************)
EXTENDS Naturals, Sequences

CONSTANTS Editors,     \* transactions open at one time
          Contents,    \* what a form may say
          NoContent,   \* no such application yet
          MaxEdits     \* bound: transactions

VARIABLES app,         \* data_hub_consumers: content, status, version_no
          snapshots,   \* data_hub_consumer_histories, by version_no, with the action
          edit,        \* the open transactions
          edits        \* transactions begun

appVars == <<app, snapshots, edit, edits>>

Unsaved == [content |-> NoContent, status |-> "active", version |-> 0]
NoEdit  == [pc |-> "idle", call |-> "none", to |-> NoContent, row |-> Unsaved]
Snap(action, content, status) == [action |-> action, content |-> content, status |-> status]
BeginEdit(e, rec) == /\ edit[e].pc = "idle" /\ edits < MaxEdits /\ edits' = edits + 1
                     /\ edit' = [edit EXCEPT ![e] = rec]

\* create: its row is nobody else's before COMMIT.
CreateApp(e) ==
    /\ app.version = 0 /\ BeginEdit(e, NoEdit)
    /\ \E c \in Contents : /\ app' = [content |-> c, status |-> "active", version |-> 1]
                           /\ snapshots' = <<Snap("create", c, "active")>>

\* update and updateStatus ask for the row.
AskApp(e, call, to) ==
    /\ app.version > 0
    /\ BeginEdit(e, [pc |-> "lock", call |-> call, to |-> to, row |-> app])
    /\ UNCHANGED <<app, snapshots>>

RowFree(e) == \A f \in Editors \ {e} : edit[f].pc # "write"
\* Variant that goes on with the row it read before it waited.
LockCurrentStale(e) ==
    /\ edit[e].pc = "lock" /\ RowFree(e)
    /\ edit' = [edit EXCEPT ![e].pc = "write"]
    /\ UNCHANGED <<app, snapshots, edits>>
\* lockCurrent: PostgreSQL reads a row it has waited for again.
LockCurrent(e) ==
    /\ edit[e].pc = "lock" /\ RowFree(e)
    /\ edit' = [edit EXCEPT ![e].pc = "write", ![e].row = app]
    /\ UNCHANGED <<app, snapshots, edits>>

\* The form with the status of the row; the row with another status.
NextApp(e) ==
    IF edit[e].call = "update" THEN [edit[e].row EXCEPT !.content = edit[e].to, !.version = @ + 1]
    ELSE [edit[e].row EXCEPT !.status = edit[e].to, !.version = @ + 1]

\* UPDATE of the columns the call is about, the history, COMMIT; or NO_CHANGES.
WriteApp(e) ==
    /\ edit[e].pc = "write"
    /\ LET next == NextApp(e)
           same == next.content = edit[e].row.content /\ next.status = edit[e].row.status
       IN  IF same THEN UNCHANGED <<app, snapshots>>
           ELSE /\ app' = IF edit[e].call = "update"
                          THEN [app EXCEPT !.content = next.content, !.version = next.version]
                          ELSE [app EXCEPT !.status = next.status, !.version = next.version]
                /\ snapshots' = Append(snapshots, Snap(edit[e].call, next.content, next.status))
    /\ edit' = [edit EXCEPT ![e] = NoEdit]
    /\ UNCHANGED edits

\* Another 4xx, or a lost connection.
AbandonEdit(e) ==
    /\ edit[e].pc # "idle" /\ edit' = [edit EXCEPT ![e] = NoEdit]
    /\ UNCHANGED <<app, snapshots, edits>>

AppInit == app = Unsaved /\ snapshots = <<>> /\ edit = [e \in Editors |-> NoEdit] /\ edits = 0
AppNext == \E e \in Editors :
    \/ CreateApp(e) \/ LockCurrent(e) \/ WriteApp(e) \/ AbandonEdit(e)
    \/ \E c \in Contents : AskApp(e, "update", c)
    \/ \E s \in {"active", "inactive"} : AskApp(e, "status", s)
AppSpec == AppInit /\ [][AppNext]_appVars

(***************************************************************************)
(* Properties                                                              *)
(***************************************************************************)
\* The history is the application's life: one snapshot for each version number, the newest the
\* row as it is, and each differing from the one before in what its action is about and in
\* nothing else (data-hub-consumer-write.service.ts 121: "version_no never skips or collides").
SnapshotsReplay ==
    /\ Len(snapshots) = app.version
    /\ app.version > 0 => LET last == snapshots[app.version]
                          IN  last.content = app.content /\ last.status = app.status
    /\ \A i \in 2..Len(snapshots) :
          LET a == snapshots[i - 1]
              b == snapshots[i]
          IN  \/ b.action = "update" /\ a.status = b.status /\ a.content # b.content
              \/ b.action = "status" /\ a.content = b.content /\ a.status # b.status
=============================================================================
