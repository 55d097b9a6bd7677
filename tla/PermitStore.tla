---------------------------- MODULE PermitStore -----------------------------
(***************************************************************************)
(* SQLitePermitConsumptionStore: the durable store of consumed permit ids  *)
(* shared by every gateway process of a deployment.  One consume_once call *)
(* is a process that opens its own connection and runs                     *)
(*     BEGIN IMMEDIATE; INSERT; COMMIT (or ROLLBACK)                       *)
(* and whose process may die between any two of these statements.          *)
(*                                                                         *)
(* row[p] is the durable row of permit p.  The table holds only the id and *)
(* a timestamp; the call that inserted the row is kept as history.  An     *)
(* inserted but uncommitted row is visible only to its transaction: it is  *)
(* the pc value "inserted" of the transaction's owner.                     *)
(***************************************************************************)
CONSTANTS Calls, Permits, NoCall, PermitOf

ASSUME NoCallAssumption == NoCall \notin Calls
ASSUME PermitOfAssumption == PermitOf \in [Calls -> Permits]

VARIABLES pc,      \* the statement each call has completed
          locker,  \* the holder of SQLite's RESERVED lock
          row,     \* durable table: the call whose row it is, or NoCall
          answer   \* what consume_once returned or raised

vars == <<pc, locker, row, answer>>

InTransaction == {"begun", "inserted", "duplicate"}
Running == {"ready", "committed"} \cup InTransaction

TypeOK ==
  /\ pc \in [Calls -> Running \cup {"answered", "crashed"}]
  /\ locker \in Calls \cup {NoCall}
  /\ row \in [Permits -> Calls \cup {NoCall}]
  /\ answer \in [Calls -> {"none", "true", "false", "error", "crashed"}]

Init == /\ pc = [c \in Calls |-> "ready"]
        /\ locker = NoCall
        /\ row = [p \in Permits |-> NoCall]
        /\ answer = [c \in Calls |-> "none"]

-----------------------------------------------------------------------------
Goto(c, s) == pc' = [pc EXCEPT ![c] = s]

Finish(c, a) == /\ Goto(c, "answered")
                /\ answer' = [answer EXCEPT ![c] = a]

\* A transaction that ends, or whose process dies, gives up its lock.
Unlock(c) == locker' = IF locker = c THEN NoCall ELSE locker

\* BEGIN IMMEDIATE takes the write lock at once.
Begin(c) == /\ pc[c] = "ready"
            /\ locker = NoCall
            /\ locker' = c
            /\ Goto(c, "begun")
            /\ UNCHANGED <<row, answer>>

\* Variant: answers True as soon as the INSERT went through.
InsertAnswers(c) == /\ pc[c] = "begun"
                    /\ row[PermitOf[c]] = NoCall
                    /\ Goto(c, "inserted")
                    /\ answer' = [answer EXCEPT ![c] = "true"]
                    /\ UNCHANGED <<locker, row>>

\* Variant: the permit id is no PRIMARY KEY, so that no INSERT is refused.
InsertUnkeyed(c) == /\ pc[c] = "begun"
                    /\ Goto(c, "inserted")
                    /\ UNCHANGED <<locker, row, answer>>

\* INSERT of a new primary key, not yet committed.
Insert(c) == /\ pc[c] = "begun"
             /\ row[PermitOf[c]] = NoCall
             /\ Goto(c, "inserted")
             /\ UNCHANGED <<locker, row, answer>>

\* Variant: an existing key is taken for contention, and the call starts over.
DuplicateRetries(c) == /\ pc[c] = "begun"
                       /\ row[PermitOf[c]] # NoCall
                       /\ Unlock(c)
                       /\ Goto(c, "ready")
                       /\ UNCHANGED <<row, answer>>

\* INSERT of an existing primary key: sqlite3.IntegrityError.
Duplicate(c) == /\ pc[c] = "begun"
                /\ row[PermitOf[c]] # NoCall
                /\ Goto(c, "duplicate")
                /\ UNCHANGED <<locker, row, answer>>

\* Variant: the except branch falls through and returns None.
RollbackFallsThrough(c) == /\ pc[c] = "duplicate"
                           /\ Unlock(c)
                           /\ Finish(c, "null")
                           /\ UNCHANGED row

\* The except branch: ROLLBACK and return False.
Rollback(c) == /\ pc[c] = "duplicate"
               /\ Unlock(c)
               /\ Finish(c, "false")
               /\ UNCHANGED row

\* COMMIT makes the row durable and releases the lock ...
Commit(c) == /\ pc[c] = "inserted"
             /\ row' = [row EXCEPT ![PermitOf[c]] = c]
             /\ Unlock(c)
             /\ Goto(c, "committed")
             /\ UNCHANGED answer

\* ... and only then does the caller learn that the permit is its own.
Return(c) == /\ pc[c] = "committed"
             /\ Finish(c, "true")
             /\ UNCHANGED <<locker, row>>

\* Connecting or BEGIN fails, for instance because the lock stayed taken for
\* the whole busy_timeout; or a statement inside the transaction does, and the
\* connection's context manager rolls back.
StatementFails(c) == /\ pc[c] \in {"ready"} \cup InTransaction
                     /\ Unlock(c)
                     /\ Finish(c, "error")
                     /\ UNCHANGED row

\* The calling process dies: SQLite drops its lock and its uncommitted row.
Crash(c) == /\ pc[c] \in Running
            /\ Goto(c, "crashed")
            /\ answer' = [answer EXCEPT ![c] = "crashed"]
            /\ Unlock(c)
            /\ UNCHANGED row

-----------------------------------------------------------------------------
Step(c) == \/ Begin(c)
           \/ Insert(c) \/ Duplicate(c)
           \/ Commit(c) \/ Return(c) \/ Rollback(c)
           \/ StatementFails(c)

Next == \E c \in Calls : Step(c) \/ Crash(c)

Spec == Init /\ [][Next]_vars

\* A live process keeps executing its statements, and SQLite answers each
\* within the busy timeout.
FairSpec == Spec /\ \A c \in Calls : WF_vars(Step(c))

-----------------------------------------------------------------------------
\* However the calls interleave, fail and crash, consume_once answers True to
\* at most one of the calls that present a permit id
\* (PermitConsumptionStore.consume_once, "True exactly once").
TrueAtMostOnce ==
  \A c, d \in Calls :
    /\ answer[c] = "true"
    /\ answer[d] = "true"
    /\ PermitOf[c] = PermitOf[d]
    => c = d

\* The transaction implements the promise of the Protocol class.
Promise == INSTANCE PermitClaims WITH owner <- row
ImplementsPromise == Promise!Spec

\* Contention, a dead lock holder or a failing statement never leaves a
\* consume_once call waiting for ever: each call ends with an answer.
EveryCallAnswered == \A c \in Calls : <>(answer[c] # "none")

\* The inductive invariant: only the lock holder is inside a transaction, and
\* the row of a permit is the one its owner committed.
StoreInv ==
  /\ \A c \in Calls : pc[c] \in InTransaction <=> locker = c
  /\ \A c \in Calls : answer[c] = "none" <=> pc[c] \in Running
  /\ \A c \in Calls : pc[c] = "inserted" => row[PermitOf[c]] = NoCall
  /\ \A c \in Calls : pc[c] = "duplicate" => row[PermitOf[c]] \notin {NoCall, c}
  /\ \A c \in Calls : pc[c] = "committed" => row[PermitOf[c]] = c
  /\ \A c \in Calls : answer[c] = "true" => row[PermitOf[c]] = c
  /\ \A c \in Calls : answer[c] = "false" => row[PermitOf[c]] \notin {NoCall, c}
  /\ \A c \in Calls : pc[c] \in {"ready", "begun"} => row[PermitOf[c]] # c
=============================================================================
