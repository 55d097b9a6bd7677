----------------------------- MODULE ReceiptLog -----------------------------
(***************************************************************************)
(* The receipt log of the runtime HTTP service: a file of hash-chained     *)
(* lines, appended to by the threads of ThreadingHTTPServer without a lock. *)
(* A request is one POST, which records what it is given, replays an       *)
(* earlier receipt, or calls a remote function:                            *)
(*                                                                         *)
(*   Verify  replay_receipt walks the log up to the target                 *)
(*   Call    the remote function is called                                 *)
(*   Chain   _last_hash reads the log                                      *)
(*   Append  the line is written and flushed to the operating system       *)
(*   Sync    fsync returns, and the request is answered                    *)
(*                                                                         *)
(* A digest covers the previous digest, the record and the moment, so it   *)
(* stands for all that came before: it is the sequence of the requests     *)
(* chained up to it, and <<>> is the None before the first.  Envelopes of  *)
(* different requests differ, in the record or in the microsecond.         *)
(*                                                                         *)
(* The file is a sequence of writes.  One that was cut short is "torn", or *)
(* "bare" if just its line feed is missing; what is written after either   *)
(* ends up on the same line.                                               *)
(***************************************************************************)
EXTENDS Values, Naturals, Sequences

CONSTANTS
  Requests,   \* requests, each with an envelope of its own
  MaxCrashes  \* bound on restarts of the service

ASSUME NoneAssumption == None \notin Requests
ASSUME BoundAssumption == MaxCrashes \in Nat

VARIABLES
  log,       \* what has been written to the file, in order
  durable,   \* how many of those writes would survive a crash
  pc,        \* where each request is
  kind,      \* what it asks for
  target,    \* the receipt_ref to be replayed
  previous,  \* the digest _last_hash returned to it
  crashes,   \* restarts so far
  called,    \* history: requests whose remote function took effect
  overlap    \* history: two requests were between Chain and Append at once

requestVars == <<pc, kind, target, previous>>
vars == <<log, durable, requestVars, crashes, called, overlap>>

Kinds == {"record", "replay", "http"}
Live == {"verifying", "calling", "chaining", "appending", "syncing"}

Writes == [part : {"whole", "bare", "torn"}, hash : Seq(Requests),
           previous_hash : Seq(Requests), record : Requests]

TypeOK ==
  /\ log \in Seq(Writes)
  /\ durable \in 0..Len(log)
  /\ pc \in [Requests -> Live \cup {"idle", "refused", "answered", "failed",
                                    "lost"}]
  /\ kind \in [Requests -> Kinds \cup {None}]
  /\ target \in [Requests -> Seq(Requests \cup {None})]
  /\ previous \in [Requests -> Seq(Requests)]
  /\ crashes \in 0..MaxCrashes
  /\ called \subseteq Requests
  /\ overlap \in BOOLEAN

Init ==
  /\ log = <<>>
  /\ durable = 0
  /\ pc = [r \in Requests |-> "idle"]
  /\ kind = [r \in Requests |-> None]
  /\ target = [r \in Requests |-> <<>>]
  /\ previous = [r \in Requests |-> <<>>]
  /\ crashes = 0
  /\ called = {}
  /\ overlap = FALSE

-----------------------------------------------------------------------------
Goto(r, s) == pc' = [pc EXCEPT ![r] = s]

Digest(hash, r) == Append(hash, r)

Envelope(r, part) ==
  [part |-> part, hash |-> Digest(previous[r], r),
   previous_hash |-> previous[r], record |-> r]

\* Every line parses: only the last write can have come without its line feed.
Readable ==
  \A i \in 1..Len(log) : \/ log[i].part = "whole"
                         \/ log[i].part = "bare" /\ i = Len(log)

\* Variant: the last hash is remembered once fsync has returned.
LastSyncedHash == IF durable = 0 THEN <<>> ELSE log[durable].hash

LastHash == IF log = <<>> THEN <<>> ELSE log[Len(log)].hash

\* Line i is intact and continues the line before it.
Linked(i) ==
  /\ log[i].hash = Digest(log[i].previous_hash, log[i].record)
  /\ log[i].previous_hash = IF i = 1 THEN <<>> ELSE log[i - 1].hash

\* Variant: the walk goes on to the end of the log before it answers.
VerifiedToTheEnd(ref) ==
  /\ Readable
  /\ \E n \in 1..Len(log) : log[n].hash = ref
  /\ \A i \in 1..Len(log) : Linked(i)

\* Variant: the walk looks at the target alone.
VerifiedAlone(ref) ==
  /\ Readable
  /\ \E n \in 1..Len(log) :
       /\ log[n].hash = ref
       /\ log[n].hash = Digest(log[n].previous_hash, log[n].record)

\* replay_receipt finds ref, and nothing is broken up to it.
Verified(ref) ==
  /\ Readable
  /\ \E n \in 1..Len(log) : /\ log[n].hash = ref
                            /\ \A i \in 1..n : Linked(i)

\* A ref a client may send: one that operator_state lists, or any other.
Targets == {log[i].hash : i \in 1..Len(log)} \cup {<<None>>}

-----------------------------------------------------------------------------
\* No authorization, no such function, no record: nothing is read or called.
Refuse(r) ==
  /\ pc[r] = "idle"
  /\ Goto(r, "refused")
  /\ UNCHANGED <<log, durable, kind, target, previous, crashes, called,
                 overlap>>

Receive(r, k, t) ==
  /\ pc[r] = "idle"
  /\ kind' = [kind EXCEPT ![r] = k]
  /\ target' = [target EXCEPT ![r] = t]
  /\ Goto(r, CASE k = "record" -> "chaining"
               [] k = "replay" -> "verifying"
               [] k = "http"   -> "calling")
  /\ UNCHANGED <<log, durable, previous, crashes, called, overlap>>

Verify(r) ==
  /\ pc[r] = "verifying"
  /\ Goto(r, IF Verified(target[r]) THEN "chaining" ELSE "failed")
  /\ UNCHANGED <<log, durable, kind, target, previous, crashes, called,
                 overlap>>

\* Variant: what the remote function answered is not looked at.
CallUnread(r) ==
  /\ pc[r] = "calling"
  /\ called' \in {called, called \cup {r}}
  /\ Goto(r, "chaining")
  /\ UNCHANGED <<log, durable, kind, target, previous, crashes, overlap>>

\* The remote function reports that it committed its effect.
Call(r) ==
  /\ pc[r] = "calling"
  /\ called' = called \cup {r}
  /\ Goto(r, "chaining")
  /\ UNCHANGED <<log, durable, kind, target, previous, crashes, overlap>>

\* No answer in time, or not one that reports an effect with a receipt: the
\* effect may have happened all the same.
CallFails(r) ==
  /\ pc[r] = "calling"
  /\ called' \in {called, called \cup {r}}
  /\ Goto(r, "failed")
  /\ UNCHANGED <<log, durable, kind, target, previous, crashes, overlap>>

Chain(r) ==
  /\ pc[r] = "chaining" /\ Readable
  /\ previous' = [previous EXCEPT ![r] = LastHash]
  /\ overlap' = (overlap \/ \E q \in Requests : pc[q] = "appending")
  /\ Goto(r, "appending")
  /\ UNCHANGED <<log, durable, kind, target, crashes, called>>

\* A line does not parse, the file cannot be read, or a line that is just
\* being written is seen in part.
ReadFails(r) ==
  /\ pc[r] \in {"verifying", "chaining"}
  /\ Goto(r, "failed")
  /\ UNCHANGED <<log, durable, kind, target, previous, crashes, called,
                 overlap>>

\* Variant: the file is opened for writing rather than for appending.
Overwrite(r) ==
  /\ pc[r] = "appending"
  /\ log' = <<Envelope(r, "whole")>>
  /\ Goto(r, "syncing")
  /\ UNCHANGED <<durable, kind, target, previous, crashes, called, overlap>>

Write(r) ==
  /\ pc[r] = "appending"
  /\ log' = Append(log, Envelope(r, "whole"))
  /\ Goto(r, "syncing")
  /\ UNCHANGED <<durable, kind, target, previous, crashes, called, overlap>>

\* open, write or flush raises, after some of the line or none of it.
WriteFails(r) ==
  /\ pc[r] = "appending"
  /\ \/ UNCHANGED log
     \/ \E part \in {"torn", "bare", "whole"} :
          log' = Append(log, Envelope(r, part))
  /\ Goto(r, "failed")
  /\ UNCHANGED <<durable, kind, target, previous, crashes, called, overlap>>

\* Variant: without fsync.
Flush(r) ==
  /\ pc[r] = "syncing"
  /\ Goto(r, "answered")
  /\ UNCHANGED <<log, durable, kind, target, previous, crashes, called,
                 overlap>>

Sync(r) ==
  /\ pc[r] = "syncing"
  /\ durable' = Len(log)
  /\ Goto(r, "answered")
  /\ UNCHANGED <<log, kind, target, previous, crashes, called, overlap>>

SyncFails(r) ==
  /\ pc[r] = "syncing"
  /\ Goto(r, "failed")
  /\ UNCHANGED <<log, durable, kind, target, previous, crashes, called,
                 overlap>>

\* The first n writes survive a crash, the next one perhaps in part.
Survives(n, rest) ==
  \/ log' = SubSeq(log, 1, n) /\ rest = "none"
  \/ /\ n < Len(log)
     /\ \/ rest = "torn"
        \/ rest = "bare" /\ log[n + 1].part = "whole"
     /\ log' = Append(SubSeq(log, 1, n), [log[n + 1] EXCEPT !.part = rest])

\* The host dies and restarts: what fsync covered is there, of the rest a
\* prefix.  That a process alone died is the case in which all of it is.
Crash ==
  /\ crashes < MaxCrashes
  /\ crashes' = crashes + 1
  /\ \E n \in durable..Len(log), rest \in {"none", "torn", "bare"} :
       Survives(n, rest)
  /\ durable' = Len(log')
  /\ pc' = [r \in Requests |-> IF pc[r] \in Live THEN "lost" ELSE pc[r]]
  /\ UNCHANGED <<kind, target, previous, called, overlap>>

Next ==
  \/ \E r \in Requests :
       \/ \E k \in Kinds \ {"replay"} : Receive(r, k, <<>>)
       \/ \E t \in Targets : Receive(r, "replay", t)
       \/ Refuse(r) \/ Verify(r) \/ Call(r) \/ CallFails(r) \/ Chain(r)
       \/ ReadFails(r) \/ Write(r) \/ WriteFails(r) \/ Sync(r) \/ SyncFails(r)
  \/ Crash

Spec == Init /\ [][Next]_vars

-----------------------------------------------------------------------------
Answered == {r \in Requests : pc[r] = "answered"}

\* The receipt_ref a request is answered with.
Ref(r) == Digest(previous[r], r)

\* Write i of the log is the whole receipt of r.
ReceiptAt(i, r) == log[i] = Envelope(r, "whole")

\* What a receipt_ref was given out for is in the file, in one piece and under
\* that digest, for ever: whatever other threads append and wherever the host
\* crashes (test_receipts_are_append_only_hash_chained).  That all of the file
\* can still be parsed is not said: the code does not provide it.
AnsweredIsKept ==
  \A r \in Answered : \E i \in 1..durable : ReceiptAt(i, r)

\* The receipt of a replay is evidence about its source: it comes after it in
\* the log, and all before the source is one unbroken chain to this day.
ReplayFollowsSource ==
  \A r \in Answered :
    kind[r] = "replay" =>
      \E j \in 1..durable :
        /\ ReceiptAt(j, r)
        /\ \E i \in 1..(j - 1) :
             log[i].hash = target[r] /\ \A k \in 1..i : Linked(k)

\* A receipt that says a remote function succeeded follows an effect of it.
ReceiptFollowsEffect ==
  \A i \in 1..Len(log) :
    kind[log[i].record] = "http" => log[i].record \in called

\* The hash chain of a log that can be read forks only if two requests
\* overlapped between reading the last hash and writing the line.
ForksOnlyOnOverlap ==
  Readable /\ ~overlap => \A i \in 1..Len(log) : Linked(i)

\* As long as the log can be read, what replay says of a receipt that was
\* handed out never changes: a later fork, failure or crash takes back no
\* verification, and a receipt behind a fork never becomes verifiable.
VerdictIsStable ==
  [][\A r \in Answered :
       Readable /\ Readable' => (Verified(Ref(r)) <=> Verified(Ref(r))')]_vars
=============================================================================
