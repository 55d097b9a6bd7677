------------------------- MODULE ReceiptLog_proofs -------------------------
(***************************************************************************)
(* A receipt that was handed out stays in the log, and a receipt for a     *)
(* replay stays behind its intact source; a receipt for a remote function  *)
(* follows an effect of it; verdicts are stable, and the chain forks only  *)
(* on overlaps.  For any number of requests and crashes, whatever fails.   *)
(* At the end, the two answers of the service that change nothing: what    *)
(* evaluate decides and discover ranks, for every input.                   *)
(***************************************************************************)
EXTENDS ReceiptLog, GrantDecision, FiniteSetTheorems, WellFoundedInduction,
        TLAPS

LEMMA WriteType ==
  ASSUME TypeOK, NEW i \in 1..Len(log)
  PROVE  log[i].hash \in Seq(Requests) /\ log[i].record \in Requests
<1>1. log[i] \in Writes BY DEF TypeOK
<1> QED BY <1>1 DEF Writes

LEMMA EnvelopeType ==
  ASSUME TypeOK, NEW r \in Requests, NEW part \in {"whole", "bare", "torn"}
  PROVE  Envelope(r, part) \in Writes
<1>1. previous[r] \in Seq(Requests) BY DEF TypeOK
<1>2. Digest(previous[r], r) \in Seq(Requests) BY <1>1 DEF Digest
<1> QED BY <1>1, <1>2 DEF Envelope, Writes

\* What a crash leaves: at least the durable part, as it was.
LEMMA CrashKeepsPrefix ==
  ASSUME TypeOK, Crash
  PROVE  /\ log' \in Seq(Writes)
         /\ durable <= Len(log') /\ durable' = Len(log')
         /\ \A i \in 1..durable : log'[i] = log[i]
<1>1. PICK n \in durable..Len(log), rest \in {"none", "torn", "bare"} :
        Survives(n, rest)
  BY DEF Crash
<1>2. log \in Seq(Writes) /\ durable \in 0..Len(log) BY DEF TypeOK
<1>3. n \in Nat /\ durable <= n /\ n <= Len(log) BY <1>1, <1>2
<1>4. /\ SubSeq(log, 1, n) \in Seq(Writes)
      /\ Len(SubSeq(log, 1, n)) = n
      /\ \A i \in 1..n : SubSeq(log, 1, n)[i] = log[i]
  BY <1>2, <1>3
<1>5. CASE log' = SubSeq(log, 1, n)
  BY <1>2, <1>3, <1>4, <1>5 DEF Crash
<1>6. CASE /\ n < Len(log) /\ rest \in {"torn", "bare"}
           /\ log' = Append(SubSeq(log, 1, n), [log[n + 1] EXCEPT !.part = rest])
  <2>1. log[n + 1] \in Writes BY <1>2, <1>3, <1>6
  <2>2. [log[n + 1] EXCEPT !.part = rest] \in Writes
    BY <1>6, <2>1 DEF Writes
  <2>3. /\ log' \in Seq(Writes) /\ Len(log') = n + 1
        /\ \A i \in 1..n : log'[i] = log[i]
    BY <1>3, <1>4, <1>6, <2>2
  <2> QED BY <1>2, <1>3, <2>3 DEF Crash
<1> QED BY <1>1, <1>5, <1>6 DEF Survives

\* Type correctness of the service and its file, for any requests.
THEOREM LogTypeOK == Spec => []TypeOK
<1>1. ASSUME Init PROVE TypeOK
  <2>1. <<>> \in Seq(Writes) /\ <<>> \in Seq(Requests)
          /\ <<>> \in Seq(Requests \cup {None})
    OBVIOUS
  <2>2. log \in Seq(Writes) /\ durable \in 0..Len(log)
    <3>1. log = <<>> /\ durable = 0 BY <1>1 DEF Init
    <3>2. Len(<<>>) = 0 OBVIOUS
    <3> QED BY <2>1, <3>1, <3>2
  <2>3. /\ target \in [Requests -> Seq(Requests \cup {None})]
        /\ previous \in [Requests -> Seq(Requests)]
    BY <1>1, <2>1 DEF Init
  <2>4. /\ pc \in [Requests -> Live \cup {"idle", "refused", "answered",
                                         "failed", "lost"}]
        /\ kind \in [Requests -> Kinds \cup {None}]
    BY <1>1 DEF Init
  <2>5. crashes \in 0..MaxCrashes /\ called \subseteq Requests
    BY <1>1, BoundAssumption DEF Init
  <2>6. overlap \in BOOLEAN BY <1>1 DEF Init
  <2> QED BY <2>2, <2>3, <2>4, <2>5, <2>6 DEF TypeOK
<1>2. TypeOK /\ [Next]_vars => TypeOK'
  <2> SUFFICES ASSUME TypeOK, [Next]_vars PROVE TypeOK'
    OBVIOUS
  <2> USE DEF TypeOK, Goto, Live, Kinds
  <2>1. ASSUME NEW r \in Requests, NEW k \in Kinds \ {"replay"},
               Receive(r, k, <<>>)
        PROVE  TypeOK'
    BY <2>1 DEF Receive
  <2>2. ASSUME NEW r \in Requests, NEW t \in Targets, Receive(r, "replay", t)
        PROVE  TypeOK'
    <3>1. t \in Seq(Requests \cup {None})
      <4>1. CASE t = <<None>> BY <4>1
      <4>2. CASE t # <<None>>
        <5>1. PICK i \in 1..Len(log) : t = log[i].hash BY <4>2 DEF Targets
        <5>2. t \in Seq(Requests) BY <5>1, WriteType
        <5> QED BY <5>2
      <4> QED BY <4>1, <4>2
    <3> QED BY <2>2, <3>1 DEF Receive
  <2>3. ASSUME NEW r \in Requests,
               Refuse(r) \/ Verify(r) \/ Call(r) \/ CallFails(r)
                 \/ ReadFails(r) \/ SyncFails(r)
        PROVE  TypeOK'
    BY <2>3 DEF Refuse, Verify, Call, CallFails, ReadFails, SyncFails
  <2>4. ASSUME NEW r \in Requests, Chain(r) PROVE TypeOK'
    <3>1. log # <<>> => Len(log) \in 1..Len(log) OBVIOUS
    <3>2. log # <<>> => log[Len(log)].hash \in Seq(Requests)
      BY <3>1, WriteType
    <3>3. LastHash \in Seq(Requests) BY <3>2 DEF LastHash
    <3> QED BY <2>4, <3>3 DEF Chain
  <2>5. ASSUME NEW r \in Requests, Write(r) \/ WriteFails(r) PROVE TypeOK'
    <3>1. \A part \in {"whole", "bare", "torn"} :
            /\ Append(log, Envelope(r, part)) \in Seq(Writes)
            /\ Len(Append(log, Envelope(r, part))) = Len(log) + 1
      BY EnvelopeType
    <3>2. log' \in Seq(Writes) /\ Len(log') \in {Len(log), Len(log) + 1}
      BY <2>5, <3>1 DEF Write, WriteFails
    <3>3. log' \in Seq(Writes) /\ durable' \in 0..Len(log')
      BY <2>5, <3>2 DEF Write, WriteFails
    <3>4. pc' \in [Requests -> Live \cup {"idle", "refused", "answered",
                                         "failed", "lost"}]
      BY <2>5 DEF Write, WriteFails
    <3> QED BY <2>5, <3>3, <3>4 DEF Write, WriteFails
  <2>6. ASSUME NEW r \in Requests, Sync(r) PROVE TypeOK'
    BY <2>6 DEF Sync
  <2>7. CASE Crash
    BY <2>7, CrashKeepsPrefix, BoundAssumption DEF Crash
  <2>8. CASE UNCHANGED vars
    BY <2>8 DEF vars, requestVars
  <2> QED BY <2>1, <2>2, <2>3, <2>4, <2>5, <2>6, <2>7, <2>8 DEF Next
<1> QED BY <1>1, <1>2, PTL DEF Spec

-----------------------------------------------------------------------------
\* The source a request replays is among the first n writes, behind an
\* unbroken chain.
SourceIn(r, n) ==
  \E i \in 1..n : log[i].hash = target[r] /\ \A k \in 1..i : Linked(k)

\* The receipt of a request is among the first n writes, behind its source if
\* it is one for a replay.
RecordedIn(r, n) ==
  \E j \in 1..n : /\ ReceiptAt(j, r)
                  /\ kind[r] = "replay" => SourceIn(r, j - 1)

KeptInv ==
  /\ \A r \in Requests : pc[r] = "calling" => kind[r] = "http"
  /\ \A r \in Requests :
       pc[r] \in {"chaining", "appending"} /\ kind[r] = "replay"
         => SourceIn(r, Len(log))
  /\ \A r \in Requests : pc[r] = "syncing" => RecordedIn(r, Len(log))
  /\ \A r \in Answered : RecordedIn(r, durable)

\* Both facts are about a prefix of the log: they survive as long as it does.
LEMMA SourceKept ==
  ASSUME NEW r, NEW n \in Nat, NEW m \in Nat, n <= m, SourceIn(r, n),
         \A i \in 1..n : log'[i] = log[i], target'[r] = target[r]
  PROVE  SourceIn(r, m)'
<1>1. PICK i \in 1..n : log[i].hash = target[r] /\ \A k \in 1..i : Linked(k)
  BY DEF SourceIn
<1>2. ASSUME NEW k \in 1..i PROVE Linked(k)'
  <2>1. log'[k] = log[k] /\ (k # 1 => log'[k - 1] = log[k - 1])
    OBVIOUS
  <2> QED BY <1>1, <2>1 DEF Linked, Digest
<1>3. i \in 1..m /\ log'[i].hash = target'[r] BY <1>1
<1> QED BY <1>2, <1>3 DEF SourceIn

LEMMA RecordedKept ==
  ASSUME NEW r, NEW n \in Nat, NEW m \in Nat, n <= m, RecordedIn(r, n),
         \A i \in 1..n : log'[i] = log[i], target'[r] = target[r],
         kind'[r] = kind[r], previous'[r] = previous[r]
  PROVE  RecordedIn(r, m)'
<1>1. PICK j \in 1..n : /\ ReceiptAt(j, r)
                        /\ kind[r] = "replay" => SourceIn(r, j - 1)
  BY DEF RecordedIn
<1>2. ReceiptAt(j, r)' BY <1>1 DEF ReceiptAt, Envelope, Digest
<1>3. kind'[r] = "replay" => SourceIn(r, j - 1)'
  <2>1. j - 1 \in Nat /\ \A i \in 1..(j - 1) : log'[i] = log[i] OBVIOUS
  <2> QED BY <1>1, <2>1, SourceKept
<1>4. j \in 1..m OBVIOUS
<1> QED BY <1>2, <1>3, <1>4 DEF RecordedIn

\* Every step preserves KeptInv.
LEMMA KeptInvStep == TypeOK /\ TypeOK' /\ KeptInv /\ [Next]_vars => KeptInv'
<1> SUFFICES ASSUME TypeOK, TypeOK', KeptInv, [Next]_vars PROVE KeptInv'
  OBVIOUS
<1>0. /\ Len(log) \in Nat /\ durable \in Nat /\ durable <= Len(log)
      /\ Len(log') \in Nat
  BY DEF TypeOK
\* A step that leaves the log alone and moves one request on.
<1>1. ASSUME NEW r \in Requests,
             UNCHANGED <<log, durable>>,
             \A x \in Requests : x # r => /\ pc'[x] = pc[x]
                                          /\ kind'[x] = kind[x]
                                          /\ target'[x] = target[x]
                                          /\ previous'[x] = previous[x],
             pc'[r] = "calling" => kind'[r] = "http",
             pc'[r] \in {"chaining", "appending"} /\ kind'[r] = "replay"
               => SourceIn(r, Len(log))',
             pc'[r] \notin {"syncing", "answered"}
      PROVE  KeptInv'
  <2>1. \A i \in 1..Len(log) : log'[i] = log[i] BY <1>1
  <2>2. ASSUME NEW x \in Requests, x # r,
               pc'[x] \in {"chaining", "appending"}, kind'[x] = "replay"
        PROVE  SourceIn(x, Len(log))'
    <3>1. SourceIn(x, Len(log)) BY <1>1, <2>2 DEF KeptInv
    <3> QED BY <1>0, <1>1, <2>1, <2>2, <3>1, SourceKept
  <2>3. ASSUME NEW x \in Requests, pc'[x] = "syncing"
        PROVE  RecordedIn(x, Len(log))'
    <3>1. x # r /\ RecordedIn(x, Len(log)) BY <1>1, <2>3 DEF KeptInv
    <3> QED BY <1>0, <1>1, <2>1, <3>1, RecordedKept
  <2>4. ASSUME NEW x \in Answered' PROVE RecordedIn(x, durable)'
    <3>1. x \in Requests /\ x # r /\ RecordedIn(x, durable)
      BY <1>1, <2>4 DEF KeptInv, Answered
    <3> QED BY <1>0, <1>1, <2>1, <3>1, RecordedKept
  <2>5. \A x \in Requests : pc'[x] = "calling" => kind'[x] = "http"
    BY <1>1 DEF KeptInv
  <2>6. Len(log') = Len(log) BY <1>1
  <2> QED BY <1>1, <2>2, <2>3, <2>4, <2>5, <2>6 DEF KeptInv
<1>2. ASSUME NEW r \in Requests, Refuse(r) \/ CallFails(r) \/ ReadFails(r)
                                   \/ SyncFails(r)
      PROVE  KeptInv'
  BY <1>1, <1>2 DEF Refuse, CallFails, ReadFails, SyncFails, Goto, TypeOK
<1>3. ASSUME NEW r \in Requests, NEW k \in Kinds, NEW t,
             Receive(r, k, t)
      PROVE  KeptInv'
  BY <1>1, <1>3 DEF Receive, Goto, TypeOK, Kinds
<1>4. ASSUME NEW r \in Requests, Verify(r) PROVE KeptInv'
  <2>1. ASSUME Verified(target[r]) PROVE SourceIn(r, Len(log))'
    <3>1. SourceIn(r, Len(log)) BY <2>1 DEF Verified, SourceIn
    <3> QED BY <1>0, <1>4, <3>1, SourceKept DEF Verify
  <2> QED BY <1>1, <1>4, <2>1 DEF Verify, Goto, TypeOK
<1>5. ASSUME NEW r \in Requests, Call(r) PROVE KeptInv'
  BY <1>1, <1>5 DEF Call, Goto, TypeOK, KeptInv
<1>6. ASSUME NEW r \in Requests, Chain(r) PROVE KeptInv'
  <2>1. ASSUME kind[r] = "replay" PROVE SourceIn(r, Len(log))'
    <3>1. SourceIn(r, Len(log)) BY <1>6, <2>1 DEF Chain, KeptInv
    <3> QED BY <1>0, <1>6, <3>1, SourceKept DEF Chain
  <2> QED BY <1>1, <1>6, <2>1 DEF Chain, Goto, TypeOK
<1>7. ASSUME NEW r \in Requests, Write(r) \/ WriteFails(r) PROVE KeptInv'
  <2>1. /\ Len(log) <= Len(log') /\ durable' = durable
        /\ \A i \in 1..Len(log) : log'[i] = log[i]
        /\ UNCHANGED <<kind, target, previous>>
        /\ \A x \in Requests : x # r => pc'[x] = pc[x]
        /\ pc'[r] \in {"syncing", "failed"}
    <3>1. /\ log \in Seq(Writes)
          /\ \/ log' = log
             \/ \E part \in {"whole", "bare", "torn"} :
                  log' = Append(log, Envelope(r, part))
      BY <1>7 DEF Write, WriteFails, TypeOK
    <3>2. ASSUME NEW part \in {"whole", "bare", "torn"},
                 log' = Append(log, Envelope(r, part))
          PROVE  /\ Len(log) <= Len(log')
                 /\ \A i \in 1..Len(log) : log'[i] = log[i]
      BY <3>1, <3>2, EnvelopeType
    <3>3. /\ Len(log) <= Len(log')
          /\ \A i \in 1..Len(log) : log'[i] = log[i]
      BY <1>0, <3>1, <3>2
    <3>4. /\ \A x \in Requests : x # r => pc'[x] = pc[x]
          /\ pc'[r] \in {"syncing", "failed"}
      BY <1>7 DEF Write, WriteFails, Goto, TypeOK
    <3> QED BY <1>7, <3>3, <3>4 DEF Write, WriteFails
  <2>2. ASSUME pc'[r] = "syncing" PROVE RecordedIn(r, Len(log))'
    <3>1. Write(r) BY <1>7, <2>2 DEF WriteFails, Goto, TypeOK
    <3>2. /\ Len(log') = Len(log) + 1
          /\ log'[Len(log) + 1] = Envelope(r, "whole")
      BY <3>1, EnvelopeType DEF Write, TypeOK
    <3>3. Envelope(r, "whole")' = Envelope(r, "whole")
      BY <2>1 DEF Envelope, Digest
    <3>4. ReceiptAt(Len(log), r)'
      BY <3>2, <3>3 DEF ReceiptAt
    <3>5. ASSUME kind'[r] = "replay" PROVE SourceIn(r, Len(log) - 1)'
      <4>1. SourceIn(r, Len(log)) BY <2>1, <3>1, <3>5 DEF Write, KeptInv
      <4>2. Len(log') - 1 = Len(log) BY <1>0, <3>2
      <4> QED BY <1>0, <2>1, <4>1, <4>2, SourceKept
    <3>6. Len(log') \in 1..Len(log') BY <1>0, <3>2
    <3> QED BY <3>4, <3>5, <3>6 DEF RecordedIn
  <2>3. ASSUME NEW x \in Requests, pc'[x] \in {"chaining", "appending"},
               kind'[x] = "replay"
        PROVE  SourceIn(x, Len(log))'
    <3>1. SourceIn(x, Len(log)) BY <2>1, <2>3 DEF KeptInv
    <3> QED BY <1>0, <2>1, <3>1, SourceKept
  <2>4. ASSUME NEW x \in Requests, x # r, pc'[x] = "syncing"
        PROVE  RecordedIn(x, Len(log))'
    <3>1. RecordedIn(x, Len(log)) BY <2>1, <2>4 DEF KeptInv
    <3> QED BY <1>0, <2>1, <3>1, RecordedKept
  <2>5. ASSUME NEW x \in Answered' PROVE RecordedIn(x, durable)'
    <3>1. x \in Requests /\ RecordedIn(x, durable)
      BY <2>1, <2>5 DEF KeptInv, Answered
    <3>2. \A i \in 1..durable : log'[i] = log[i] BY <1>0, <2>1
    <3> QED BY <1>0, <2>1, <3>1, <3>2, RecordedKept
  <2>6. \A x \in Requests : pc'[x] = "calling" => kind'[x] = "http"
    BY <2>1 DEF KeptInv
  <2> QED BY <2>1, <2>2, <2>3, <2>4, <2>5, <2>6 DEF KeptInv
<1>8. ASSUME NEW r \in Requests, Sync(r) PROVE KeptInv'
  <2>1. /\ durable' = Len(log) /\ UNCHANGED <<log, kind, target, previous>>
        /\ \A x \in Requests : x # r => pc'[x] = pc[x]
        /\ pc[r] = "syncing" /\ pc'[r] = "answered"
    BY <1>8 DEF Sync, Goto, TypeOK
  <2>2. \A i \in 1..Len(log) : log'[i] = log[i] BY <2>1
  <2>3. ASSUME NEW x \in Requests, pc'[x] \in {"chaining", "appending"},
               kind'[x] = "replay"
        PROVE  SourceIn(x, Len(log))'
    <3>1. SourceIn(x, Len(log)) BY <2>1, <2>3 DEF KeptInv
    <3> QED BY <1>0, <2>1, <2>2, <3>1, SourceKept
  <2>4. ASSUME NEW x \in Requests, pc'[x] = "syncing"
        PROVE  RecordedIn(x, Len(log))'
    <3>1. RecordedIn(x, Len(log)) BY <2>1, <2>4 DEF KeptInv
    <3> QED BY <1>0, <2>1, <2>2, <3>1, RecordedKept
  <2>5. ASSUME NEW x \in Answered' PROVE RecordedIn(x, durable)'
    <3>1. CASE x = r
      <4>1. RecordedIn(r, Len(log)) BY <2>1 DEF KeptInv
      <4> QED BY <1>0, <2>1, <2>2, <3>1, <4>1, RecordedKept
    <3>2. CASE x # r
      <4>1. x \in Requests /\ RecordedIn(x, durable)
        BY <2>1, <2>5, <3>2 DEF KeptInv, Answered
      <4>2. \A i \in 1..durable : log'[i] = log[i] BY <1>0, <2>2
      <4> QED BY <1>0, <2>1, <4>1, <4>2, RecordedKept
    <3> QED BY <3>1, <3>2
  <2>6. \A x \in Requests : pc'[x] = "calling" => kind'[x] = "http"
    BY <2>1 DEF KeptInv
  <2> QED BY <2>3, <2>4, <2>5, <2>6 DEF KeptInv
<1>9. CASE Crash
  <2>1. /\ durable <= Len(log') /\ durable' = Len(log')
        /\ \A i \in 1..durable : log'[i] = log[i]
    BY <1>9, CrashKeepsPrefix
  <2>2. \A x \in Requests : /\ pc'[x] \notin Live
                            /\ pc'[x] = "answered" => pc[x] = "answered"
    BY <1>9 DEF Crash, Live
  <2>3. ASSUME NEW x \in Answered' PROVE RecordedIn(x, durable)'
    <3>1. x \in Requests /\ RecordedIn(x, durable)
      BY <2>2, <2>3 DEF KeptInv, Answered
    <3> QED BY <1>0, <1>9, <2>1, <3>1, RecordedKept DEF Crash
  <2> QED BY <2>2, <2>3 DEF KeptInv, Live
<1>10. CASE UNCHANGED vars
  <2>1. UNCHANGED <<log, durable, pc, kind, target, previous>>
    BY <1>10 DEF vars, requestVars
  <2>2. \A i \in 1..Len(log) : log'[i] = log[i] BY <2>1
  <2>3. ASSUME NEW x \in Requests, SourceIn(x, Len(log))
        PROVE  SourceIn(x, Len(log))'
    BY <1>0, <2>1, <2>2, <2>3, SourceKept
  <2>4. ASSUME NEW x \in Requests, RecordedIn(x, Len(log))
        PROVE  RecordedIn(x, Len(log))'
    BY <1>0, <2>1, <2>2, <2>4, RecordedKept
  <2>5. ASSUME NEW x \in Requests, RecordedIn(x, durable)
        PROVE  RecordedIn(x, durable)'
    <3>1. \A i \in 1..durable : log'[i] = log[i] BY <1>0, <2>2
    <3> QED BY <1>0, <2>1, <2>5, <3>1, RecordedKept
  <2> QED BY <2>1, <2>3, <2>4, <2>5 DEF KeptInv, Answered
<1> QED BY <1>2, <1>3, <1>4, <1>5, <1>6, <1>7, <1>8, <1>9, <1>10 DEF Next, Kinds

\* Whatever was handed out is recorded, and whoever is about to write holds
\* what it needs: the strengthening the two theorems below rest on.
THEOREM KeptInvariant == Spec => []KeptInv
<1>1. Init => KeptInv
  BY DEF Init, KeptInv, Answered
<1> QED BY <1>1, KeptInvStep, LogTypeOK, PTL DEF Spec

\* A receipt that was handed out is in the durable part of the file, for any
\* number of requests, threads, failures and crashes.
THEOREM ReceiptsAreKept == Spec => []AnsweredIsKept
<1>1. TypeOK /\ KeptInv => AnsweredIsKept
  BY DEF KeptInv, RecordedIn, AnsweredIsKept
<1> QED BY <1>1, KeptInvariant, LogTypeOK, PTL

\* The receipt of a replay stays behind the intact chain up to its source.
THEOREM ReplaysFollowSources == Spec => []ReplayFollowsSource
<1>1. TypeOK /\ KeptInv => ReplayFollowsSource
  BY DEF KeptInv, RecordedIn, SourceIn, ReplayFollowsSource, Answered
<1> QED BY <1>1, KeptInvariant, LogTypeOK, PTL

-----------------------------------------------------------------------------
\* Who has a line in the file.
Written == {log[i].record : i \in 1..Len(log)}

EffectInv ==
  /\ \A r \in Requests : pc[r] = "verifying" => kind[r] = "replay"
  /\ \A r \in Requests :
       pc[r] \in {"chaining", "appending"} /\ kind[r] = "http" => r \in called
  /\ \A r \in Written : pc[r] # "idle" /\ (kind[r] = "http" => r \in called)

\* A write adds one request to those that have a line, a crash adds none.
LEMMA WrittenByWrite ==
  ASSUME TypeOK, NEW r \in Requests, Write(r) \/ WriteFails(r)
  PROVE  Written' \subseteq Written \cup {r}
<1>1. log \in Seq(Writes) BY DEF TypeOK
<1>2. ASSUME NEW part \in {"whole", "bare", "torn"},
             log' = Append(log, Envelope(r, part))
      PROVE  Written' \subseteq Written \cup {r}
  <2>1. Envelope(r, part) \in Writes BY EnvelopeType
  <2>2. Envelope(r, part).record = r BY DEF Envelope
  <2>3. /\ Len(log') = Len(log) + 1
        /\ log'[Len(log) + 1] = Envelope(r, part)
        /\ \A i \in 1..Len(log) : log'[i] = log[i]
    BY <1>1, <1>2, <2>1
  <2>4. ASSUME NEW i \in 1..Len(log')
        PROVE  log'[i].record \in Written \cup {r}
    <3>1. CASE i \in 1..Len(log) BY <2>3, <3>1 DEF Written
    <3>2. CASE i = Len(log) + 1 BY <2>2, <2>3, <3>2
    <3> QED BY <1>1, <2>3, <3>1, <3>2
  <2> QED BY <2>4 DEF Written
<1>3. CASE log' = log BY <1>3 DEF Written
<1> QED BY <1>2, <1>3 DEF Write, WriteFails

LEMMA WrittenByCrash ==
  ASSUME TypeOK, Crash
  PROVE  Written' \subseteq Written
<1>1. PICK n \in durable..Len(log), rest \in {"none", "torn", "bare"} :
        Survives(n, rest)
  BY DEF Crash
<1>2. log \in Seq(Writes) /\ durable \in 0..Len(log) BY DEF TypeOK
<1>3. n \in Nat /\ n <= Len(log) BY <1>1, <1>2
<1>4. /\ SubSeq(log, 1, n) \in Seq(Writes)
      /\ Len(SubSeq(log, 1, n)) = n
      /\ \A i \in 1..n : SubSeq(log, 1, n)[i] = log[i]
  BY <1>2, <1>3
<1>5. CASE log' = SubSeq(log, 1, n)
  BY <1>2, <1>3, <1>4, <1>5 DEF Written
<1>6. CASE /\ n < Len(log) /\ rest \in {"torn", "bare"}
           /\ log' = Append(SubSeq(log, 1, n), [log[n + 1] EXCEPT !.part = rest])
  <2>1. log[n + 1] \in Writes BY <1>2, <1>3, <1>6
  <2>2. /\ [log[n + 1] EXCEPT !.part = rest] \in Writes
        /\ [log[n + 1] EXCEPT !.part = rest].record = log[n + 1].record
    BY <1>6, <2>1 DEF Writes
  <2>3. /\ Len(log') = n + 1
        /\ \A i \in 1..n : log'[i] = log[i]
        /\ log'[n + 1].record = log[n + 1].record
    BY <1>3, <1>4, <1>6, <2>2
  <2>4. ASSUME NEW i \in 1..Len(log') PROVE log'[i].record \in Written
    <3>1. i \in 1..Len(log) /\ log'[i].record = log[i].record
      BY <1>2, <1>3, <1>6, <2>3
    <3> QED BY <3>1 DEF Written
  <2> QED BY <2>4 DEF Written
<1> QED BY <1>1, <1>5, <1>6 DEF Survives

\* Every step preserves EffectInv.
LEMMA EffectInvStep == TypeOK /\ EffectInv /\ [Next]_vars => EffectInv'
<1> SUFFICES ASSUME TypeOK, EffectInv, [Next]_vars PROVE EffectInv'
  OBVIOUS
<1>1. ASSUME NEW r \in Requests,
             \/ Refuse(r) \/ Call(r) \/ CallFails(r) \/ Chain(r)
             \/ ReadFails(r) \/ Sync(r) \/ SyncFails(r)
      PROVE  EffectInv'
  <2>1. log' = log /\ kind' = kind /\ called \subseteq called'
    BY <1>1 DEF Refuse, Call, CallFails, Chain, ReadFails, Sync, SyncFails
  <2>2. Written' = Written BY <2>1 DEF Written
  <2>3. /\ \A x \in Requests : x # r => pc'[x] = pc[x]
        /\ pc'[r] \notin {"idle", "verifying"}
        /\ pc'[r] = "chaining" => r \in called'
        /\ pc'[r] = "appending" => pc[r] = "chaining"
    BY <1>1 DEF Refuse, Call, CallFails, Chain, ReadFails, Sync, SyncFails,
                Goto, TypeOK
  <2>4. Written \subseteq Requests BY WriteType DEF Written
  <2> QED BY <2>1, <2>2, <2>3, <2>4 DEF EffectInv
<1>2. ASSUME NEW r \in Requests, NEW k \in Kinds, NEW t, Receive(r, k, t)
      PROVE  EffectInv'
  <2>1. log' = log /\ called' = called /\ pc[r] = "idle"
    BY <1>2 DEF Receive
  <2>2. Written' = Written BY <2>1 DEF Written
  <2>3. /\ \A x \in Requests : x # r => pc'[x] = pc[x] /\ kind'[x] = kind[x]
        /\ kind'[r] = k
    BY <1>2 DEF Receive, Goto, TypeOK
  <2>4. /\ pc'[r] = "verifying" => k = "replay"
        /\ pc'[r] # "appending" /\ (pc'[r] = "chaining" => k = "record")
    BY <1>2 DEF Receive, Goto, TypeOK, Kinds
  <2>5. Written \subseteq Requests BY WriteType DEF Written
  <2> QED BY <2>1, <2>2, <2>3, <2>4, <2>5 DEF EffectInv
<1>3. ASSUME NEW r \in Requests, Verify(r) PROVE EffectInv'
  <2>1. log' = log /\ kind' = kind /\ called' = called /\ kind[r] = "replay"
    BY <1>3 DEF Verify, EffectInv
  <2>2. Written' = Written BY <2>1 DEF Written
  <2>3. /\ \A x \in Requests : x # r => pc'[x] = pc[x]
        /\ pc'[r] \in {"chaining", "failed"}
    BY <1>3 DEF Verify, Goto, TypeOK
  <2>4. Written \subseteq Requests BY WriteType DEF Written
  <2> QED BY <2>1, <2>2, <2>3, <2>4 DEF EffectInv
<1>4. ASSUME NEW r \in Requests, Write(r) \/ WriteFails(r) PROVE EffectInv'
  <2>1. kind' = kind /\ called' = called /\ pc[r] = "appending"
    BY <1>4 DEF Write, WriteFails
  <2>2. /\ \A x \in Requests : x # r => pc'[x] = pc[x]
        /\ pc'[r] \in {"syncing", "failed"}
    BY <1>4 DEF Write, WriteFails, Goto, TypeOK
  <2>3. Written \subseteq Requests BY WriteType DEF Written
  <2>4. Written' \subseteq Written \cup {r} BY <1>4, WrittenByWrite
  <2> QED BY <2>1, <2>2, <2>3, <2>4 DEF EffectInv
<1>5. CASE Crash
  <2>1. kind' = kind /\ called' = called BY <1>5 DEF Crash
  <2>2. \A x \in Requests : /\ pc'[x] \notin Live
                            /\ pc'[x] = "idle" => pc[x] = "idle"
    BY <1>5 DEF Crash, Live
  <2>3. Written \subseteq Requests BY WriteType DEF Written
  <2>4. Written' \subseteq Written BY <1>5, WrittenByCrash
  <2> QED BY <2>1, <2>2, <2>3, <2>4 DEF EffectInv, Live
<1>6. CASE UNCHANGED vars
  BY <1>6 DEF vars, requestVars, EffectInv, Written
<1> QED BY <1>1, <1>2, <1>3, <1>4, <1>5, <1>6 DEF Next, Kinds

\* No line says a remote function succeeded that had no effect: neither a
\* failed call nor a torn line or a crash brings one about.
THEOREM ReceiptsFollowEffects == Spec => []ReceiptFollowsEffect
<1>1. Init => EffectInv
  <2>1. Len(<<>>) = 0 OBVIOUS
  <2> QED BY <2>1 DEF Init, EffectInv, Written
<1>2. TypeOK /\ EffectInv => ReceiptFollowsEffect
  BY DEF EffectInv, Written, ReceiptFollowsEffect
<1> QED BY <1>1, <1>2, EffectInvStep, LogTypeOK, PTL DEF Spec

-----------------------------------------------------------------------------
\* As long as requests take turns between reading the last hash and writing,
\* whoever is about to write is alone and holds the hash of the last write,
\* and every write, a cut one included, continues the one before it.
TurnInv ==
  ~overlap =>
    /\ \A i \in 1..Len(log) : Linked(i)
    /\ \A q, r \in Requests : pc[q] = "appending" /\ pc[r] = "appending" => q = r
    /\ \A r \in Requests : pc[r] = "appending" => previous[r] = LastHash

LEMMA AppendLinks ==
  ASSUME TypeOK, NEW r \in Requests, NEW part \in {"whole", "bare", "torn"},
         \A i \in 1..Len(log) : Linked(i), previous[r] = LastHash,
         log' = Append(log, Envelope(r, part))
  PROVE  \A i \in 1..Len(log') : Linked(i)'
<1>1. log \in Seq(Writes) /\ Envelope(r, part) \in Writes
  BY EnvelopeType DEF TypeOK
<1>2. /\ Len(log) \in Nat /\ Len(log') = Len(log) + 1
      /\ \A i \in 1..Len(log) : log'[i] = log[i]
      /\ log'[Len(log) + 1] = Envelope(r, part)
  BY <1>1
<1>3. ASSUME NEW i \in 1..Len(log) PROVE Linked(i)'
  <2>1. log'[i] = log[i] /\ (i # 1 => log'[i - 1] = log[i - 1])
    BY <1>2
  <2> QED BY <2>1 DEF Linked, Digest
<1>4. ASSUME NEW i \in Nat, i = Len(log) + 1 PROVE Linked(i)'
  <2>1. LastHash = IF i = 1 THEN <<>> ELSE log'[i - 1].hash
    BY <1>1, <1>2, <1>4 DEF LastHash
  <2>2. /\ Envelope(r, part).hash = Digest(Envelope(r, part).previous_hash,
                                           Envelope(r, part).record)
        /\ Envelope(r, part).previous_hash = LastHash
    BY DEF Envelope
  <2>3. log'[i] = Envelope(r, part) BY <1>2, <1>4
  <2> QED BY <2>1, <2>2, <2>3 DEF Linked, Digest
<1>5. \A i \in 1..Len(log') : i \in 1..Len(log) \/ (i \in Nat /\ i = Len(log) + 1)
  BY <1>2
<1> QED BY <1>3, <1>4, <1>5

LEMMA CrashLinks ==
  ASSUME TypeOK, Crash, \A i \in 1..Len(log) : Linked(i)
  PROVE  \A i \in 1..Len(log') : Linked(i)'
<1>1. PICK n \in durable..Len(log), rest \in {"none", "torn", "bare"} :
        Survives(n, rest)
  BY DEF Crash
<1>2. log \in Seq(Writes) /\ durable \in 0..Len(log) BY DEF TypeOK
<1>3. n \in Nat /\ n <= Len(log) BY <1>1, <1>2
<1>4. /\ SubSeq(log, 1, n) \in Seq(Writes)
      /\ Len(SubSeq(log, 1, n)) = n
      /\ \A i \in 1..n : SubSeq(log, 1, n)[i] = log[i]
  BY <1>2, <1>3
<1>5. \A i \in 1..Len(log') :
        /\ i \in 1..Len(log)
        /\ log'[i].hash = log[i].hash
        /\ log'[i].previous_hash = log[i].previous_hash
        /\ log'[i].record = log[i].record
  <2>1. CASE log' = SubSeq(log, 1, n)
    BY <1>2, <1>3, <1>4, <2>1
  <2>2. CASE /\ n < Len(log) /\ rest \in {"torn", "bare"}
             /\ log' = Append(SubSeq(log, 1, n), [log[n + 1] EXCEPT !.part = rest])
    <3>1. log[n + 1] \in Writes BY <1>2, <1>3, <2>2
    <3>2. [log[n + 1] EXCEPT !.part = rest] \in Writes
      BY <2>2, <3>1 DEF Writes
    <3>3. /\ Len(log') = n + 1 /\ \A i \in 1..n : log'[i] = log[i]
          /\ log'[n + 1] = [log[n + 1] EXCEPT !.part = rest]
      BY <1>3, <1>4, <2>2, <3>2
    <3>4. /\ log'[n + 1].hash = log[n + 1].hash
          /\ log'[n + 1].previous_hash = log[n + 1].previous_hash
          /\ log'[n + 1].record = log[n + 1].record
      BY <3>1, <3>3 DEF Writes
    <3>5. \A i \in 1..(n + 1) : i \in 1..n \/ i = n + 1 BY <1>3
    <3> QED BY <1>2, <1>3, <2>2, <3>3, <3>4, <3>5
  <2> QED BY <1>1, <2>1, <2>2 DEF Survives
<1>6. ASSUME NEW i \in 1..Len(log') PROVE Linked(i)'
  <2>1. i # 1 => i - 1 \in 1..Len(log')
    OBVIOUS
  <2> QED BY <1>5, <2>1 DEF Linked, Digest
<1> QED BY <1>6

LEMMA TurnInvStep == TypeOK /\ TurnInv /\ [Next]_vars => TurnInv'
<1> SUFFICES ASSUME TypeOK, TurnInv, [Next]_vars, ~overlap' PROVE
         /\ \A i \in 1..Len(log') : Linked(i)'
         /\ \A q, r \in Requests :
              pc'[q] = "appending" /\ pc'[r] = "appending" => q = r
         /\ \A r \in Requests : pc'[r] = "appending" => previous'[r] = LastHash'
  BY DEF TurnInv
<1>0. ~overlap
  BY DEF Next, Receive, Refuse, Verify, Call, CallFails, Chain, ReadFails,
         Write, WriteFails, Sync, SyncFails, Crash, vars
<1> USE <1>0 DEF TurnInv
\* A step that writes nothing and lets nobody begin to append.
<1>1. ASSUME UNCHANGED <<log, previous>>,
             \A r \in Requests : pc'[r] = "appending" => pc[r] = "appending"
      PROVE  TurnInv'
  BY <1>1 DEF Linked, LastHash
<1>2. ASSUME NEW r \in Requests,
             \/ \E k \in Kinds, t \in Targets \cup {<<>>} : Receive(r, k, t)
             \/ Refuse(r) \/ Verify(r) \/ Call(r) \/ CallFails(r)
             \/ ReadFails(r) \/ Sync(r) \/ SyncFails(r)
      PROVE  TurnInv'
  <2>1. \A q \in Requests : pc'[q] = "appending" => pc[q] = "appending"
    BY <1>2 DEF TypeOK, Goto, Kinds, Receive, Refuse, Verify, Call, CallFails,
                ReadFails, Sync, SyncFails
  <2>2. UNCHANGED <<log, previous>>
    BY <1>2 DEF Receive, Refuse, Verify, Call, CallFails, ReadFails, Sync,
                SyncFails
  <2> QED BY <1>1, <2>1, <2>2
<1>3. ASSUME NEW r \in Requests, Chain(r) PROVE TurnInv'
  <2>1. \A q \in Requests : pc[q] # "appending"
    BY <1>3 DEF Chain
  <2>2. /\ log' = log /\ previous'[r] = LastHash
        /\ \A q \in Requests : pc'[q] = "appending" => q = r
    BY <1>3, <2>1 DEF Chain, Goto, TypeOK
  <2>3. LastHash' = LastHash BY <2>2 DEF LastHash
  <2>4. \A i \in 1..Len(log') : Linked(i)'
    BY <2>2 DEF Linked
  <2> QED BY <2>2, <2>3, <2>4
<1>4. ASSUME NEW r \in Requests, Write(r) \/ WriteFails(r) PROVE TurnInv'
  <2>1. pc[r] = "appending" /\ previous[r] = LastHash
    BY <1>4 DEF Write, WriteFails
  <2>2. \A q \in Requests : pc'[q] # "appending"
    BY <1>4, <2>1 DEF Write, WriteFails, Goto, TypeOK
  <2>3. \A i \in 1..Len(log') : Linked(i)'
    <3>1. CASE log' = log
      BY <3>1 DEF Linked
    <3>2. CASE \E part \in {"whole", "bare", "torn"} :
                 log' = Append(log, Envelope(r, part))
      BY <2>1, <3>2, AppendLinks
    <3> QED BY <1>4, <3>1, <3>2 DEF Write, WriteFails
  <2> QED BY <2>2, <2>3
<1>5. CASE Crash
  <2>1. \A q \in Requests : pc'[q] # "appending"
    BY <1>5 DEF Crash, Live, TypeOK
  <2> QED BY <1>5, <2>1, CrashLinks
<1>6. CASE UNCHANGED vars
  BY <1>1, <1>6 DEF vars, requestVars
<1> QED
  BY <1>2, <1>3, <1>4, <1>5, <1>6 DEF Next, Kinds

\* The chain forks only if two requests overlapped between _last_hash and the
\* write of the line, whatever fails and wherever the host crashes
\* (RuntimeHTTPService.receipt has no lock).
THEOREM ForksNeedOverlap == Spec => []ForksOnlyOnOverlap
<1>1. Init => TurnInv
  BY DEF Init, TurnInv
<1>2. TurnInv => ForksOnlyOnOverlap
  BY DEF TurnInv, ForksOnlyOnOverlap
<1> QED BY <1>1, <1>2, TurnInvStep, LogTypeOK, PTL DEF Spec

-----------------------------------------------------------------------------
\* What fsync covered is never changed.
LEMMA DurableKept ==
  ASSUME TypeOK, [Next]_vars
  PROVE  /\ Len(log') \in Nat /\ durable \in Nat
         /\ durable <= Len(log') /\ durable <= Len(log)
         /\ \A i \in 1..durable : log'[i] = log[i]
<1>0. log \in Seq(Writes) /\ Len(log) \in Nat /\ durable \in Nat
        /\ durable <= Len(log)
  BY DEF TypeOK
<1>1. CASE log' = log
  BY <1>0, <1>1
<1>2. ASSUME NEW r \in Requests, NEW part \in {"whole", "bare", "torn"},
             log' = Append(log, Envelope(r, part))
      PROVE  durable <= Len(log') /\ Len(log') \in Nat
               /\ \A i \in 1..durable : log'[i] = log[i]
  <2>1. Envelope(r, part) \in Writes BY EnvelopeType
  <2>2. Len(log') = Len(log) + 1 /\ \A i \in 1..Len(log) : log'[i] = log[i]
    BY <1>0, <1>2, <2>1
  <2> QED BY <1>0, <2>2
<1>3. CASE Crash
  <2>1. log' \in Seq(Writes) BY <1>3, CrashKeepsPrefix
  <2> QED BY <1>0, <1>3, <2>1, CrashKeepsPrefix
<1> QED
  BY <1>0, <1>1, <1>2, <1>3 DEF Next, Receive, Refuse, Verify, Call, CallFails,
     Chain, ReadFails, Write, WriteFails, Sync, SyncFails, vars

\* For a digest that is in the first n writes, the walk ends within them.
VerdictFromPrefix ==
  \A ref : \A n \in Nat :
    /\ TypeOK /\ Readable /\ n <= Len(log)
    /\ \E j \in 1..n : log[j].hash = ref
    => (Verified(ref) <=>
          \E i \in 1..n : log[i].hash = ref /\ \A k \in 1..i : Linked(k))

LEMMA WalkEndsInPrefix == VerdictFromPrefix
<1> SUFFICES ASSUME TypeOK, Readable, NEW n \in Nat, n <= Len(log), NEW ref,
                    \E j \in 1..n : log[j].hash = ref
             PROVE  Verified(ref) <=>
                      \E i \in 1..n : /\ log[i].hash = ref
                                      /\ \A k \in 1..i : Linked(k)
  BY DEF VerdictFromPrefix
<1>0. Len(log) \in Nat BY DEF TypeOK
<1>1. PICK j \in 1..n : log[j].hash = ref OBVIOUS
<1>2. ASSUME Verified(ref)
      PROVE  \E i \in 1..n : log[i].hash = ref /\ \A k \in 1..i : Linked(k)
  <2>1. PICK m \in 1..Len(log) : log[m].hash = ref /\ \A i \in 1..m : Linked(i)
    BY <1>2 DEF Verified
  <2>2. CASE m <= n
    BY <1>0, <2>1, <2>2
  <2>3. CASE n < m
    <3>1. \A k \in 1..j : k \in 1..m BY <1>0, <1>1, <2>1, <2>3
    <3> QED BY <1>1, <2>1, <3>1
  <2> QED BY <1>0, <2>2, <2>3
<1>3. ASSUME NEW i \in 1..n, log[i].hash = ref, \A k \in 1..i : Linked(k)
      PROVE  Verified(ref)
  <2>1. i \in 1..Len(log) BY <1>0
  <2> QED BY <1>3, <2>1 DEF Verified
<1> QED BY <1>2, <1>3

LEMMA WalkEndsInPrefixNext == VerdictFromPrefix'
BY WalkEndsInPrefix, PTL

\* As long as the file can be read, the verdict on a receipt that was handed out
\* never changes, whatever is appended, fails or crashes (replay_receipt stops
\* at its target, and a receipt is handed out only after fsync).
THEOREM VerdictsAreStable == Spec => VerdictIsStable
<1>1. TypeOK /\ TypeOK' /\ AnsweredIsKept /\ [Next]_vars =>
        [\A r \in Answered :
           Readable /\ Readable' =>
             (Verified(Ref(r)) <=> Verified(Ref(r))')]_vars
  <2> SUFFICES ASSUME TypeOK, TypeOK', AnsweredIsKept, [Next]_vars,
                      NEW r \in Answered, Readable, Readable'
               PROVE  Verified(Ref(r)) <=> Verified(Ref(r))'
    OBVIOUS
  <2>1. previous'[r] = previous[r]
    BY DEF Next, Receive, Refuse, Verify, Call, CallFails, Chain, ReadFails,
           Write, WriteFails, Sync, SyncFails, Crash, vars, requestVars,
           Answered, TypeOK
  <2>2. PICK ref : ref = Ref(r) OBVIOUS
  <2>3. Ref(r)' = ref BY <2>1, <2>2 DEF Ref, Digest
  <2>4. PICK n \in Nat : n = durable BY DurableKept
  <2>5. \E j \in 1..n : log[j].hash = ref
    <3>1. PICK j \in 1..durable : ReceiptAt(j, r) BY DEF AnsweredIsKept
    <3>2. log[j].hash = ref BY <2>2, <3>1 DEF ReceiptAt, Envelope, Ref
    <3> QED BY <2>4, <3>1, <3>2
  <2>6. /\ n <= Len(log) /\ n <= Len(log')
        /\ \A i \in 1..n : log'[i] = log[i]
    BY <2>4, DurableKept
  <2>7. \A i \in 1..n : Linked(i) <=> Linked(i)'
    <3> SUFFICES ASSUME NEW i \in 1..n PROVE Linked(i) <=> Linked(i)'
      OBVIOUS
    <3>1. log'[i] = log[i] /\ (i # 1 => log'[i - 1] = log[i - 1])
      BY <2>6
    <3> QED BY <3>1 DEF Linked, Digest
  <2>8. Verified(ref) <=>
          \E i \in 1..n : log[i].hash = ref /\ \A k \in 1..i : Linked(k)
    BY <2>5, <2>6, WalkEndsInPrefix DEF VerdictFromPrefix
  <2>9. Verified(ref)' <=>
          \E i \in 1..n : log'[i].hash = ref /\ \A k \in 1..i : Linked(k)'
    <3>1. \E j \in 1..n : log'[j].hash = ref BY <2>5, <2>6
    <3> QED BY <2>6, <3>1, WalkEndsInPrefixNext DEF VerdictFromPrefix
  <2>10. (\E i \in 1..n : log[i].hash = ref /\ \A k \in 1..i : Linked(k)) <=>
         (\E i \in 1..n : log'[i].hash = ref /\ \A k \in 1..i : Linked(k)')
    <3>1. \A i \in 1..n : \A k \in 1..i : k \in 1..n
      OBVIOUS
    <3> QED BY <2>6, <2>7, <3>1
  <2> QED BY <2>2, <2>3, <2>8, <2>9, <2>10
<1> QED
  BY <1>1, ReceiptsAreKept, LogTypeOK, PTL DEF Spec, VerdictIsStable

-----------------------------------------------------------------------------
\* A set of naturals has a least element: the library's fact about <.
LEMMA LeastNatural ==
  ASSUME NEW S, S \subseteq Nat, S # {}
  PROVE  \E x \in S : \A y \in S : x <= y
<1> DEFINE R == OpToRel(<, Nat)
<1>1. \E x \in S : \A y \in S : ~ (<<y, x>> \in R)
  BY NatLessThanWellFounded, WFMin
<1>2. \A x, y \in S : y < x => <<y, x>> \in R
  BY DEF OpToRel
<1> HIDE DEF R
<1>3. PICK x \in S : \A y \in S : ~ (<<y, x>> \in R)
  BY <1>1
<1>4. \A y \in S : ~(y < x)
  BY <1>2, <1>3
<1>5. QED
  BY <1>4

\* evaluate: ALLOW says that a grant covers the request now, and carries the
\* end of such a grant; DENY says that none does.
LEMMA AllowIsGranted ==
  ASSUME NEW grants, NEW request, NEW now \in Int, NEW n \in Nat,
         DOMAIN grants = 1..n
  PROVE  LET answer == Evaluate(grants, request, now) IN
         /\ answer.decision = "ALLOW" <=> SomeCovers(grants, request, now)
         /\ answer.decision = "ALLOW" =>
              \E i \in DOMAIN grants : /\ Covers(grants[i], request, now)
                                       /\ answer.until = grants[i].until
         /\ answer.decision = "DENY" =>
              \A i \in DOMAIN grants : ~Covers(grants[i], request, now)
<1> DEFINE answer == Evaluate(grants, request, now)
           covering == {i \in DOMAIN grants : Covers(grants[i], request, now)}
           first == First(grants, request, now)
<1>1. ASSUME SomeCovers(grants, request, now)
      PROVE  first \in DOMAIN grants /\ Covers(grants[first], request, now)
  <2>1. covering \subseteq Nat /\ covering # {}
    BY <1>1 DEF SomeCovers
  <2>2. PICK i \in covering : \A j \in covering : i <= j
    BY <2>1, LeastNatural
  <2>3. i \in DOMAIN grants /\ Covers(grants[i], request, now)
    OBVIOUS
  <2>4. \A j \in DOMAIN grants : j < i => ~Covers(grants[j], request, now)
    BY <2>1, <2>2
  <2>5. QED
    BY <2>3, <2>4 DEF First
<1>2. QED
  BY <1>1 DEF Evaluate, SomeCovers

\* Grants end but never begin: under one configuration an ALLOW stays an ALLOW
\* until the instant it carries as valid_until, whatever other grants there
\* are, and a DENY is never answered otherwise later.
THEOREM DecisionsAreStable ==
  ASSUME NEW grants, NEW request, NEW now \in Int, NEW later \in Int,
         NEW n \in Nat, DOMAIN grants = 1..n, now <= later,
         \A i \in DOMAIN grants : grants[i].until \in Int \cup {None}
  PROVE  LET answer == Evaluate(grants, request, now)
             again  == Evaluate(grants, request, later)
         IN  /\ answer.decision = "ALLOW" /\ later < answer.until
                  => again.decision = "ALLOW"
             /\ answer.decision = "DENY" => again.decision = "DENY"
<1> DEFINE answer == Evaluate(grants, request, now)
           again  == Evaluate(grants, request, later)
<1>1. ASSUME answer.decision = "ALLOW", later < answer.until
      PROVE  SomeCovers(grants, request, later)
  <2>1. PICK i \in DOMAIN grants : /\ Covers(grants[i], request, now)
                                   /\ answer.until = grants[i].until
    BY <1>1, AllowIsGranted
  <2>2. QED
    BY <1>1, <2>1 DEF Covers, SomeCovers
<1>2. ASSUME SomeCovers(grants, request, later)
      PROVE  SomeCovers(grants, request, now)
  BY <1>2 DEF Covers, SomeCovers
<1>3. answer.decision = "DENY" => ~SomeCovers(grants, request, now)
  BY DEF Evaluate
<1>4. ~SomeCovers(grants, request, later) => again.decision = "DENY"
  BY DEF Evaluate
<1>5. SomeCovers(grants, request, later) => again.decision = "ALLOW"
  BY DEF Evaluate
<1>6. QED
  BY <1>1, <1>2, <1>3, <1>4, <1>5

-----------------------------------------------------------------------------
LEMMA ScoreType ==
  ASSUME NEW query, IsFiniteSet(query), NEW c
  PROVE  Score(query, c) \in Nat
<1>1. \A field : /\ IsFiniteSet(query \cap field)
                 /\ Cardinality(query \cap field) \in Nat
  <2> TAKE field
  <2>1. query \cap field \in SUBSET query
    OBVIOUS
  <2>2. QED
    BY <2>1, FS_Subset, FS_CardinalityType
<1> DEFINE i == Cardinality(query \cap c.identity)
           p == Cardinality(query \cap c.provider)
           v == Cardinality(query \cap c.verbs)
           n == Cardinality(query \cap c.nouns)
           d == Cardinality(query \cap c.description)
<1>2. i \in Nat /\ p \in Nat /\ v \in Nat /\ n \in Nat /\ d \in Nat
  BY <1>1
<1> HIDE DEF i, p, v, n, d
<1>3. 4 * i + 3 * p + 2 * v + 2 * n + d \in Nat
  BY <1>2
<1>4. QED
  BY <1>3 DEF Score, i, p, v, n, d

\* discover leaves nothing out for something worse: whatever the limit and the
\* cutoff, a capability that scores for the intent and is not answered comes
\* after every one that is, by score and then by id.
THEOREM DiscoverKeepsTheBest ==
  ASSUME NEW catalog, IsFiniteSet(catalog), NEW query, IsFiniteSet(query),
         NEW limit \in Nat,
         \A x \in catalog : x.rank \in Nat,
         \A x, y \in catalog : x.rank = y.rank => x = y,
         NEW c \in Discover(catalog, query, limit),
         NEW d \in Found(catalog, query) \ Discover(catalog, query, limit)
  PROVE  Before(query, c, d)
<1> DEFINE found == Found(catalog, query)
           ahead(x) == {y \in found : Before(query, y, x)}
<1>1. /\ c \in found /\ c \in catalog /\ d \in found /\ d \in catalog
      /\ AboveCutoff(catalog, query, c)
      /\ Cardinality(ahead(c)) < limit
  BY DEF Discover, Found
<1>2. /\ \A x \in found : Score(query, x) \in Nat /\ x.rank \in Nat
      /\ c # d
  BY ScoreType DEF Found
<1>3. \A x, y, z \in found : Before(query, x, y) /\ Before(query, y, z)
                               => Before(query, x, z)
  BY <1>2 DEF Before
<1>4. SUFFICES ASSUME Before(query, d, c) PROVE FALSE
  <2>1. c.rank # d.rank
    BY <1>1, <1>2
  <2>2. QED
    BY <1>1, <1>2, <1>4, <2>1 DEF Before
<1>5. AboveCutoff(catalog, query, d)
  <2>1. Score(query, d) >= Score(query, c)
    BY <1>1, <1>2, <1>4 DEF Before
  <2>2. SUFFICES ASSUME NEW e \in found
                 PROVE  Score(query, d) >= (Score(query, e) + 1) \div 2
    BY DEF AboveCutoff
  <2>3. Score(query, c) >= (Score(query, e) + 1) \div 2
    BY <1>1 DEF AboveCutoff
  <2>4. (Score(query, e) + 1) \div 2 \in Int
    BY <1>2
  <2>5. QED
    BY <1>1, <1>2, <2>1, <2>3, <2>4
<1>6. Cardinality(ahead(d)) < limit
  <2>1. ahead(d) \in SUBSET ahead(c)
    BY <1>1, <1>3, <1>4
  <2>2. ahead(c) \in SUBSET catalog
    BY DEF Found
  <2>3. IsFiniteSet(ahead(c))
    BY <2>2, FS_Subset
  <2>4. /\ Cardinality(ahead(d)) <= Cardinality(ahead(c))
        /\ Cardinality(ahead(c)) \in Nat /\ Cardinality(ahead(d)) \in Nat
    BY <2>1, <2>3, FS_Subset, FS_CardinalityType
  <2>5. QED
    BY <1>1, <2>4
<1>7. d \in Discover(catalog, query, limit)
  BY <1>1, <1>5, <1>6 DEF Discover
<1>8. QED
  BY <1>7
=============================================================================
