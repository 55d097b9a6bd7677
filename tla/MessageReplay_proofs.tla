------------------------ MODULE MessageReplay_proofs ------------------------
(***************************************************************************)
(* The replay store keeps a claim as long as its message can be accepted,  *)
(* so within one life of the process a message is accepted twice only when *)
(* the second acceptance comes after its expiry.  For any number of calls, *)
(* messages and restarts.                                                  *)
(***************************************************************************)
EXTENDS MessageReplay, TLAPS

\* What the life of a claim rests on: nobody entered the store in the future,
\* and nobody was accepted in a later life of the process.
ClaimInv ==
  /\ \A c \in Calls : pc[c] = "entered" => entered[c] <= clock
  /\ \A c \in Accepted : accepted[c] <= epoch
  /\ ClaimOutlastsMessage

LEMMA EnvelopeType ==
  ASSUME TypeOK, NEW c \in Calls, pc[c] # "idle"
  PROVE  Envelope(c) \in Envelopes /\ Envelope(c).expires \in Int
<1>1. given[c] \in Deliveries BY DEF TypeOK
<1>2. Envelope(c) \in Envelopes BY <1>1 DEF Envelope, Envelopes
<1> QED BY <1>2, EnvelopeAssumption

\* Type correctness of the verifier and its store, for every delivery.
THEOREM ReplayTypeOK == Spec => []TypeOK
<1>1. Init => TypeOK
  BY BoundAssumption DEF Init, TypeOK
<1>2. TypeOK /\ [Next]_vars => TypeOK'
  <2> SUFFICES ASSUME TypeOK, [Next]_vars PROVE TypeOK'
    OBVIOUS
  <2> USE BoundAssumption, NoneAssumption
  <2>1. ASSUME NEW c \in Calls, NEW d \in Deliveries, Receive(c, d)
        PROVE  TypeOK'
    BY <2>1 DEF TypeOK, Receive, Goto
  <2>2. ASSUME NEW c \in Calls, Enter(c) PROVE TypeOK'
    BY <2>2 DEF TypeOK, Enter, Goto
  <2>3. ASSUME NEW c \in Calls, Claim(c) PROVE TypeOK'
    <3>1. claims' \subseteq Envelopes
      BY <2>3, EnvelopeType DEF TypeOK, Claim, Retained
    <3> QED BY <2>3, <3>1 DEF TypeOK, Claim, Goto
  <2>4. ASSUME NEW c \in Calls, ReplayDetected(c) PROVE TypeOK'
    BY <2>4 DEF TypeOK, ReplayDetected, Retained, Goto
  <2>5. CASE Tick
    BY <2>5 DEF TypeOK, Tick, callVars
  <2>6. CASE Restart
    BY <2>6 DEF TypeOK, Restart
  <2>7. CASE UNCHANGED vars
    BY <2>7 DEF TypeOK, vars, callVars
  <2> QED BY <2>1, <2>2, <2>3, <2>4, <2>5, <2>6, <2>7 DEF Next
<1> QED BY <1>1, <1>2, PTL DEF Spec

-----------------------------------------------------------------------------
\* Every step preserves ClaimInv; a step inside claim_once (<1>3) purges only
\* what has expired by now.
LEMMA ClaimInvStep == TypeOK /\ TypeOK' /\ ClaimInv /\ [Next]_vars => ClaimInv'
<1> SUFFICES ASSUME TypeOK, TypeOK', ClaimInv, [Next]_vars PROVE ClaimInv'
  OBVIOUS
<1> USE DEF ClaimInv
<1>1. ASSUME NEW c \in Calls, NEW d \in Deliveries, Receive(c, d)
      PROVE  ClaimInv'
  BY <1>1 DEF TypeOK, Receive, Goto, ClaimOutlastsMessage, Accepted, Envelope
<1>2. ASSUME NEW c \in Calls, Enter(c) PROVE ClaimInv'
  BY <1>2 DEF TypeOK, Enter, Goto, ClaimOutlastsMessage, Accepted, Envelope
<1>3. ASSUME NEW c \in Calls, pc[c] = "entered",
             Retained(entered[c]) \subseteq claims',
             UNCHANGED <<clock, given, entered, epoch>>,
             \A x \in Calls : pc'[x] = "entered" => pc[x] = "entered",
             \A x \in Calls : x # c => accepted'[x] = accepted[x],
             accepted'[c] \in {None, epoch},
             accepted'[c] # None => Envelope(c) \in claims'
      PROVE  ClaimInv'
  <2>1. entered[c] <= clock /\ clock \in Int /\ entered[c] \in Int
    BY <1>3 DEF TypeOK
  <2>2. ASSUME NEW x \in Accepted', accepted'[x] = epoch', 
               clock' <= Envelope(x)'.expires
        PROVE  Envelope(x)' \in claims'
    <3>1. Envelope(x)' = Envelope(x) BY <1>3 DEF Envelope
    <3>2. CASE x = c
      BY <1>3, <2>2, <3>1, <3>2 DEF Accepted
    <3>3. CASE x # c
      <4>1. x \in Accepted /\ accepted[x] = epoch
        BY <1>3, <2>2, <3>3 DEF Accepted
      <4>2. Envelope(x) \in claims
        BY <1>3, <2>2, <3>1, <4>1 DEF ClaimOutlastsMessage
      <4>3. Envelope(x).expires \in Int
        BY <4>1, EnvelopeType DEF TypeOK, Accepted
      <4> QED BY <1>3, <2>1, <2>2, <3>1, <4>2, <4>3 DEF Retained
    <3> QED BY <3>2, <3>3
  <2>3. ClaimOutlastsMessage'
    BY <2>2 DEF ClaimOutlastsMessage
  <2>4. \A x \in Accepted' : accepted'[x] <= epoch'
    BY <1>3 DEF TypeOK, Accepted
  <2> QED BY <1>3, <2>3, <2>4
<1>4. ASSUME NEW c \in Calls, Claim(c) PROVE ClaimInv'
  BY <1>3, <1>4 DEF Claim, Goto, TypeOK
<1>5. ASSUME NEW c \in Calls, ReplayDetected(c) PROVE ClaimInv'
  BY <1>3, <1>5 DEF ReplayDetected, Goto, TypeOK
<1>6. CASE Tick
  <2>1. \A x \in Accepted : Envelope(x).expires \in Int
    BY EnvelopeType DEF TypeOK, Accepted
  <2> QED BY <1>6, <2>1
        DEF TypeOK, Tick, callVars, ClaimOutlastsMessage, Accepted, Envelope
<1>7. CASE Restart
  <2>1. \A x \in Accepted' : accepted'[x] < epoch'
    BY <1>7 DEF TypeOK, Restart, Accepted
  <2> QED BY <1>7, <2>1 DEF TypeOK, Restart, ClaimOutlastsMessage, Accepted
<1>8. CASE UNCHANGED vars
  BY <1>8 DEF vars, callVars, ClaimOutlastsMessage, Accepted, Envelope
<1> QED BY <1>1, <1>2, <1>4, <1>5, <1>6, <1>7, <1>8 DEF Next

\* ClaimInv is an invariant of the verifier.
THEOREM ReplayInvariant == Spec => []ClaimInv
<1>1. Init => ClaimInv
  BY DEF Init, ClaimInv, ClaimOutlastsMessage, Accepted
<1> QED BY <1>1, ReplayTypeOK, ClaimInvStep, PTL DEF Spec

\* While a copy of an accepted message could still pass the window check, its
\* claim is in the store (message_security.py 60-65).
THEOREM ClaimsOutlastMessages == Spec => []ClaimOutlastsMessage
<1>1. ClaimInv => ClaimOutlastsMessage BY DEF ClaimInv
<1> QED BY <1>1, ReplayInvariant, PTL

\* An envelope is accepted a second time in one life of the process only after
\* it has expired: the replay protection is exact for calls that are not
\* delayed between their checks and the store.
THEOREM ReplaysAreLate == Spec => ReplayOnlyWhenLate
<1>1. TypeOK /\ ClaimInv /\ [Next]_vars =>
        [\A c, d \in Calls :
           Replayed(c, d)' /\ ~Replayed(c, d)
             => clock > Envelope(c).expires]_vars
  <2> SUFFICES ASSUME TypeOK, ClaimInv, [Next]_vars,
                      NEW c \in Calls, NEW d \in Calls,
                      Replayed(c, d)', ~Replayed(c, d)
               PROVE  clock > Envelope(c).expires
    OBVIOUS
  <2>1. PICK x \in Calls : Claim(x)
    BY DEF Next, Receive, Enter, ReplayDetected, Tick, Restart, vars, callVars,
           Goto, Replayed, Accepted, Envelope, TypeOK
  <2>2. /\ Envelope(c)' = Envelope(c) /\ Envelope(d)' = Envelope(d)
        /\ Envelope(c) = Envelope(d) /\ Envelope(x).expires \in Int
        /\ pc[x] = "entered" /\ entered[x] \in Int /\ clock \in Int
    <3>1. Envelope(x).expires \in Int
      BY <2>1, EnvelopeType DEF Claim
    <3> QED BY <2>1, <3>1 DEF Claim, Envelope, Replayed, TypeOK
  <2>3. \A y \in Calls : y # x => (y \in Accepted' <=> y \in Accepted)
                                  /\ accepted'[y] = accepted[y]
    BY <2>1 DEF Claim, Accepted, TypeOK
  <2>4. PICK y \in Accepted : Envelope(y) = Envelope(x) /\ accepted[y] = epoch
    BY <2>1, <2>2, <2>3 DEF Replayed, Claim, Accepted, TypeOK
  <2>5. Envelope(x) = Envelope(c)
    BY <2>2, <2>3 DEF Replayed
  <2>6. CASE Envelope(x) \in claims
    <3>1. Envelope(x).expires < entered[x]
      BY <2>1, <2>2, <2>6 DEF Claim, Unclaimed, Retained
    <3> QED BY <2>2, <2>5, <3>1 DEF ClaimInv
  <2>7. CASE Envelope(x) \notin claims
    <3>1. ~(clock <= Envelope(x).expires)
      BY <2>4, <2>7 DEF ClaimInv, ClaimOutlastsMessage
    <3> QED BY <2>2, <2>5, <3>1
  <2> QED BY <2>6, <2>7
<1> QED BY <1>1, ReplayTypeOK, ReplayInvariant, PTL DEF Spec, ReplayOnlyWhenLate

-----------------------------------------------------------------------------
\* What got past the checks of accept was a child of the parent it presented.
ParentInv ==
  \A c \in Calls : pc[c] \in {"checked", "entered", "accepted"} =>
    VerifyParent(Envelope(c), given[c].parent)

\* Along any chain of accepted messages scope, workflow and authority come down
\* from the first, although each is checked against its parent alone and the
\* parent may be accepted after its child (GovernedMessageVerifier.accept).
THEOREM ChainsNarrow == Spec => []ChainNarrows
<1>1. Init => ParentInv
  BY DEF Init, ParentInv
<1>2. TypeOK /\ ParentInv /\ [Next]_vars => ParentInv'
  <2> SUFFICES ASSUME TypeOK, ParentInv, [Next]_vars PROVE ParentInv'
    OBVIOUS
  <2> USE DEF TypeOK, ParentInv, Envelope
  <2>1. ASSUME NEW c \in Calls, NEW d \in Deliveries, Receive(c, d)
        PROVE  ParentInv'
    BY <2>1 DEF Receive, Goto, Acceptable
  <2>2. ASSUME NEW c \in Calls, Enter(c) \/ Claim(c) \/ ReplayDetected(c)
        PROVE  ParentInv'
    BY <2>2 DEF Enter, Claim, ReplayDetected, Goto
  <2>3. CASE Restart
    BY <2>3 DEF Restart
  <2>4. CASE Tick \/ UNCHANGED vars
    BY <2>4 DEF Tick, vars, callVars
  <2> QED BY <2>1, <2>2, <2>3, <2>4 DEF Next
<1>3. TypeOK /\ ParentInv => ChainNarrows
  <2> SUFFICES ASSUME TypeOK, ParentInv PROVE ChainNarrows
    OBVIOUS
  <2>1. \A c \in Accepted : VerifyParent(Envelope(c), Envelope(c).parent)
    BY DEF Accepted, TypeOK, ParentInv, VerifyParent
  <2>2. \A c \in Accepted : Envelope(c).parent # None =>
          /\ Envelope(c).scope \subseteq Envelope(c).parent.scope
          /\ Envelope(c).workflow = Envelope(c).parent.workflow
          /\ Envelope(c).authority = Envelope(c).parent.authority
    BY <2>1 DEF VerifyParent
  <2> QED BY <2>2 DEF ChainNarrows
<1> QED BY <1>1, <1>2, <1>3, ReplayTypeOK, PTL DEF Spec
=============================================================================
