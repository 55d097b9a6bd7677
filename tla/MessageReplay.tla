--------------------------- MODULE MessageReplay ---------------------------
(***************************************************************************)
(* GovernedMessageVerifier.accept with InMemoryReplayStore: copies of      *)
(* signed messages arrive, in any order and more than once, at the threads *)
(* of one recipient process, which may restart.  A delivery is one call of *)
(* accept:                                                                 *)
(*                                                                         *)
(*   Receive  utcnow(), and every check that reads only arguments          *)
(*   Enter    claim_once reads utcnow() again                              *)
(*   Claim    purge and claim, under the store's lock                      *)
(*                                                                         *)
(* An envelope is [id, nonce, workflow, sender, recipient, scope, authority,*)
(* issued, expires, payload, parent, signed].  A digest is the object      *)
(* itself; signed says that the signature verifies under the key the       *)
(* recipient expects; parent is the parent envelope, as its id and digest  *)
(* name it, or None.  A delivery is [envelope, payload, parent, expected]: *)
(* what reached accept, and the bindings its caller insists on as a        *)
(* function from envelope fields to values; scope there is an upper bound. *)
(***************************************************************************)
EXTENDS Integers

CONSTANTS
  Calls,       \* calls of accept
  Deliveries,  \* what a call may be given
  None,
  MaxTime,     \* bound on the clock
  MaxRestarts  \* bound on restarts of the process

Envelopes == {d.envelope : d \in Deliveries}

ASSUME EnvelopeAssumption ==
  \A e \in Envelopes : /\ e.issued \in Nat /\ e.expires \in Nat
                       /\ e.issued < e.expires
ASSUME ExpectationAssumption ==
  \A d \in Deliveries : "recipient" \in DOMAIN d.expected
ASSUME NoneAssumption == None \notin Deliveries /\ None \notin 0..MaxRestarts
ASSUME BoundAssumption == MaxTime \in Nat /\ MaxRestarts \in Nat

VARIABLES
  clock,     \* utcnow()
  pc,        \* where each call is
  given,     \* its arguments
  entered,   \* the moment claim_once captured
  claims,    \* the replay store: claimed envelopes
  epoch,     \* how often the process has restarted
  accepted   \* history: per call, the epoch in which it was accepted, or None

callVars == <<pc, given, entered>>
vars == <<clock, callVars, claims, epoch, accepted>>

TypeOK ==
  /\ clock \in 0..MaxTime
  /\ pc \in [Calls -> {"idle", "checked", "entered", "accepted", "rejected",
                       "lost"}]
  /\ given \in [Calls -> Deliveries \cup {None}]
  /\ entered \in [Calls -> 0..MaxTime]
  /\ claims \subseteq Envelopes
  /\ epoch \in 0..MaxRestarts
  /\ accepted \in [Calls -> (0..MaxRestarts) \cup {None}]
  /\ \A c \in Calls : /\ pc[c] = "accepted" <=> accepted[c] # None
                      /\ pc[c] # "idle" => given[c] # None

Init ==
  /\ clock = 0
  /\ pc = [c \in Calls |-> "idle"]
  /\ given = [c \in Calls |-> None]
  /\ entered = [c \in Calls |-> 0]
  /\ claims = {}
  /\ epoch = 0
  /\ accepted = [c \in Calls |-> None]

-----------------------------------------------------------------------------
Envelope(c) == given[c].envelope

Goto(c, s) == pc' = [pc EXCEPT ![c] = s]

InsideWindow(e, t) == e.issued <= t /\ t < e.expires

\* Every field the caller has an expectation of is exactly as expected; the
\* scope may be narrower.
Expected(e, expected) ==
  \A f \in DOMAIN expected :
    IF f = "scope" THEN e.scope \subseteq expected.scope
    ELSE e[f] = expected[f]

\* Variant: only the identity of the parent is compared.
VerifyParentLoosely(e, parent) == e.parent = parent

\* A child names exactly the parent presented, stays in its workflow and
\* under its authority, and does not widen its scope.
VerifyParent(e, parent) ==
  /\ e.parent = parent
  /\ parent # None => /\ e.workflow = parent.workflow
                      /\ e.authority = parent.authority
                      /\ e.scope \subseteq parent.scope

Acceptable(d, t) ==
  /\ InsideWindow(d.envelope, t)
  /\ Expected(d.envelope, d.expected)
  /\ VerifyParent(d.envelope, d.parent)
  /\ d.envelope.payload = d.payload
  /\ d.envelope.signed

Receive(c, d) ==
  /\ pc[c] = "idle"
  /\ Goto(c, IF Acceptable(d, clock) THEN "checked" ELSE "rejected")
  /\ given' = [given EXCEPT ![c] = d]
  /\ UNCHANGED <<clock, entered, claims, epoch, accepted>>

\* claim_once reads the clock before it waits for the lock.
Enter(c) ==
  /\ pc[c] = "checked"
  /\ Goto(c, "entered")
  /\ entered' = [entered EXCEPT ![c] = clock]
  /\ UNCHANGED <<clock, given, claims, epoch, accepted>>

\* Variant: a claim is purged at the instant its message expires.
RetainedExclusive(t) == {e \in claims : e.expires > t}

\* What the purge leaves of the claims.
Retained(t) == {e \in claims : e.expires >= t}

\* Variant: whether there is a claim already is not looked at.
UnclaimedAssumed(c) == TRUE

\* The key of a claim determines the envelope: it contains its digest.
Unclaimed(c) == Envelope(c) \notin Retained(entered[c])

\* Variant: the key is made of id and nonce alone, and looked up as before.
ClaimIdAndNonce(c) ==
  /\ pc[c] = "entered" /\ Unclaimed(c)
  /\ claims' = Retained(entered[c])
                 \cup {<<Envelope(c).id, Envelope(c).nonce>>}
  /\ Goto(c, "accepted")
  /\ accepted' = [accepted EXCEPT ![c] = epoch]
  /\ UNCHANGED <<clock, given, entered, epoch>>

Claim(c) ==
  /\ pc[c] = "entered" /\ Unclaimed(c)
  /\ claims' = Retained(entered[c]) \cup {Envelope(c)}
  /\ Goto(c, "accepted")
  /\ accepted' = [accepted EXCEPT ![c] = epoch]
  /\ UNCHANGED <<clock, given, entered, epoch>>

ReplayDetected(c) ==
  /\ pc[c] = "entered" /\ ~Unclaimed(c)
  /\ claims' = Retained(entered[c])
  /\ Goto(c, "rejected")
  /\ UNCHANGED <<clock, given, entered, epoch, accepted>>

Tick == /\ clock < MaxTime
        /\ clock' = clock + 1
        /\ UNCHANGED <<callVars, claims, epoch, accepted>>

\* The process dies with its calls and its claims, and a new one starts.
Restart ==
  /\ epoch < MaxRestarts
  /\ epoch' = epoch + 1
  /\ claims' = {}
  /\ pc' = [c \in Calls |-> IF pc[c] \in {"checked", "entered"} THEN "lost"
                            ELSE pc[c]]
  /\ UNCHANGED <<clock, given, entered, accepted>>

Next ==
  \/ \E c \in Calls : \/ \E d \in Deliveries : Receive(c, d)
                      \/ Enter(c) \/ Claim(c) \/ ReplayDetected(c)
  \/ Tick
  \/ Restart

Spec == Init /\ [][Next]_vars

-----------------------------------------------------------------------------
Accepted == {c \in Calls : accepted[c] # None}

\* Two calls accepted the same envelope in one life of the process.
Replayed(c, d) == /\ c # d /\ c \in Accepted /\ d \in Accepted
                  /\ accepted[c] = accepted[d]
                  /\ Envelope(c) = Envelope(d)

\* An envelope is accepted again, without a restart in between, only after it
\* has expired: by a call that passed its checks in time and got to the store,
\* or to its lock, too late.
ReplayOnlyWhenLate ==
  [][\A c, d \in Calls :
       Replayed(c, d)' /\ ~Replayed(c, d) => clock > Envelope(c).expires]_vars

\* A claim is kept through the last instant at which a copy of its message
\* could pass the window check, whatever other calls purge
\* (test_replay_claim_is_retained_through_last_valid_instant).
ClaimOutlastsMessage ==
  \A c \in Accepted :
    accepted[c] = epoch /\ clock <= Envelope(c).expires
      => Envelope(c) \in claims

\* Along a chain of accepted messages, each the parent of the next, nothing
\* widens: scope, workflow and authority come down from the first.
ChainNarrows ==
  \A c \in Accepted :
    LET e == Envelope(c)
        p == e.parent
    IN  p # None =>
          /\ e.scope \subseteq p.scope
          /\ e.workflow = p.workflow /\ e.authority = p.authority
          /\ \A d \in Accepted :
               Envelope(d) = p /\ p.parent # None
                 => e.scope \subseteq p.parent.scope
=============================================================================
