---------------------------- MODULE GrantDecision ----------------------------
(***************************************************************************)
(* The two answers of the runtime HTTP service that change nothing:        *)
(* evaluate, which decides whether a grant of the configuration covers a   *)
(* request now, and discover, which ranks the capabilities of the catalog  *)
(* for an intent.                                                          *)
(*                                                                         *)
(* A grant is [principal, handle, capability, account, until,              *)
(* constraints]; what a configuration leaves out, or gives another type    *)
(* than the code asks for, is None.  Constraints and payloads are          *)
(* functions on keys.                                                      *)
(***************************************************************************)
EXTENDS Values, Integers, FiniteSets

-----------------------------------------------------------------------------
\* A grant names a principal or, failing that, a handle.
SamePrincipal(grant, request) ==
  \/ grant.principal # None /\ grant.principal = request.principal
  \/ /\ grant.principal = None /\ grant.handle # None
     /\ grant.handle = request.handle

Lookup(payload, key) == IF key \in DOMAIN payload THEN payload[key] ELSE None

\* _constraints_match.  A null in the constraints matches a missing key, and
\* constraints that are no object are not looked at.
ConstraintsMatch(grant, request) ==
  grant.constraints # None /\ DOMAIN grant.constraints # {} =>
    /\ request.payload # None
    /\ \A key \in DOMAIN grant.constraints :
         Lookup(request.payload, key) = grant.constraints[key]

\* The grant covers the request, leaving its expiry aside.
Matches(grant, request) ==
  /\ SamePrincipal(grant, request)
  /\ grant.capability = request.capability
  /\ grant.account \in {None, request.account}
  /\ ConstraintsMatch(grant, request)

Covers(grant, request, now) ==
  /\ Matches(grant, request)
  /\ grant.until # None /\ now < grant.until

\* evaluate answers with the first grant that covers the request.
First(grants, request, now) ==
  CHOOSE i \in DOMAIN grants :
    /\ Covers(grants[i], request, now)
    /\ \A j \in DOMAIN grants : j < i => ~Covers(grants[j], request, now)

SomeCovers(grants, request, now) ==
  \E i \in DOMAIN grants : Covers(grants[i], request, now)

Evaluate(grants, request, now) ==
  IF SomeCovers(grants, request, now)
  THEN [decision |-> "ALLOW", at |-> now,
        until |-> grants[First(grants, request, now)].until]
  ELSE [decision |-> "DENY", at |-> now, until |-> None]

-----------------------------------------------------------------------------
\* A capability is [rank, identity, provider, verbs, nouns, description]: the
\* place of its id in the order of ids, and the tokens of each field.
Score(query, c) ==
  4 * Cardinality(query \cap c.identity)
    + 3 * Cardinality(query \cap c.provider)
    + 2 * Cardinality(query \cap c.verbs) + 2 * Cardinality(query \cap c.nouns)
    + Cardinality(query \cap c.description)

Found(catalog, query) == {c \in catalog : Score(query, c) > 0}

\* The order of the answer: by falling score, then by id.
Before(query, c, d) ==
  \/ Score(query, c) > Score(query, d)
  \/ Score(query, c) = Score(query, d) /\ c.rank < d.rank

\* score >= max(1, (best + 1) // 2), where best is the highest score
AboveCutoff(catalog, query, c) ==
  \A d \in Found(catalog, query) :
    Score(query, c) >= (Score(query, d) + 1) \div 2

\* The first limit capabilities above the cutoff.
Discover(catalog, query, limit) ==
  {c \in Found(catalog, query) :
     /\ AboveCutoff(catalog, query, c)
     /\ Cardinality({d \in Found(catalog, query) : Before(query, d, c)}) < limit}
=============================================================================
