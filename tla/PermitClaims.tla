---------------------------- MODULE PermitClaims ----------------------------
(***************************************************************************)
(* What the Protocol class PermitConsumptionStore promises of              *)
(* consume_once(permit_id): "Return True exactly once for a permit id,     *)
(* False thereafter".  The promise is stated for calls that may also raise *)
(* or die: owner[p] is the call that spent permit p, answer[c] what the    *)
(* caller of c has been told.                                              *)
(***************************************************************************)
CONSTANTS Calls,     \* invocations of consume_once
          Permits,   \* permit ids
          NoCall,    \* the owner of a permit nobody has spent
          PermitOf   \* PermitOf[c] is the permit id call c presents

VARIABLES owner, answer

claimVars == <<owner, answer>>

Answers == {"none", "true", "false", "error", "crashed"}

TypeOK == /\ owner \in [Permits -> Calls \cup {NoCall}]
          /\ answer \in [Calls -> Answers]

Init == /\ owner = [p \in Permits |-> NoCall]
        /\ answer = [c \in Calls |-> "none"]

\* The permit is spent, durably, before its caller hears of it.
Claim(c) == /\ answer[c] = "none"
            /\ owner[PermitOf[c]] = NoCall
            /\ owner' = [owner EXCEPT ![PermitOf[c]] = c]
            /\ UNCHANGED answer

\* "true" is for the owner alone, "false" only says that another call owns
\* the permit, an exception never reports a permit the call has spent, and a
\* call that dies leaves the question open.
MayAnswer(c, a) ==
  \/ a = "true"    /\ owner[PermitOf[c]] = c
  \/ a = "false"   /\ owner[PermitOf[c]] \notin {NoCall, c}
  \/ a = "error"   /\ owner[PermitOf[c]] # c
  \/ a = "crashed"

Answer(c, a) == /\ answer[c] = "none"
                /\ MayAnswer(c, a)
                /\ answer' = [answer EXCEPT ![c] = a]
                /\ UNCHANGED owner

Next == \E c \in Calls : \/ Claim(c)
                         \/ \E a \in Answers : Answer(c, a)

Spec == Init /\ [][Next]_claimVars
=============================================================================
