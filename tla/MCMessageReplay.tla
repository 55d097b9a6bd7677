-------------------------- MODULE MCMessageReplay --------------------------
(***************************************************************************)
(* A message, the same id and nonce signed once more with a later expiry,  *)
(* a child and a grandchild of it, and what can be wrong with a delivery.  *)
(***************************************************************************)
EXTENDS MessageReplay, TLC
CONSTANTS d1, d2, d3

Root == [id |-> "m1", nonce |-> "n1", workflow |-> "w1", sender |-> "research",
         recipient |-> "writer", scope |-> {"s1", "s2"}, authority |-> "a1",
         issued |-> 0, expires |-> 1, payload |-> "x", parent |-> None,
         signed |-> TRUE]
Resigned == [Root EXCEPT !.expires = 2]
Child == [Root EXCEPT !.id = "m2", !.nonce = "n2", !.parent = Root,
                      !.scope = {"s1"}, !.expires = 2]
WideChild == [Child EXCEPT !.id = "m3", !.scope = {"s1", "s3"}]
Grandchild == [Child EXCEPT !.id = "m4", !.parent = Child]
WideGrandchild == [Grandchild EXCEPT !.scope = {"s1", "s2"}]

Deliver(e, parent) ==
  [envelope |-> e, payload |-> "x", parent |-> parent,
   expected |-> [recipient |-> "writer", sender |-> "research",
                 scope |-> {"s1", "s2", "s3"}]]

\* Good copies, and deliveries with a foreign payload, a broken signature, a
\* parent that is missing or another, a widened scope, a foreign recipient.
MCDeliveries ==
  {Deliver(Root, None), Deliver(Child, Root), Deliver(Grandchild, Child),
   Deliver(WideChild, Root), Deliver(WideGrandchild, Child),
   Deliver(Child, None), Deliver(Child, Resigned),
   [Deliver(Root, None) EXCEPT !.payload = "y"],
   Deliver([Root EXCEPT !.signed = FALSE], None),
   [Deliver(Root, None) EXCEPT !.expected.recipient = "finance"]}

MCCalls == {d1, d2, d3}
Symmetry == Permutations(MCCalls)
=============================================================================
