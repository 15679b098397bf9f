---- MODULE MCWorkflowGate ----
(***************************************************************************)
(* A workflow of two reads and two effects, the second of which quotes the *)
(* first, and edits of it.                                                 *)
(***************************************************************************)
EXTENDS WorkflowGate, TLC

Read(s, u) == [id |-> s, effect |-> FALSE, text |-> "read", uses |-> u]
Note(t, u) == [id |-> "e", effect |-> TRUE, text |-> t, uses |-> u]
Quote(t) == [id |-> "f", effect |-> TRUE, text |-> t, uses |-> {"e"}]
MCFirst == <<Read("a", {}), Note("e1", {"a"}), Read("b", {"e"}), Quote("f1")>>
\* An edit that keeps the order of the steps.
Rewording == {MCFirst, <<Read("a", {}), Note("e2", {"a"}), Read("b", {"e"}), Quote("f1")>>}
\* One effect only, and an edit that drops it.
Short == <<Note("e1", {})>>
Dropping == {Short, <<Read("a", {})>>}
\* An edit that puts an effect in front of the one at the gate, which now quotes it.
Alone == <<[id |-> "f", effect |-> TRUE, text |-> "f1", uses |-> {}]>>
Inserting == {Alone, <<Note("e1", {}), Quote("f1")>>}
Symmetric == Permutations(RunIds) \union Permutations(Starters)
====
