------------------------------- MODULE MCDesk -------------------------------
(* Instances of Desk: three requests at a time, in the groups that meet in one *)
(* table, over a database with one label and one assertion.                    *)
EXTENDS Desk

CONSTANTS q1, q2, q3, seed, wallet, acme, zeta

Label(owner) == [op |-> "label", items |-> <<[address |-> wallet, owner |-> owner]>>]
ReviewOf(op, target, status) == [op |-> op, target |-> target, status |-> status]
Insert(table) == [op |-> "insert", table |-> table, key |-> wallet]
Case(fields) == [op |-> "case", fields |-> fields]
Row3(name) == [name |-> name, state |-> "UNREVIEWED"]
Migrate == [op |-> "migrate"]

Three(a, b, c) == [e \in {q1, q2, q3} |-> IF e = q1 THEN a ELSE IF e = q2 THEN b ELSE c]

MCScenarios == {
  Three(Label(zeta), Label(acme), ReviewOf("review_label", <<q2, 1>>, "APPROVED")),
  Three([op |-> "label", items |-> <<[address |-> wallet, owner |-> acme],
                                     [address |-> wallet, owner |-> zeta]>>],
        ReviewOf("review_label", <<seed, 1>>, "REJECTED"), Label(zeta)),
  Three(Migrate, Label(acme), ReviewOf("review_label", <<seed, 1>>, "APPROVED")),
  Three(Migrate, Migrate, Label(zeta)),
  Three(ReviewOf("review", <<seed, 2>>, "REVIEWED"), ReviewOf("review", <<seed, 2>>, "REJECTED"),
        ReviewOf("review", <<q1, 1>>, "REVIEWED")),
  Three(Insert("relationship"), Insert("relationship"), Insert("record")),
  Three(Insert("assertion"), Insert("assertion"), Insert("relationship")),
  Three(Case({"case_status"}), Case({"notes"}), Case(Field)),
  Three([op |-> "import", items |-> <<Row3(acme), Row3(zeta)>>], [op |-> "append", table |-> "note"],
        Case({"notes"})),
  Three(ReviewOf("review_label", <<seed, 1>>, "REJECTED"),
        ReviewOf("review_label", <<seed, 1>>, "EXPIRED"), Migrate),
  Three([op |-> "label", items |-> << >>], [op |-> "import", items |-> << >>], Migrate) }

MCSeedLabels == {[id |-> <<seed, 1>>, address |-> wallet, owner |-> acme, status |-> "REJECTED", seen |-> {}]}
MCSeedAssertions == {[id |-> <<seed, 2>>, origin |-> NoLabel, state |-> "UNREVIEWED", base |-> 0, seen |-> {}]}
=============================================================================
