--------------------------- MODULE MCKafkaReplay ---------------------------
(* Instances of KafkaReplay: each fault alone, and faults that meet. *)
EXTENDS KafkaReplay

F(drop, duplicate, poison, window) ==
  [drop |-> drop, duplicate |-> duplicate, poison |-> poison, window |-> window]

Published == [p \in {0, 1} |-> IF p = 0 THEN 3 ELSE 1]

Faults == {F(0, 0, 0, 0), F(2, 2, 0, 2), F(3, 1, 1, 3), F(1, 0, 0, 0), F(0, 2, 2, 1), F(3, 0, 2, 2)}
=============================================================================
