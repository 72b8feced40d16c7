---- MODULE MCDhanFeed ----
(* A share, a commodity with a longer namesake, and a symbol the user adds. *)
EXTENDS DhanFeed

Row(id, underlying, type, expiry) ==
    [id |-> id, underlying |-> underlying, type |-> type, expiry |-> expiry]

share == "SBIN"
gold == "GOLD"

longer == [s \in {share, gold} |-> IF s = gold THEN {"GOLDM"} ELSE {}]

within == [s \in {share, gold} |-> IF s = gold THEN {"MGOLD"} ELSE {}]

\* One list with an expired, two live and an undated contract, one of a namesake before and
\* one behind the name, among so many options that the scan stops before the last; and one
\* list without any contract of the commodity.
listings ==
    {<<Row(1, gold, "OPT", 3), Row(3, gold, "FUT", 1), Row(4, gold, "FUT", 3),
       Row(2, gold, "OPT", 2), Row(5, gold, "FUT", 2), Row(6, "GOLDM", "FUT", 2),
       Row(7, share, "EQ", NoExpiry), Row(9, "MGOLD", "FUT", 2), Row(10, gold, "FUT", NoExpiry),
       Row(11, gold, "OPT", 4)>>,
     <<Row(8, gold, "FUT", 1)>>}
============================================================================
