------------------------------ MODULE MCDisplay ------------------------------
(***************************************************************************)
(* Requests for Display: texts short and long, one byte less than their    *)
(* buffer, exactly as long, and, the lengths the parser lets through, as   *)
(* long as 255 bytes; with a NUL at their start and in the middle, and     *)
(* longer than a line.                                                     *)
(***************************************************************************)
EXTENDS Display

OneLineOf == 20   \* the bytes that fit on one line, the same for all texts

Request(kind, id, some, nuls) ==
  LET length == [f \in Fields |-> IF f \in DOMAIN some THEN some[f]
                                  ELSE IF f = "address" THEN AddressLength ELSE 0]
  IN  [kind |-> kind, id |-> id, length |-> length,
       nul |-> [f \in Fields |-> IF f \in DOMAIN nuls THEN nuls[f] ELSE length[f]],
       line |-> [f \in Fields |-> Least(length[f], OneLineOf)]]

NoNul == [f \in {} |-> 0]

MCRequests ==
  {Request("address", "a1", [path |-> 18], NoNul),
   Request("address", "a2", [path |-> 59], NoNul),
   Request("address", "a3", [path |-> 60], NoNul),
   Request("transaction", "t1",
     [txlength |-> 9, nexus |-> 7, chain |-> 4, scriptlength |-> 5, token |-> 3,
      amount |-> 5, to |-> 47], [amount |-> 1]),
   Request("transaction", "t2",
     [txlength |-> 1020, nexus |-> 15, chain |-> 15, scriptlength |-> 924, token |-> 9,
      amount |-> 29, to |-> 63], NoNul),
   Request("transaction", "t3",
     [txlength |-> 300, nexus |-> 16, chain |-> 1, scriptlength |-> 100, token |-> 10,
      amount |-> 10, to |-> 64], [token |-> 0]),
   Request("transaction", "t4",
     [txlength |-> 300, nexus |-> 7, chain |-> 4, scriptlength |-> 100, token |-> 3,
      amount |-> 255, to |-> 47], NoNul),
   Request("custom", "c1",
     [nexus |-> 7, chain |-> 4, name |-> 5, method |-> 5, from |-> 47, args |-> 60],
     [method |-> 3, from |-> 30]),
   Request("custom", "c2",
     [nexus |-> 16, chain |-> 15, name |-> 9, method |-> 15, from |-> 1, args |-> 240], NoNul),
   Request("custom", "c3",
     [nexus |-> 7, chain |-> 4, name |-> 11, method |-> 5, from |-> 47, args |-> 0], NoNul)}
=============================================================================
