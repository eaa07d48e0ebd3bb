--------------------------- MODULE DisplayProofs ----------------------------
(***************************************************************************)
(* Proofs about Display, for requests of every length and number, on both  *)
(* user interfaces.                                                        *)
(***************************************************************************)
EXTENDS Display, TLAPS

(* The pages of a review by number, whatever the variables hold: NBGL has  *)
(* its start page, the pairs, and for a transaction the page to sign on.   *)
PageOf(u, kind, n) ==
  IF u = "BAGL" THEN BaglFlow(kind)[n]
  ELSE IF n \in 2 .. Len(NbglPairs(kind)) + 1 THEN NbglPairs(kind)[n - 1]
  ELSE IF n = 1 THEN Bare("Start") ELSE Bare("Sign")

PagesOf(u, kind) ==
  IF u = "BAGL" THEN Len(BaglFlow(kind))
  ELSE IF kind = "address" THEN 2 ELSE Len(NbglPairs(kind)) + 2

(* Where the decision to approve is taken.                                 *)
ApprovalPage(u, kind) ==
  IF u = "BAGL" THEN Len(BaglFlow(kind)) - 1 ELSE PagesOf(u, kind)

(* What a page announces, as a copy of a field to a buffer.                *)
Announced(u, kind, n) == <<PageOf(u, kind, n)[2], Subject(kind, PageOf(u, kind, n)[1])>>

-----------------------------------------------------------------------------
(* The tables of the pages.                                                *)
LEMMA Lengths ==
  /\ Len(BaglFlow("address")) = 5
  /\ Len(BaglFlow("transaction")) = 10
  /\ Len(BaglFlow("custom")) = 8
  /\ Len(NbglPairs("address")) = 1
  /\ Len(NbglPairs("transaction")) = 7
  /\ Len(NbglPairs("custom")) = 6
BY DEF BaglFlow, NbglPairs

(* The tables of the pages agree with the tables of the copies: a page     *)
(* that shows a buffer announces the field that is copied to that buffer,  *)
(* and every field that is copied has its page before the approval.        *)
Agree(u, kind) ==
  /\ \A n \in 1 .. PagesOf(u, kind) :
       PageOf(u, kind, n)[2] # "none" => Announced(u, kind, n) \in Copies(u, kind)
  /\ \A c \in Copies(u, kind) :
       \E n \in 1 .. ApprovalPage(u, kind) : Announced(u, kind, n) = c /\ c[1] # "none"

LEMMA BaglAddressPages ==
  /\ PageOf("BAGL", "address", 1)[2] = "none"
  /\ PageOf("BAGL", "address", 4)[2] = "none"
  /\ PageOf("BAGL", "address", 5)[2] = "none"
  /\ Announced("BAGL", "address", 2) = <<"bip32_path", "path">>
  /\ Announced("BAGL", "address", 3) = <<"address", "address">>
BY Lengths DEF Announced, PageOf, BaglFlow, Bare, Subject

LEMMA BaglAddressAgree == Agree("BAGL", "address")
<1>1. PagesOf("BAGL", "address") = 5 /\ ApprovalPage("BAGL", "address") = 4
  BY Lengths DEF PagesOf, ApprovalPage
<1>2. Copies("BAGL", "address") =
        {<<"bip32_path", "path">>,
         <<"address", "address">>}
  BY DEF Copies
<1>3. \A n \in 1 .. 5 : n = 1 \/ n = 2 \/ n = 3 \/ n = 4 \/ n = 5
  OBVIOUS
<1>4. \A n \in 1 .. 5 :
        PageOf("BAGL", "address", n)[2] # "none" => Announced("BAGL", "address", n) \in Copies("BAGL", "address")
  BY <1>2, <1>3, BaglAddressPages
<1>5. \A c \in Copies("BAGL", "address") :
        \E n \in 1 .. 4 : Announced("BAGL", "address", n) = c /\ c[1] # "none"
  BY <1>2, BaglAddressPages
<1> QED
  BY <1>1, <1>4, <1>5 DEF Agree

LEMMA BaglTransactionPages ==
  /\ PageOf("BAGL", "transaction", 1)[2] = "none"
  /\ PageOf("BAGL", "transaction", 9)[2] = "none"
  /\ PageOf("BAGL", "transaction", 10)[2] = "none"
  /\ Announced("BAGL", "transaction", 2) = <<"txlength", "txlength">>
  /\ Announced("BAGL", "transaction", 3) = <<"nexus", "nexus">>
  /\ Announced("BAGL", "transaction", 4) = <<"chain", "chain">>
  /\ Announced("BAGL", "transaction", 5) = <<"scriptlength", "scriptlength">>
  /\ Announced("BAGL", "transaction", 6) = <<"address", "to">>
  /\ Announced("BAGL", "transaction", 7) = <<"token", "token">>
  /\ Announced("BAGL", "transaction", 8) = <<"amount", "amount">>
BY Lengths DEF Announced, PageOf, BaglFlow, Bare, Subject

LEMMA BaglTransactionAgree == Agree("BAGL", "transaction")
<1>1. PagesOf("BAGL", "transaction") = 10 /\ ApprovalPage("BAGL", "transaction") = 9
  BY Lengths DEF PagesOf, ApprovalPage
<1>2. Copies("BAGL", "transaction") =
        {<<"txlength", "txlength">>,
         <<"nexus", "nexus">>,
         <<"chain", "chain">>,
         <<"scriptlength", "scriptlength">>,
         <<"address", "to">>,
         <<"token", "token">>,
         <<"amount", "amount">>}
  BY DEF Copies
<1>3. \A n \in 1 .. 10 : n = 1 \/ n = 2 \/ n = 3 \/ n = 4 \/ n = 5 \/ n = 6 \/ n = 7 \/ n = 8 \/ n = 9 \/ n = 10
  OBVIOUS
<1>4. \A n \in 1 .. 10 :
        PageOf("BAGL", "transaction", n)[2] # "none" => Announced("BAGL", "transaction", n) \in Copies("BAGL", "transaction")
  BY <1>2, <1>3, BaglTransactionPages
<1>5. \A c \in Copies("BAGL", "transaction") :
        \E n \in 1 .. 9 : Announced("BAGL", "transaction", n) = c /\ c[1] # "none"
  BY <1>2, BaglTransactionPages
<1> QED
  BY <1>1, <1>4, <1>5 DEF Agree

LEMMA BaglCustomPages ==
  /\ PageOf("BAGL", "custom", 1)[2] = "none"
  /\ PageOf("BAGL", "custom", 7)[2] = "none"
  /\ PageOf("BAGL", "custom", 8)[2] = "none"
  /\ Announced("BAGL", "custom", 2) = <<"nexus", "nexus">>
  /\ Announced("BAGL", "custom", 3) = <<"chain", "chain">>
  /\ Announced("BAGL", "custom", 4) = <<"contract", "name">>
  /\ Announced("BAGL", "custom", 5) = <<"contract_method", "method">>
  /\ Announced("BAGL", "custom", 6) = <<"address", "args">>
BY Lengths DEF Announced, PageOf, BaglFlow, Bare, Subject

LEMMA BaglCustomAgree == Agree("BAGL", "custom")
<1>1. PagesOf("BAGL", "custom") = 8 /\ ApprovalPage("BAGL", "custom") = 7
  BY Lengths DEF PagesOf, ApprovalPage
<1>2. Copies("BAGL", "custom") =
        {<<"nexus", "nexus">>,
         <<"chain", "chain">>,
         <<"contract", "name">>,
         <<"contract_method", "method">>,
         <<"address", "args">>}
  BY DEF Copies
<1>3. \A n \in 1 .. 8 : n = 1 \/ n = 2 \/ n = 3 \/ n = 4 \/ n = 5 \/ n = 6 \/ n = 7 \/ n = 8
  OBVIOUS
<1>4. \A n \in 1 .. 8 :
        PageOf("BAGL", "custom", n)[2] # "none" => Announced("BAGL", "custom", n) \in Copies("BAGL", "custom")
  BY <1>2, <1>3, BaglCustomPages
<1>5. \A c \in Copies("BAGL", "custom") :
        \E n \in 1 .. 7 : Announced("BAGL", "custom", n) = c /\ c[1] # "none"
  BY <1>2, BaglCustomPages
<1> QED
  BY <1>1, <1>4, <1>5 DEF Agree

LEMMA NbglAddressPages ==
  /\ PageOf("NBGL", "address", 1)[2] = "none"
  /\ Announced("NBGL", "address", 2) = <<"confirm_address", "address">>
BY Lengths DEF Announced, PageOf, NbglPairs, Bare, Subject

LEMMA NbglAddressAgree == Agree("NBGL", "address")
<1>1. PagesOf("NBGL", "address") = 2 /\ ApprovalPage("NBGL", "address") = 2
  BY Lengths DEF PagesOf, ApprovalPage
<1>2. Copies("NBGL", "address") =
        {<<"confirm_address", "address">>}
  BY DEF Copies
<1>3. \A n \in 1 .. 2 : n = 1 \/ n = 2
  OBVIOUS
<1>4. \A n \in 1 .. 2 :
        PageOf("NBGL", "address", n)[2] # "none" => Announced("NBGL", "address", n) \in Copies("NBGL", "address")
  BY <1>2, <1>3, NbglAddressPages
<1>5. \A c \in Copies("NBGL", "address") :
        \E n \in 1 .. 2 : Announced("NBGL", "address", n) = c /\ c[1] # "none"
  BY <1>2, NbglAddressPages
<1> QED
  BY <1>1, <1>4, <1>5 DEF Agree

LEMMA NbglTransactionPages ==
  /\ PageOf("NBGL", "transaction", 1)[2] = "none"
  /\ PageOf("NBGL", "transaction", 9)[2] = "none"
  /\ Announced("NBGL", "transaction", 2) = <<"token", "token">>
  /\ Announced("NBGL", "transaction", 3) = <<"amount", "amount">>
  /\ Announced("NBGL", "transaction", 4) = <<"nbgl_address", "to">>
  /\ Announced("NBGL", "transaction", 5) = <<"txlength", "txlength">>
  /\ Announced("NBGL", "transaction", 6) = <<"nexus", "nexus">>
  /\ Announced("NBGL", "transaction", 7) = <<"chain", "chain">>
  /\ Announced("NBGL", "transaction", 8) = <<"scriptlength", "scriptlength">>
BY Lengths DEF Announced, PageOf, NbglPairs, Bare, Subject

LEMMA NbglTransactionAgree == Agree("NBGL", "transaction")
<1>1. PagesOf("NBGL", "transaction") = 9 /\ ApprovalPage("NBGL", "transaction") = 9
  <2>1. PagesOf("NBGL", "transaction") = Len(NbglPairs("transaction")) + 2
    BY DEF PagesOf
  <2>2. PagesOf("NBGL", "transaction") = 7 + 2
    BY <2>1, Lengths, Zenon
  <2>3. PagesOf("NBGL", "transaction") = 9
    BY <2>2
  <2> QED
    BY <2>3 DEF ApprovalPage
<1>2. Copies("NBGL", "transaction") =
        {<<"token", "token">>,
         <<"amount", "amount">>,
         <<"nbgl_address", "to">>,
         <<"txlength", "txlength">>,
         <<"nexus", "nexus">>,
         <<"chain", "chain">>,
         <<"scriptlength", "scriptlength">>}
  BY DEF Copies
<1>3. \A n \in 1 .. 9 : n = 1 \/ n = 2 \/ n = 3 \/ n = 4 \/ n = 5 \/ n = 6 \/ n = 7 \/ n = 8 \/ n = 9
  OBVIOUS
<1>4. \A n \in 1 .. 9 :
        PageOf("NBGL", "transaction", n)[2] # "none" => Announced("NBGL", "transaction", n) \in Copies("NBGL", "transaction")
  BY <1>2, <1>3, NbglTransactionPages
<1>5. \A c \in Copies("NBGL", "transaction") :
        \E n \in 1 .. 9 : Announced("NBGL", "transaction", n) = c /\ c[1] # "none"
  BY <1>2, NbglTransactionPages
<1> QED
  BY <1>1, <1>4, <1>5 DEF Agree

LEMMA NbglCustomPages ==
  /\ PageOf("NBGL", "custom", 1)[2] = "none"
  /\ PageOf("NBGL", "custom", 8)[2] = "none"
  /\ Announced("NBGL", "custom", 2) = <<"nexus", "nexus">>
  /\ Announced("NBGL", "custom", 3) = <<"chain", "chain">>
  /\ Announced("NBGL", "custom", 4) = <<"contract", "name">>
  /\ Announced("NBGL", "custom", 5) = <<"contract_method", "method">>
  /\ Announced("NBGL", "custom", 6) = <<"nbgl_address", "from">>
  /\ Announced("NBGL", "custom", 7) = <<"contract_method_args", "args">>
BY Lengths DEF Announced, PageOf, NbglPairs, Bare, Subject

LEMMA NbglCustomAgree == Agree("NBGL", "custom")
<1>1. PagesOf("NBGL", "custom") = 8 /\ ApprovalPage("NBGL", "custom") = 8
  <2>1. PagesOf("NBGL", "custom") = Len(NbglPairs("custom")) + 2
    BY DEF PagesOf
  <2>2. PagesOf("NBGL", "custom") = 6 + 2
    BY <2>1, Lengths, Zenon
  <2>3. PagesOf("NBGL", "custom") = 8
    BY <2>2
  <2> QED
    BY <2>3 DEF ApprovalPage
<1>2. Copies("NBGL", "custom") =
        {<<"nexus", "nexus">>,
         <<"chain", "chain">>,
         <<"contract", "name">>,
         <<"contract_method", "method">>,
         <<"nbgl_address", "from">>,
         <<"contract_method_args", "args">>}
  BY DEF Copies
<1>3. \A n \in 1 .. 8 : n = 1 \/ n = 2 \/ n = 3 \/ n = 4 \/ n = 5 \/ n = 6 \/ n = 7 \/ n = 8
  OBVIOUS
<1>4. \A n \in 1 .. 8 :
        PageOf("NBGL", "custom", n)[2] # "none" => Announced("NBGL", "custom", n) \in Copies("NBGL", "custom")
  BY <1>2, <1>3, NbglCustomPages
<1>5. \A c \in Copies("NBGL", "custom") :
        \E n \in 1 .. 8 : Announced("NBGL", "custom", n) = c /\ c[1] # "none"
  BY <1>2, NbglCustomPages
<1> QED
  BY <1>1, <1>4, <1>5 DEF Agree

(* BAGL approves on the page before the last one only.                     *)
LEMMA ApproveIsBeforeLast ==
  ASSUME NEW kind \in Kinds, NEW n \in 1 .. Len(BaglFlow(kind)), BaglFlow(kind)[n][1] = "Approve"
  PROVE  n = Len(BaglFlow(kind)) - 1
<1>1. CASE kind = "address"
  <2>1. /\ BaglFlow("address")[1][1] = "Confirm Address"
        /\ BaglFlow("address")[2][1] = "Path"
        /\ BaglFlow("address")[3][1] = "Address"
        /\ BaglFlow("address")[5][1] = "Reject"
    BY DEF BaglFlow, Bare
  <2>2. Len(BaglFlow(kind)) = 5
    BY <1>1, Lengths, Zenon
  <2>3. n = 1 \/ n = 2 \/ n = 3 \/ n = 4 \/ n = 5
    BY <2>2
  <2>4. n = 4
    BY <1>1, <2>1, <2>3
  <2> QED
    BY <2>2, <2>4
<1>2. CASE kind = "transaction"
  <2>1. /\ BaglFlow("transaction")[1][1] = "Review Transaction"
        /\ BaglFlow("transaction")[2][1] = "Tx Length"
        /\ BaglFlow("transaction")[3][1] = "Nexus"
        /\ BaglFlow("transaction")[4][1] = "Chain"
        /\ BaglFlow("transaction")[5][1] = "Script Length"
        /\ BaglFlow("transaction")[6][1] = "Address"
        /\ BaglFlow("transaction")[7][1] = "Token"
        /\ BaglFlow("transaction")[8][1] = "Amount"
        /\ BaglFlow("transaction")[10][1] = "Reject"
    BY DEF BaglFlow, Bare
  <2>2. Len(BaglFlow(kind)) = 10
    BY <1>2, Lengths, Zenon
  <2>3. n = 1 \/ n = 2 \/ n = 3 \/ n = 4 \/ n = 5 \/ n = 6 \/ n = 7 \/ n = 8 \/ n = 9 \/ n = 10
    BY <2>2
  <2>4. n = 9
    BY <1>2, <2>1, <2>3
  <2> QED
    BY <2>2, <2>4
<1>3. CASE kind = "custom"
  <2>1. /\ BaglFlow("custom")[1][1] = "Review Transaction"
        /\ BaglFlow("custom")[2][1] = "Nexus"
        /\ BaglFlow("custom")[3][1] = "Chain"
        /\ BaglFlow("custom")[4][1] = "Contract"
        /\ BaglFlow("custom")[5][1] = "Method"
        /\ BaglFlow("custom")[6][1] = "Method Args"
        /\ BaglFlow("custom")[8][1] = "Reject"
    BY DEF BaglFlow, Bare
  <2>2. Len(BaglFlow(kind)) = 8
    BY <1>3, Lengths, Zenon
  <2>3. n = 1 \/ n = 2 \/ n = 3 \/ n = 4 \/ n = 5 \/ n = 6 \/ n = 7 \/ n = 8
    BY <2>2
  <2>4. n = 7
    BY <1>3, <2>1, <2>3
  <2> QED
    BY <2>2, <2>4
<1> QED
  BY <1>1, <1>2, <1>3 DEF Kinds

-----------------------------------------------------------------------------
(* Facts of every review.                                                  *)
LEMMA Sizes ==
  ASSUME NEW kind \in Kinds
  PROVE  /\ Len(NbglPairs(kind)) \in 1 .. 7
         /\ PagesOf("NBGL", kind) \in {Len(NbglPairs(kind)) + 1, Len(NbglPairs(kind)) + 2}
         /\ PagesOf("BAGL", kind) = Len(BaglFlow(kind)) /\ Len(BaglFlow(kind)) \in 5 .. 10
<1>1. Len(NbglPairs(kind)) \in 1 .. 7
  <2>1. Len(NbglPairs(kind)) \in {1, 7, 6}
    BY Lengths, Zenon DEF Kinds
  <2> QED
    BY <2>1
<1>2. Len(BaglFlow(kind)) \in 5 .. 10
  <2>1. Len(BaglFlow(kind)) \in {5, 10, 8}
    BY Lengths, Zenon DEF Kinds
  <2> QED
    BY <2>1
<1>3. PagesOf("BAGL", kind) = Len(BaglFlow(kind))
  BY Zenon DEF PagesOf
<1>4. CASE kind = "address"
  <2>1. PagesOf("NBGL", kind) = 2
    BY <1>4 DEF PagesOf
  <2>2. Len(NbglPairs(kind)) = 1
    BY <1>4, Lengths, Zenon
  <2>3. PagesOf("NBGL", kind) = Len(NbglPairs(kind)) + 1
    BY <2>1, <2>2
  <2> QED
    BY <1>1, <1>2, <1>3, <2>3, Zenon
<1>5. CASE kind # "address"
  <2>1. PagesOf("NBGL", kind) = Len(NbglPairs(kind)) + 2
    BY <1>5 DEF PagesOf
  <2> QED
    BY <1>1, <1>2, <1>3, <2>1, Zenon
<1> QED
  BY <1>4, <1>5

LEMMA EveryReviewAgrees ==
  ASSUME NEW u \in {"BAGL", "NBGL"}, NEW kind \in Kinds
  PROVE  Agree(u, kind)
BY BaglAddressAgree, BaglTransactionAgree, BaglCustomAgree,
   NbglAddressAgree, NbglTransactionAgree, NbglCustomAgree, Zenon DEF Kinds

(* The page of NBGL, as Current has it, is the page by its number.         *)
LEMMA NbglCurrent ==
  ASSUME NEW kind \in Kinds, NEW n \in 1 .. PagesOf("NBGL", kind), NEW list, NEW nb,
         n > 1 /\ kind # "address" => /\ nb = Len(NbglPairs(kind))
                                     /\ \A k \in 1 .. nb : list[k] = NbglPairs(kind)[k]
  PROVE  PageOf("NBGL", kind, n) =
           IF n = 1 THEN Bare("Start") ELSE IF kind = "address" THEN NbglPairs(kind)[1]
           ELSE IF n = nb + 2 THEN Bare("Sign") ELSE list[n - 1]
<1>0. CASE kind = "address"
  <2>1. PagesOf("NBGL", kind) = 2
    BY <1>0 DEF PagesOf
  <2>2. Len(NbglPairs(kind)) = 1
    BY <1>0, Lengths, Zenon
  <2>3. n = 1 \/ n = 2
    BY <2>1
  <2>4. CASE n = 1
    BY <2>4 DEF PageOf
  <2>5. CASE n = 2
    <3>1. n \in 2 .. Len(NbglPairs(kind)) + 1 /\ n - 1 = 1 /\ n # 1
      BY <2>2, <2>5
    <3>2. PageOf("NBGL", kind, n) = NbglPairs(kind)[n - 1]
      BY <3>1 DEF PageOf
    <3>3. PageOf("NBGL", kind, n) = NbglPairs(kind)[1]
      BY <3>1, <3>2, Zenon
    <3> QED
      BY <1>0, <3>1, <3>3, Zenon
  <2> QED
    BY <2>3, <2>4, <2>5
<1>a. SUFFICES ASSUME kind # "address"
               PROVE  PageOf("NBGL", kind, n) =
                        IF n = 1 THEN Bare("Start")
                        ELSE IF n = nb + 2 THEN Bare("Sign") ELSE list[n - 1]
  BY <1>0, Zenon
<1> DEFINE len == Len(NbglPairs(kind))
<1>1. len \in 1 .. 7 /\ PagesOf("NBGL", kind) \in {len + 1, len + 2}
  BY Sizes
<1>2. PageOf("NBGL", kind, n) =
        IF n \in 2 .. len + 1 THEN NbglPairs(kind)[n - 1]
        ELSE IF n = 1 THEN Bare("Start") ELSE Bare("Sign")
  BY DEF PageOf
<1> HIDE DEF len
<1>3. n \in 1 .. len + 2
  BY <1>1
<1>4. CASE n = 1
  BY <1>2, <1>4
<1>5. CASE n \in 2 .. len + 1
  <2>1. n # 1 /\ n # nb + 2 /\ n - 1 \in 1 .. nb
    BY <1>1, <1>5, <1>a DEF len
  <2> QED
    BY <1>2, <1>5, <1>a, <2>1
<1>6. CASE n = len + 2
  <2>1. n # 1 /\ n = nb + 2 /\ n \notin 2 .. len + 1
    BY <1>1, <1>6, <1>a DEF len
  <2> QED
    BY <1>2, <2>1
<1> QED
  BY <1>1, <1>3, <1>4, <1>5, <1>6

(* A text that was copied to a cleared buffer and leaves room for a NUL is *)
(* what a page shows.                                                      *)
LEMMA LengthIsNat ==
  ASSUME NEW r \in Requests, NEW f \in Fields
  PROVE  /\ Length(r, f) \in Nat /\ Text(r, f).length = Length(r, f)
         /\ Text(r, f).nul \in Nat /\ Text(r, f).nul <= Length(r, f) /\ Text(r, f).line \in Nat
         /\ Text(r, f).of = r.id /\ Text(r, f).field = f
<1>1. r.length[f] \in Nat /\ r.nul[f] \in Nat /\ r.line[f] \in Nat /\ r.nul[f] <= r.length[f]
  BY RequestsAssumption
<1>2. Digits(r.length[f]) \in Nat
  BY DEF Digits
<1>3. Length(r, f) \in Nat
  BY <1>1, <1>2 DEF Length
<1>4. f \notin Formatted => Length(r, f) = r.length[f]
  BY DEF Length, Formatted
<1>5. /\ Text(r, f).length = Length(r, f) /\ Text(r, f).line = r.line[f]
      /\ Text(r, f).nul = IF f \in Formatted THEN Length(r, f) ELSE r.nul[f]
      /\ Text(r, f).of = r.id /\ Text(r, f).field = f
  BY DEF Text
<1>6. Text(r, f).nul \in Nat /\ Text(r, f).nul <= Length(r, f)
  BY <1>1, <1>3, <1>4, <1>5
<1> QED
  BY <1>1, <1>3, <1>5, <1>6

LEMMA FilledIsClean ==
  ASSUME NEW old, NEW text, text.length \in Nat
  PROVE  Filled(old, text) = [text |-> text, behind |-> NoText]
BY DEF Filled, Moved, Cleared, NoText
LEMMA SizesAreNat == \A b \in Buffers : Size[b] \in Nat
BY DEF Buffers, Size

LEMMA CopiesAreFields ==
  ASSUME NEW u \in {"BAGL", "NBGL"}, NEW kind \in Kinds, NEW c \in Copies(u, kind)
  PROVE  c[1] \in Buffers /\ c[2] \in Fields /\ c = <<c[1], c[2]>>
<1>1. CASE kind = "address"
  BY <1>1 DEF Copies, Buffers, Size, Fields
<1>2. CASE kind = "transaction"
  BY <1>2 DEF Copies, Buffers, Size, Fields
<1>3. CASE kind = "custom"
  BY <1>3 DEF Copies, Buffers, Size, Fields
<1> QED
  BY <1>1, <1>2, <1>3 DEF Kinds

LEMMA OneCopyPerBuffer ==
  ASSUME NEW u \in {"BAGL", "NBGL"}, NEW kind \in Kinds,
         NEW c \in Copies(u, kind), NEW d \in Copies(u, kind), c[1] = d[1]
  PROVE  c = d
<1>1. CASE kind = "address"
  BY <1>1 DEF Copies
<1>2. CASE kind = "transaction"
  BY <1>2 DEF Copies
<1>3. CASE kind = "custom"
  BY <1>3 DEF Copies
<1> QED
  BY <1>1, <1>2, <1>3 DEF Kinds

-----------------------------------------------------------------------------
(* The inductive invariant.  The page is one of the review, NBGL's list is *)
(* that of the review once the user has gone on from the start page, the   *)
(* buffers hold the fields of the request, but for the path once a later   *)
(* request has failed, and the pages up to the one displayed have been     *)
(* read.                                                                   *)
PageOfReview == Reviewing => request.kind = flow /\ page \in 1 .. PagesOf(ui, flow)

PairsListed ==
  ui = "NBGL" /\ Reviewing /\ page > 1 /\ flow # "address" =>
    /\ nbPairs = Len(NbglPairs(flow))
    /\ \A k \in 1 .. nbPairs : pairs[k] = NbglPairs(flow)[k]
    /\ maxLines = Lines(flow)

(* The display has what was announced of c: not of a path that was cleared.*)
Kept(c) == served \/ c[2] # "path"

BuffersFilled ==
  Reviewing =>
    \A c \in Copies(ui, flow) :
      /\ c[2] # "args" /\ Kept(c) =>
           buffers[c[1]] = [text |-> Text(request, c[2]), behind |-> NoText]
      /\ ~Kept(c) => buffers[c[1]] = [text |-> NoText, behind |-> NoText]

(* What reading a page leaves in the user's memory.                        *)
Reads(u, r, n) == <<PageOf(u, r.kind, n)[1], Shown(u, r, Announced(u, r.kind, n)[2])>>
Readable(u, r, n) ==
  PageOf(u, r.kind, n)[2] # "none" /\ Displayable(r, Announced(u, r.kind, n))

PagesRead ==
  Reviewing =>
    \A n \in 1 .. page :
      Readable(ui, request, n) /\ Kept(Announced(ui, request.kind, n)) =>
        Reads(ui, request, n) \in seen

ReviewShown ==
  /\ ui \in {"BAGL", "NBGL"} /\ request \in Requests /\ DOMAIN buffers = Buffers
  /\ PageOfReview
  /\ PairsListed
  /\ BuffersFilled

IInv ==
  /\ ReviewShown
  /\ PagesRead
  /\ CallbackFitsReview
  /\ ApprovedAllPagesSeen

(* A text that ends in its buffer is printed up to its first NUL.          *)
LEMMA PrintedText ==
  ASSUME NEW b \in Buffers, NEW text, text.length \in Nat, text.nul \in Nat,
         text.nul <= text.length, text.nul < Size[b],
         buffers[b] = [text |-> text, behind |-> NoText]
  PROVE  Printed(b) = Excerpt(text, text.nul)
<1>1. Size[b] \in Nat
  BY SizesAreNat
<1>2. buffers[b].text = text /\ buffers[b].behind = NoText
  OBVIOUS
<1>3. CASE text.nul < text.length
  BY <1>2, <1>3 DEF Printed
<1>4. CASE text.nul = text.length
  BY <1>1, <1>2, <1>4 DEF Printed
<1> QED
  BY <1>3, <1>4

LEMMA VisibleText ==
  ASSUME NEW b \in Buffers, NEW r \in Requests, NEW f \in Fields, Text(r, f).nul < Size[b],
         buffers[b] = [text |-> Text(r, f), behind |-> NoText],
         OneLine <=> ui = "NBGL" /\ r.kind = "custom"
  PROVE  Visible(b) = Shown(ui, r, f)
<1> DEFINE text == Text(r, f)
<1>1. text.length \in Nat /\ text.nul \in Nat /\ text.nul <= text.length
  BY LengthIsNat
<1>2. Printed(b) = Excerpt(text, text.nul)
  BY <1>1, PrintedText
<1>3. buffers[b].text = text
  OBVIOUS
<1> HIDE DEF text
<1>4. Visible(b) =
        IF OneLine THEN Excerpt(Printed(b), Least(Printed(b).length, text.line)) ELSE Printed(b)
  BY <1>3 DEF Visible
<1>5. /\ Printed(b).length = text.nul
      /\ \A n : Excerpt(Printed(b), n) = Excerpt(text, n)
  BY <1>2 DEF Excerpt
<1>6. Visible(b) = IF OneLine THEN Excerpt(text, Least(text.nul, text.line))
                   ELSE Excerpt(text, text.nul)
  BY <1>2, <1>4, <1>5, Zenon
<1>7. Shown(ui, r, f) =
        Excerpt(text, IF ui = "NBGL" /\ r.kind = "custom" THEN Least(text.nul, text.line)
                      ELSE text.nul)
  BY DEF Shown, text
<1>8. CASE OneLine
  BY <1>6, <1>7, <1>8, Zenon
<1>9. CASE ~OneLine
  BY <1>6, <1>7, <1>9, Zenon
<1> QED
  BY <1>8, <1>9

(* The limit to one line on the pages that show a value.                   *)
LEMMA LimitOfReview ==
  ASSUME ReviewShown, Reviewing, ui = "NBGL" => page > 1
  PROVE  OneLine <=> ui = "NBGL" /\ request.kind = "custom"
<1>1. request.kind = flow
  BY DEF IInv, ReviewShown, PageOfReview
<1>2. ui = "NBGL" /\ flow # "address" => maxLines = Lines(flow)
  BY DEF IInv, ReviewShown, PairsListed
<1> QED
  BY <1>1, <1>2 DEF OneLine, Lines

(* A page of the review shows the field it announces.                      *)
LEMMA PageReads ==
  ASSUME ReviewShown, Reviewing, NEW n \in 1 .. PagesOf(ui, flow), Readable(ui, request, n),
         Kept(Announced(ui, flow, n)), OneLine <=> ui = "NBGL" /\ request.kind = "custom"
  PROVE  <<PageOf(ui, flow, n)[1], Visible(PageOf(ui, flow, n)[2])>> = Reads(ui, request, n)
<1> DEFINE c == Announced(ui, flow, n)
<1>1. ui \in {"BAGL", "NBGL"} /\ flow \in Kinds /\ request \in Requests /\ request.kind = flow
  BY DEF IInv, ReviewShown, PageOfReview, Reviewing
<1>2. PageOf(ui, flow, n)[2] # "none" /\ Displayable(request, c) /\ Kept(c)
  BY <1>1 DEF Readable
<1>3. c \in Copies(ui, flow)
  BY <1>1, <1>2, EveryReviewAgrees DEF Agree
<1>4. c[1] = PageOf(ui, flow, n)[2]
  BY DEF Announced
<1> HIDE DEF c
<1>5. c[1] \in Buffers /\ c[2] \in Fields
  BY <1>1, <1>3, CopiesAreFields
<1>6. c[2] # "args" /\ Text(request, c[2]).nul < Size[c[1]]
  BY <1>2 DEF Displayable
<1>7. buffers[c[1]] = [text |-> Text(request, c[2]), behind |-> NoText]
  BY <1>2, <1>3, <1>6 DEF IInv, ReviewShown, BuffersFilled
<1>9. Visible(c[1]) = Shown(ui, request, c[2])
  BY <1>1, <1>5, <1>6, <1>7, VisibleText
<1> QED
  BY <1>1, <1>4, <1>9 DEF Reads, c

LEMMA CurrentPage ==
  ASSUME ReviewShown, Reviewing
  PROVE  Current = PageOf(ui, flow, page)
<1>1. flow \in Kinds /\ page \in 1 .. PagesOf(ui, flow)
  BY DEF IInv, ReviewShown, PageOfReview, Reviewing
<1>2. CASE ui = "BAGL"
  BY <1>2 DEF Current, PageOf
<1>3. CASE ui = "NBGL"
  <2>1. page > 1 /\ flow # "address" =>
          /\ nbPairs = Len(NbglPairs(flow))
          /\ \A k \in 1 .. nbPairs : pairs[k] = NbglPairs(flow)[k]
    BY <1>3 DEF IInv, ReviewShown, PairsListed
  <2> QED
    BY <1>1, <1>3, <2>1, NbglCurrent DEF Current
<1> QED
  BY <1>2, <1>3 DEF IInv, ReviewShown

(* The first page of a review shows no field.                              *)
LEMMA FirstPages ==
  ASSUME NEW u \in {"BAGL", "NBGL"}, NEW kind \in Kinds
  PROVE  PageOf(u, kind, 1)[2] = "none" /\ 1 \in 1 .. PagesOf(u, kind)
<1>1. PageOf(u, kind, 1)[2] = "none"
  BY BaglAddressPages, BaglTransactionPages, BaglCustomPages,
     NbglAddressPages, NbglTransactionPages, NbglCustomPages, Zenon DEF Kinds
<1>2. 1 \in 1 .. PagesOf(u, kind)
  <2>1. CASE u = "BAGL"
    <3> DEFINE len == Len(BaglFlow(kind))
    <3>1. len \in 5 .. 10 /\ PagesOf("BAGL", kind) = len
      BY Sizes
    <3> HIDE DEF len
    <3>2. 1 \in 1 .. PagesOf("BAGL", kind)
      BY <3>1
    <3> QED
      BY <2>1, <3>2
  <2>2. CASE u = "NBGL"
    <3> DEFINE len == Len(NbglPairs(kind))
    <3>1. len \in 1 .. 7 /\ PagesOf("NBGL", kind) \in {len + 1, len + 2}
      BY Sizes
    <3> HIDE DEF len
    <3>2. 1 \in 1 .. PagesOf("NBGL", kind)
      BY <3>1
    <3> QED
      BY <2>2, <3>2
  <2> QED
    BY <2>1, <2>2
<1> QED
  BY <1>1, <1>2

(* Only BAGL displays a path, in a buffer of its own.                      *)
LEMMA PathBuffer ==
  ASSUME NEW u \in {"BAGL", "NBGL"}, NEW kind \in Kinds, NEW c \in Copies(u, kind)
  PROVE  /\ c[2] = "path" <=> c[1] = "bip32_path"
         /\ c[2] = "path" => u = "BAGL"
<1>1. CASE kind = "address"
  BY <1>1 DEF Copies
<1>2. CASE kind = "transaction"
  BY <1>2 DEF Copies
<1>3. CASE kind = "custom"
  BY <1>3 DEF Copies
<1> QED
  BY <1>1, <1>2, <1>3 DEF Kinds

(* The page of a path that was cleared is empty.                           *)
LEMMA ClearedIsBlank ==
  ASSUME NEW b \in Buffers, buffers[b] = [text |-> NoText, behind |-> NoText], ui = "BAGL"
  PROVE  Visible(b) = Blank
<1>1. Size[b] > 0
  BY DEF Buffers, Size
<1>2. buffers[b].text = NoText /\ buffers[b].behind = NoText
  OBVIOUS
<1>3. NoText.nul = 0 /\ NoText.length = 0
  BY DEF NoText
<1>4. Printed(b) = Excerpt(NoText, 0)
  <2>1. ~(NoText.nul < NoText.length)
    BY <1>3
  <2>2. ~(NoText.length >= Size[b])
    <3>1. Size[b] \in Nat
      BY SizesAreNat
    <3> QED
      BY <1>1, <1>3, <3>1
  <2> QED
    BY <1>2, <1>3, <2>1, <2>2, Zenon DEF Printed
<1>5. ~OneLine
  BY DEF OneLine
<1> QED
  BY <1>4, <1>5 DEF Visible, Blank

LEMMA PagesShow == ReviewShown => PageShowsItsField
<1> SUFFICES ASSUME ReviewShown, Reviewing, Current[2] # "none"
             PROVE  LET field == Subject(flow, Current[1])
                    IN  IF ~served /\ field = "path" THEN Visible(Current[2]) = Blank
                        ELSE Displayable(request, <<Current[2], field>>) =>
                               Visible(Current[2]) = Shown(ui, request, field)
  BY DEF PageShowsItsField
<1> DEFINE p == PageOf(ui, flow, page)
           c == Announced(ui, flow, page)
<1>1. /\ page \in 1 .. PagesOf(ui, flow) /\ request.kind = flow
      /\ ui \in {"BAGL", "NBGL"} /\ flow \in Kinds
  BY DEF IInv, ReviewShown, PageOfReview, Reviewing
<1>2. Current = p /\ p[2] # "none"
  BY CurrentPage
<1>3. c = <<p[2], Subject(flow, p[1])>>
  BY DEF Announced
<1>4. c \in Copies(ui, flow) /\ c[1] = p[2] /\ c[2] = Subject(flow, p[1])
  BY <1>1, <1>2, <1>3, EveryReviewAgrees DEF Agree
<1>5. ui = "NBGL" => page > 1
  <2>1. page = 1 => p[2] = "none"
    BY <1>1, FirstPages
  <2> QED
    BY <1>1, <1>2, <2>1
<1>6. OneLine <=> ui = "NBGL" /\ request.kind = "custom"
  BY <1>5, LimitOfReview
<1>7. CASE ~served /\ c[2] = "path"
  <2>1. ~Kept(c)
    BY <1>7 DEF Kept
  <2> HIDE DEF c
  <2>2. c[1] \in Buffers /\ ui = "BAGL"
    BY <1>1, <1>4, <1>7, CopiesAreFields, PathBuffer
  <2>3. buffers[c[1]] = [text |-> NoText, behind |-> NoText]
    BY <1>4, <2>1 DEF IInv, ReviewShown, BuffersFilled
  <2>4. Visible(c[1]) = Blank
    BY <2>2, <2>3, ClearedIsBlank
  <2> QED
    BY <1>2, <1>4, <1>7, <2>4
<1>8. CASE ~(~served /\ c[2] = "path")
  <2>1. Kept(c)
    BY <1>8 DEF Kept
  <2>2. SUFFICES ASSUME Displayable(request, c)
                 PROVE  Visible(p[2]) = Shown(ui, request, c[2])
    BY <1>2, <1>3, <1>4, <1>8
  <2>3. Readable(ui, request, page)
    BY <1>1, <1>2, <2>2 DEF Readable
  <2>4. <<p[1], Visible(p[2])>> = Reads(ui, request, page)
    BY <1>1, <1>6, <2>1, <2>3, PageReads
  <2>5. Reads(ui, request, page) = <<p[1], Shown(ui, request, c[2])>>
    BY <1>1 DEF Reads
  <2> QED
    BY <2>4, <2>5
<1> QED
  BY <1>7, <1>8

-----------------------------------------------------------------------------
(* The initial states and the steps, one by one.                           *)
LEMMA InitHolds == Init => IInv
BY DEF Init, IInv, ReviewShown, PageOfReview, PairsListed, BuffersFilled, PagesRead, CallbackFitsReview,
       ApprovedAllPagesSeen, Reviewing, Kinds, NoDecision, ZeroBuffers

LEMMA StutterKeeps ==
  ASSUME IInv, UNCHANGED vars
  PROVE  IInv'
<1>1. PageOfReview' /\ PairsListed' /\ CallbackFitsReview'
  BY DEF vars, IInv, ReviewShown, PageOfReview, PairsListed, CallbackFitsReview, Reviewing, Lines
<1>2. BuffersFilled' /\ PagesRead' /\ ApprovedAllPagesSeen'
  BY DEF vars, IInv, ReviewShown, BuffersFilled, PagesRead, ApprovedAllPagesSeen, Reviewing, Kept
<1> QED
  BY <1>1, <1>2 DEF vars, IInv, ReviewShown

(* A request that fails leaves the review as it is, but not served, and the*)
(* path cleared.                                                           *)
LEMMA FailKeeps ==
  ASSUME IInv, NEW r \in Requests, DisplayFails(r)
  PROVE  IInv'
<1>1. /\ UNCHANGED <<ui, callback, pairs, nbPairs, maxLines, flow, page, request, seen, decision>>
      /\ served' = FALSE
      /\ buffers' = [buffers EXCEPT !["bip32_path"] = [text |-> NoText, behind |-> NoText]]
  BY DEF DisplayFails, Cleared
<1>2. PageOfReview' /\ PairsListed' /\ CallbackFitsReview' /\ ApprovedAllPagesSeen'
  BY <1>1 DEF IInv, ReviewShown, PageOfReview, PairsListed, CallbackFitsReview, ApprovedAllPagesSeen,
              Reviewing, Lines
<1>3. PagesRead'
  BY <1>1 DEF IInv, ReviewShown, PagesRead, Kept, Reviewing
<1>4. BuffersFilled'
  <2> SUFFICES ASSUME Reviewing, NEW c \in Copies(ui, flow)
               PROVE  /\ c[2] # "args" /\ c[2] # "path" =>
                           buffers'[c[1]] = [text |-> Text(request, c[2]), behind |-> NoText]
                      /\ c[2] = "path" => buffers'[c[1]] = [text |-> NoText, behind |-> NoText]
    BY <1>1 DEF BuffersFilled, Kept, Reviewing
  <2>1. ui \in {"BAGL", "NBGL"} /\ flow \in Kinds
    BY DEF IInv, ReviewShown, Reviewing
  <2>2. c[1] \in Buffers /\ (c[2] = "path" <=> c[1] = "bip32_path")
    BY <2>1, CopiesAreFields, PathBuffer
  <2>3. c[2] # "args" /\ c[2] # "path" =>
          buffers[c[1]] = [text |-> Text(request, c[2]), behind |-> NoText]
    BY DEF IInv, ReviewShown, BuffersFilled, Kept
  <2>4. DOMAIN buffers = Buffers
    BY DEF IInv, ReviewShown
  <2>5. CASE c[1] = "bip32_path"
    BY <1>1, <2>2, <2>4, <2>5
  <2>6. CASE c[1] # "bip32_path"
    <3>1. buffers'[c[1]] = buffers[c[1]]
      BY <1>1, <2>2, <2>4, <2>6
    <3> QED
      BY <2>2, <2>3, <2>6, <3>1
  <2> QED
    BY <2>5, <2>6
<1> QED
  BY <1>1, <1>2, <1>3, <1>4 DEF IInv, ReviewShown

LEMMA OverrunKeeps ==
  ASSUME IInv, NEW r \in Requests, DisplayOverruns(r)
  PROVE  IInv'
BY DEF DisplayOverruns, IInv, ReviewShown, PageOfReview, PairsListed, BuffersFilled, PagesRead,
       CallbackFitsReview, ApprovedAllPagesSeen, Reviewing, Kinds

LEMMA PowerCycleKeeps ==
  ASSUME IInv, PowerCycle
  PROVE  IInv'
BY DEF PowerCycle, IInv, ReviewShown, PageOfReview, PairsListed, BuffersFilled, PagesRead,
       CallbackFitsReview, ApprovedAllPagesSeen, Reviewing, Kinds, NoDecision, ZeroBuffers

LEMMA DismissKeeps ==
  ASSUME IInv, Dismiss
  PROVE  IInv'
BY DEF Dismiss, UserActs, IInv, ReviewShown, PageOfReview, PairsListed, BuffersFilled, PagesRead,
       CallbackFitsReview, ApprovedAllPagesSeen, Reviewing, Kinds

(* A new review: its buffers are filled.                                   *)
LEMMA ReviewKeeps ==
  ASSUME IInv, NEW r \in Requests, DisplayReview(r)
  PROVE  IInv'
<1>1. r.kind \in Kinds
  BY RequestsAssumption
<1>2. /\ flow' = r.kind /\ page' = 1 /\ request' = r /\ served' = TRUE /\ ui' = ui
      /\ decision'.choice = "none"
  BY DEF DisplayReview, StartReview, NoDecision
<1>3. ui \in {"BAGL", "NBGL"}
  BY DEF IInv, ReviewShown
<1>4. PageOfReview'
  BY <1>1, <1>2, <1>3, FirstPages DEF PageOfReview
<1>5. PairsListed'
  BY <1>2 DEF PairsListed
<1>6. BuffersFilled'
  <2>1. SUFFICES ASSUME NEW c \in Copies(ui, r.kind), c[2] # "args"
                 PROVE  buffers'[c[1]] = [text |-> Text(r, c[2]), behind |-> NoText]
    BY <1>2 DEF BuffersFilled, Kept
  <2>2. c[1] \in Buffers /\ c[2] \in Fields
    BY <1>1, <1>3, CopiesAreFields
  <2> DEFINE d == CHOOSE d \in Copies(ui, r.kind) : d[1] = c[1]
  <2>3. d \in Copies(ui, r.kind) /\ d[1] = c[1]
    OBVIOUS
  <2>4. d = c
    <3> HIDE DEF d
    <3> QED
      BY <1>1, <1>3, <2>3, OneCopyPerBuffer
  <2>5. PICK args \in Arguments(r) :
          buffers' = [b \in Buffers |->
            IF \E e \in Copies(ui, r.kind) : e[1] = b
            THEN LET e == CHOOSE e \in Copies(ui, r.kind) : e[1] = b
                 IN  Filled(buffers[b], IF e[2] = "args" THEN args ELSE Text(r, e[2]))
            ELSE buffers[b]]
    BY DEF DisplayReview
  <2>6. buffers'[c[1]] = Filled(buffers[c[1]], IF d[2] = "args" THEN args ELSE Text(r, d[2]))
    BY <2>2, <2>5
  <2>7. buffers'[c[1]] = Filled(buffers[c[1]], Text(r, c[2]))
    <3> HIDE DEF d
    <3> QED
      BY <2>1, <2>4, <2>6
  <2> QED
    BY <2>2, <2>7, LengthIsNat, FilledIsClean
<1>7. PagesRead'
  <2>1. PageOf(ui, r.kind, 1)[2] = "none"
    BY <1>1, <1>3, FirstPages
  <2>2. \A n \in 1 .. 1 : ~Readable(ui, r, n)
    BY <2>1 DEF Readable
  <2> QED
    BY <1>2, <2>2 DEF PagesRead
<1>8. CallbackFitsReview'
  BY <1>2 DEF CallbackFitsReview, DisplayReview, StartReview
<1>9. ApprovedAllPagesSeen'
  BY <1>2 DEF ApprovedAllPagesSeen
<1>10. DOMAIN buffers' = Buffers
  BY DEF DisplayReview
<1> QED
  BY <1>2, <1>3, <1>4, <1>5, <1>6, <1>7, <1>8, <1>9, <1>10 DEF IInv, ReviewShown

(* The page that comes up is read, in the state it comes up in.            *)
PageIsRead ==
  Readable(ui, request, page) /\ Kept(Announced(ui, request.kind, page)) =>
    Reads(ui, request, page) \in Reading

LEMMA CurrentIsRead == ReviewShown /\ Reviewing /\ (ui = "NBGL" => page > 1) => PageIsRead
<1> SUFFICES ASSUME ReviewShown, Reviewing, ui = "NBGL" => page > 1,
                    Readable(ui, request, page), Kept(Announced(ui, request.kind, page))
             PROVE  Reads(ui, request, page) \in Reading
  BY DEF PageIsRead
<1> DEFINE p == PageOf(ui, flow, page)
<1>1. request.kind = flow /\ page \in 1 .. PagesOf(ui, flow)
  BY DEF IInv, ReviewShown, PageOfReview
<1>2. p[2] # "none" /\ Current = p
  BY <1>1, CurrentPage DEF Readable
<1>3. Reading = {<<p[1], Visible(p[2])>>}
  <2> HIDE DEF p
  <2> QED
    BY <1>2 DEF Reading
<1> QED
  BY <1>1, <1>3, LimitOfReview, PageReads

LEMMA CurrentIsReadNext ==
  (ReviewShown /\ Reviewing /\ (ui = "NBGL" => page > 1) => PageIsRead)'
BY CurrentIsRead, PTL

LEMMA TurnKeeps ==
  ASSUME IInv, Turn
  PROVE  IInv'
<1>1. /\ Reviewing /\ flow \in Kinds /\ ui \in {"BAGL", "NBGL"} /\ request.kind = flow
      /\ page \in 1 .. PagesOf(ui, flow)
  BY DEF Turn, IInv, ReviewShown, PageOfReview, Reviewing
<1>2. UNCHANGED <<ui, buffers, callback, request, served, pairs, nbPairs, maxLines, flow, decision>>
  BY DEF Turn, UserActs
<1>3. LastPage = PagesOf(ui, flow)
  <2>1. CASE ui = "BAGL"
    BY <2>1 DEF LastPage, PagesOf
  <2>2. CASE ui = "NBGL"
    <3>1. page > 1
      BY <2>2 DEF Turn
    <3>2. flow # "address" => nbPairs = Len(NbglPairs(flow))
      BY <1>1, <2>2, <3>1 DEF IInv, ReviewShown, PairsListed
    <3> QED
      BY <2>2, <3>2 DEF LastPage, PagesOf
  <2> QED
    BY <1>1, <2>1, <2>2
<1>4. /\ page' \in {page - 1, page + 1}
      /\ page' \in 1 .. PagesOf(ui, flow)
      /\ ui = "NBGL" => page > 1 /\ page' > 1
  <2>1. page' \in {page - 1, page + 1}
    BY DEF Turn, Within
  <2>2. page' \in (IF ui = "NBGL" THEN 2 ELSE 1) .. PagesOf(ui, flow)
    BY <1>3 DEF Turn
  <2>3. PagesOf(ui, flow) \in Nat
    <3> DEFINE last == PagesOf(ui, flow)
    <3>1. page \in 1 .. last /\ page' \in (IF ui = "NBGL" THEN 2 ELSE 1) .. last
      BY <1>1, <2>2
    <3>2. CASE ui = "BAGL"
      BY <1>1, <3>2, Sizes
    <3>3. CASE ui = "NBGL"
      <4> DEFINE len == Len(NbglPairs(flow))
      <4>1. len \in 1 .. 7 /\ PagesOf("NBGL", flow) \in {len + 1, len + 2}
        BY <1>1, Sizes
      <4> HIDE DEF len
      <4>2. PagesOf("NBGL", flow) \in Nat
        BY <4>1
      <4> QED
        BY <3>3, <4>2
    <3> QED
      BY <1>1, <3>2, <3>3
  <2>4. ui = "NBGL" => page > 1
    BY DEF Turn
  <2> QED
    BY <2>1, <2>2, <2>3, <2>4
<1>5. PageOfReview'
  BY <1>1, <1>2, <1>4 DEF PageOfReview
<1>6. PairsListed'
  BY <1>1, <1>2, <1>4 DEF IInv, ReviewShown, PairsListed, Lines
<1>7. BuffersFilled'
  BY <1>1, <1>2 DEF IInv, ReviewShown, BuffersFilled, Reviewing, Kept
<1>8. ReviewShown'
  BY <1>2, <1>5, <1>6, <1>7 DEF IInv, ReviewShown
<1>9. PagesRead'
  <2>1. SUFFICES ASSUME NEW n \in 1 .. page', Readable(ui, request, n),
                        Kept(Announced(ui, request.kind, n))
                 PROVE  Reads(ui, request, n) \in seen'
    BY <1>2 DEF PagesRead, Kept
  <2>2. seen' = seen \cup Reading'
    BY DEF Turn, Read
  <2>3. CASE n \in 1 .. page
    BY <1>1, <2>1, <2>2, <2>3 DEF IInv, ReviewShown, PagesRead
  <2>4. CASE n = page'
    <3>1. PageIsRead'
      BY <1>1, <1>2, <1>4, <1>8, CurrentIsReadNext DEF Reviewing
    <3>2. Reads(ui, request, page') \in Reading'
      BY <1>2, <2>1, <2>4, <3>1 DEF PageIsRead, Kept
    <3> QED
      BY <2>2, <2>4, <3>2
  <2>5. n \in 1 .. page \/ n = page'
    BY <1>1, <1>4
  <2> QED
    BY <2>3, <2>4, <2>5
<1>10. CallbackFitsReview' /\ ApprovedAllPagesSeen'
  BY <1>2 DEF IInv, ReviewShown, CallbackFitsReview, ApprovedAllPagesSeen, Reviewing
<1> QED
  BY <1>8, <1>9, <1>10 DEF IInv, ReviewShown

LEMMA ContinueKeeps ==
  ASSUME IInv, ContinueReview
  PROVE  IInv'
<1> DEFINE list == NbglPairs(flow)
<1>1. /\ Reviewing /\ flow \in Kinds /\ ui = "NBGL" /\ page = 1 /\ page' = 2
      /\ request.kind = flow
  BY DEF ContinueReview, IInv, ReviewShown, PageOfReview, Reviewing
<1>2. UNCHANGED <<ui, buffers, callback, request, served, flow, decision>>
  BY DEF ContinueReview, UserActs
<1>3. Len(list) \in 1 .. 7 /\ PagesOf("NBGL", flow) \in {Len(list) + 1, Len(list) + 2}
  BY <1>1, Sizes
<1>4. flow # "address" =>
        nbPairs' = Len(list) /\ maxLines' = Lines(flow) /\ \A k \in 1 .. nbPairs' : pairs'[k] = list[k]
  <2>0. SUFFICES ASSUME flow # "address"
                 PROVE  /\ nbPairs' = Len(list) /\ maxLines' = Lines(flow)
                        /\ \A k \in 1 .. nbPairs' : pairs'[k] = list[k]
    OBVIOUS
  <2>1. nbPairs' = Len(list) /\ maxLines' = Lines(flow)
    BY <2>0 DEF ContinueReview, Count
  <2>2. pairs' = [k \in 1 .. 7 |-> IF k <= Len(list) THEN list[k] ELSE pairs[k]]
    BY <2>0 DEF ContinueReview, Listed
  <2> DEFINE len == Len(list)
  <2> HIDE DEF list
  <2>3. len \in 1 .. 7 /\ nbPairs' = len
    BY <1>3, <2>1
  <2>4. pairs' = [k \in 1 .. 7 |-> IF k <= len THEN list[k] ELSE pairs[k]]
    BY <2>2
  <2> HIDE DEF len
  <2>5. \A k \in 1 .. len : pairs'[k] = list[k]
    BY <2>3, <2>4
  <2> QED
    BY <2>1, <2>3, <2>5
<1>5. page' \in 1 .. PagesOf("NBGL", flow)
  <2> DEFINE len == Len(list)
  <2>1. len \in 1 .. 7 /\ PagesOf("NBGL", flow) \in {len + 1, len + 2}
    BY <1>3
  <2> HIDE DEF len
  <2> QED
    BY <1>1, <2>1
<1>6. PageOfReview'
  BY <1>1, <1>2, <1>5 DEF PageOfReview
<1>7. PairsListed'
  BY <1>2, <1>4 DEF PairsListed, Lines
<1>8. BuffersFilled'
  BY <1>1, <1>2 DEF IInv, ReviewShown, BuffersFilled, Reviewing, Kept
<1>9. ReviewShown'
  BY <1>2, <1>6, <1>7, <1>8 DEF IInv, ReviewShown
<1>10. PagesRead'
  <2>1. SUFFICES ASSUME NEW n \in 1 .. page', Readable(ui, request, n),
                        Kept(Announced(ui, request.kind, n))
                 PROVE  Reads(ui, request, n) \in seen'
    BY <1>2 DEF PagesRead, Kept
  <2>2. seen' = Reading'
    BY DEF ContinueReview, Read
  <2>3. n # 1
    BY <1>1, <2>1, FirstPages DEF Readable
  <2>4. n = page'
    BY <1>1, <2>3
  <2>5. PageIsRead'
    BY <1>1, <1>2, <1>9, CurrentIsReadNext DEF Reviewing
  <2>6. Reads(ui, request, page') \in Reading'
    BY <1>2, <2>1, <2>4, <2>5 DEF PageIsRead, Kept
  <2> QED
    BY <2>2, <2>4, <2>6
<1>11. CallbackFitsReview' /\ ApprovedAllPagesSeen'
  BY <1>1, <1>2 DEF IInv, ReviewShown, CallbackFitsReview, ApprovedAllPagesSeen
<1> QED
  BY <1>9, <1>10, <1>11 DEF IInv, ReviewShown

(* Whoever is on the page where the decision is taken has read every page  *)
(* before it, and every field that was copied has a page there.            *)
LEMMA AllSeen ==
  ASSUME IInv, Reviewing, page = ApprovalPage(ui, flow),
         NEW c \in Copies(ui, request.kind), Displayable(request, c), Kept(c)
  PROVE  \E title \in {read[1] : read \in seen} :
           Subject(request.kind, title) = c[2] /\ <<title, Shown(ui, request, c[2])>> \in seen
<1>1. ui \in {"BAGL", "NBGL"} /\ flow \in Kinds /\ request.kind = flow
  BY DEF IInv, ReviewShown, PageOfReview, Reviewing
<1>2. PICK n \in 1 .. page : Announced(ui, flow, n) = c /\ c[1] # "none"
  BY <1>1, EveryReviewAgrees DEF Agree
<1> DEFINE title == PageOf(ui, flow, n)[1]
<1>3. Readable(ui, request, n)
  BY <1>1, <1>2 DEF Readable, Announced
<1>4. Reads(ui, request, n) \in seen
  BY <1>1, <1>2, <1>3 DEF IInv, PagesRead
<1>5. Reads(ui, request, n) = <<title, Shown(ui, request, c[2])>>
  BY <1>1, <1>2 DEF Reads
<1>6. Subject(flow, title) = c[2]
  BY <1>2 DEF Announced
<1>7. title \in {read[1] : read \in seen}
  BY <1>4, <1>5
<1> HIDE DEF title
<1> QED
  BY <1>1, <1>4, <1>5, <1>6, <1>7

LEMMA DecideKeeps ==
  ASSUME IInv, Reviewing, NEW choice \in {"approve", "reject"}, NEW by, Decide(choice, by),
         by = IF flow = "address" THEN "pubkey" ELSE "transaction",
         choice = "approve" => page = ApprovalPage(ui, flow)
  PROVE  IInv'
<1>1. ~Reviewing'
  BY DEF Decide, Reviewing, Kinds, IInv, ReviewShown
<1>2. UNCHANGED <<ui, request, served, buffers>>
  BY DEF Decide, UserActs
<1>3. decision' = [choice |-> choice, by |-> by, served |-> served, seen |-> seen]
  BY DEF Decide
<1>4. PageOfReview' /\ PairsListed' /\ BuffersFilled' /\ PagesRead'
  BY <1>1 DEF PageOfReview, PairsListed, BuffersFilled, PagesRead
<1>5. CallbackFitsReview'
  BY <1>1, <1>2, <1>3 DEF CallbackFitsReview, IInv, ReviewShown, PageOfReview
<1>6. ApprovedAllPagesSeen'
  <2>1. CASE decision'.choice = "approve"
    <3>1. page = ApprovalPage(ui, flow) /\ decision'.seen = seen /\ decision'.served = served
      BY <1>3, <2>1
    <3>2. ASSUME NEW c \in Copies(ui, request.kind), Displayable(request, c), Kept(c)
          PROVE  \E title \in {read[1] : read \in seen} :
                   Subject(request.kind, title) = c[2] /\ <<title, Shown(ui, request, c[2])>> \in seen
      BY <3>1, <3>2, AllSeen
    <3> QED
      BY <1>2, <3>1, <3>2 DEF ApprovedAllPagesSeen, Kept
  <2>2. CASE decision'.choice # "approve"
    BY <2>2 DEF ApprovedAllPagesSeen
  <2> QED
    BY <2>1, <2>2
<1> QED
  BY <1>2, <1>4, <1>5, <1>6 DEF IInv, ReviewShown

LEMMA PressKeeps ==
  ASSUME IInv, Press
  PROVE  IInv'
<1>1. /\ ui = "BAGL" /\ Reviewing /\ flow \in Kinds /\ page \in 1 .. PagesOf("BAGL", flow)
      /\ callback = IF flow = "address" THEN "pubkey" ELSE "transaction"
  BY DEF Press, IInv, ReviewShown, PageOfReview, CallbackFitsReview, Reviewing
<1>2. CASE Current[1] = "Approve" /\ Decide("approve", callback)
  <2>1. Current = BaglFlow(flow)[page]
    BY <1>1 DEF Current
  <2>2. page = Len(BaglFlow(flow)) - 1
    BY <1>1, <1>2, <2>1, Sizes, ApproveIsBeforeLast
  <2> QED
    BY <1>1, <1>2, <2>2, DecideKeeps DEF ApprovalPage
<1>3. CASE Current[1] = "Reject" /\ Decide("reject", callback)
  BY <1>1, <1>3, DecideKeeps
<1> QED
  BY <1>2, <1>3 DEF Press

LEMMA TapKeeps ==
  ASSUME IInv, Tap
  PROVE  IInv'
<1> DEFINE by == IF flow = "address" THEN "pubkey" ELSE "transaction"
<1>1. ui = "NBGL" /\ Reviewing
  BY DEF Tap
<1>2. CASE page > 1 /\ page = LastPage /\ Decide("approve", by)
  <2>1. flow # "address" => nbPairs = Len(NbglPairs(flow))
    BY <1>1, <1>2 DEF IInv, ReviewShown, PairsListed
  <2>2. page = ApprovalPage(ui, flow)
    BY <1>1, <1>2, <2>1 DEF LastPage, ApprovalPage, PagesOf
  <2> QED
    BY <1>1, <1>2, <2>2, DecideKeeps
<1>3. CASE Decide("reject", by)
  BY <1>1, <1>3, DecideKeeps
<1> QED
  BY <1>2, <1>3 DEF Tap

-----------------------------------------------------------------------------
(* IInv holds in every state, by induction over the steps.                 *)
LEMMA Invariance == Spec => []IInv
<1>1. Init => IInv
  BY InitHolds
<1>2. IInv /\ [Next]_vars => IInv'
  <2> SUFFICES ASSUME IInv, [Next]_vars PROVE IInv'
    OBVIOUS
  <2>1. CASE \E r \in Requests : DisplayFails(r) \/ DisplayReview(r) \/ DisplayOverruns(r)
    BY <2>1, FailKeeps, ReviewKeeps, OverrunKeeps
  <2>2. CASE Turn
    BY <2>2, TurnKeeps
  <2>3. CASE ContinueReview
    BY <2>3, ContinueKeeps
  <2>4. CASE Press
    BY <2>4, PressKeeps
  <2>5. CASE Tap
    BY <2>5, TapKeeps
  <2>6. CASE Dismiss
    BY <2>6, DismissKeeps
  <2>7. CASE PowerCycle
    BY <2>7, PowerCycleKeeps
  <2>8. CASE UNCHANGED vars
    BY <2>8, StutterKeeps
  <2> QED
    BY <2>1, <2>2, <2>3, <2>4, <2>5, <2>6, <2>7, <2>8 DEF Next
<1> QED
  BY <1>1, <1>2, PTL DEF Spec

-----------------------------------------------------------------------------
(* Types.  A page that comes up is one of the review (IInv), so that what  *)
(* the user reads is a title and a text.                                   *)
LEMMA TextIsText ==
  ASSUME NEW r \in Requests, NEW f \in Fields
  PROVE  Text(r, f) \in Texts
<1>1. r.id \in Names
  BY DEF Names
<1>2. Length(r, f) \in Nat /\ r.nul[f] \in Nat /\ r.line[f] \in Nat
  BY LengthIsNat, RequestsAssumption
<1>3. (IF f \in Formatted THEN Length(r, f) ELSE r.nul[f]) \in Nat
  BY <1>2
<1> QED
  BY <1>1, <1>2, <1>3 DEF Text, Texts

LEMMA SpecialTexts == NoText \in Texts /\ \A r \in Requests : Stack(r) \in Texts
<1>1. NoText \in Texts
  BY DEF NoText, Texts, Names
<1>2. ASSUME NEW r \in Requests PROVE Stack(r) \in Texts
  <2>1. "args" \in Fields
    BY DEF Fields
  <2>2. Length(r, "args") \in Nat /\ r.nul["args"] \in Nat /\ r.line["args"] \in Nat
    BY <2>1, LengthIsNat, RequestsAssumption
  <2> QED
    BY <2>1, <2>2 DEF Stack, Texts, Names
<1> QED
  BY <1>1, <1>2

LEMMA ExcerptIsTyped ==
  /\ \A text \in Texts, n \in Nat : Excerpt(text, n) \in Excerpts
  /\ \A start \in Excerpts, n \in Nat : Excerpt(start, n) \in Excerpts
  /\ Unterminated \in Excerpts /\ Mixture \in Excerpts
BY DEF Excerpt, Texts, Excerpts, Unterminated, Mixture, Names

(* What is printed of a buffer is an excerpt, and what a page shows of it. *)
LEMMA VisibleIsTyped ==
  ASSUME NEW b \in Buffers, buffers[b].text \in Texts
  PROVE  Visible(b) \in Excerpts
<1> DEFINE text == buffers[b].text
<1>1. text.nul \in Nat /\ text.length \in Nat /\ text.line \in Nat
  BY DEF Texts
<1>2. Printed(b) \in {Excerpt(text, text.nul), Unterminated, Mixture, Excerpt(text, text.length)}
  BY Zenon DEF Printed
<1>3. Printed(b) \in Excerpts
  BY <1>1, <1>2, ExcerptIsTyped
<1>4. Printed(b).length \in Nat
  BY <1>3 DEF Excerpts
<1>5. Least(Printed(b).length, text.line) \in Nat
  BY <1>1, <1>4 DEF Least
<1>6. Visible(b) \in {Excerpt(Printed(b), Least(Printed(b).length, text.line)), Printed(b)}
  BY Zenon DEF Visible
<1> QED
  BY <1>3, <1>5, <1>6, ExcerptIsTyped

LEMMA PairsAreTyped ==
  ASSUME NEW kind \in Kinds, NEW k \in 1 .. Len(NbglPairs(kind))
  PROVE  NbglPairs(kind)[k] \in Pages
<1>1. NbglPairs("address")[1] \in Pages
  BY DEF NbglPairs, Pages, Titles, Buffers, Size
<1>2. \A n \in 1 .. 7 : NbglPairs("transaction")[n] \in Pages
  <2>1. \A n \in 1 .. 7 : n = 1 \/ n = 2 \/ n = 3 \/ n = 4 \/ n = 5 \/ n = 6 \/ n = 7
    OBVIOUS
  <2>2. /\ NbglPairs("transaction")[1] = <<"Token", "token">>
        /\ NbglPairs("transaction")[2] = <<"Amount", "amount">>
        /\ NbglPairs("transaction")[3] = <<"Address", "nbgl_address">>
        /\ NbglPairs("transaction")[4] = <<"Tx Length", "txlength">>
        /\ NbglPairs("transaction")[5] = <<"Nexus", "nexus">>
        /\ NbglPairs("transaction")[6] = <<"Chain", "chain">>
        /\ NbglPairs("transaction")[7] = <<"Script Length", "scriptlength">>
    BY DEF NbglPairs
  <2>3. /\ <<"Token", "token">> \in Pages
        /\ <<"Amount", "amount">> \in Pages
        /\ <<"Address", "nbgl_address">> \in Pages
        /\ <<"Tx Length", "txlength">> \in Pages
        /\ <<"Nexus", "nexus">> \in Pages
        /\ <<"Chain", "chain">> \in Pages
        /\ <<"Script Length", "scriptlength">> \in Pages
    BY DEF Pages, Titles, Buffers, Size
  <2> QED
    BY <2>1, <2>2, <2>3
<1>3. \A n \in 1 .. 6 : NbglPairs("custom")[n] \in Pages
  <2>1. \A n \in 1 .. 6 : n = 1 \/ n = 2 \/ n = 3 \/ n = 4 \/ n = 5 \/ n = 6
    OBVIOUS
  <2>2. /\ NbglPairs("custom")[1] = <<"Nexus", "nexus">>
        /\ NbglPairs("custom")[2] = <<"Chain", "chain">>
        /\ NbglPairs("custom")[3] = <<"Contract", "contract">>
        /\ NbglPairs("custom")[4] = <<"Method", "contract_method">>
        /\ NbglPairs("custom")[5] = <<"Address", "nbgl_address">>
        /\ NbglPairs("custom")[6] = <<"Method Args", "contract_method_args">>
    BY DEF NbglPairs
  <2>3. /\ <<"Nexus", "nexus">> \in Pages
        /\ <<"Chain", "chain">> \in Pages
        /\ <<"Contract", "contract">> \in Pages
        /\ <<"Method", "contract_method">> \in Pages
        /\ <<"Address", "nbgl_address">> \in Pages
        /\ <<"Method Args", "contract_method_args">> \in Pages
    BY DEF Pages, Titles, Buffers, Size
  <2> QED
    BY <2>1, <2>2, <2>3
<1>4. CASE kind = "address"
  <2>1. Len(NbglPairs(kind)) = 1
    BY <1>4, Lengths, Zenon
  <2>2. k = 1
    BY <2>1
  <2> QED
    BY <1>1, <1>4, <2>2, Zenon
<1>5. CASE kind = "transaction"
  <2>1. Len(NbglPairs(kind)) = 7
    BY <1>5, Lengths, Zenon
  <2>2. k \in 1 .. 7
    BY <2>1
  <2> QED
    BY <1>2, <1>5, <2>2, Zenon
<1>6. CASE kind = "custom"
  <2>1. Len(NbglPairs(kind)) = 6
    BY <1>6, Lengths, Zenon
  <2>2. k \in 1 .. 6
    BY <2>1
  <2> QED
    BY <1>3, <1>6, <2>2, Zenon
<1> QED
  BY <1>4, <1>5, <1>6 DEF Kinds

LEMMA BaglAddressTitles ==
  ASSUME NEW n \in 1 .. 5, PageOf("BAGL", "address", n)[2] # "none"
  PROVE  PageOf("BAGL", "address", n)[1] \in Titles
<1>1. n = 1 \/ n = 2 \/ n = 3 \/ n = 4 \/ n = 5
  OBVIOUS
<1>2. /\ PageOf("BAGL", "address", 2)[1] = "Path"
      /\ PageOf("BAGL", "address", 3)[1] = "Address"
  BY DEF PageOf, BaglFlow
<1> QED
  BY <1>1, <1>2, BaglAddressPages DEF Titles

LEMMA BaglTransactionTitles ==
  ASSUME NEW n \in 1 .. 10, PageOf("BAGL", "transaction", n)[2] # "none"
  PROVE  PageOf("BAGL", "transaction", n)[1] \in Titles
<1>1. n = 1 \/ n = 2 \/ n = 3 \/ n = 4 \/ n = 5 \/ n = 6 \/ n = 7 \/ n = 8 \/ n = 9 \/ n = 10
  OBVIOUS
<1>2. /\ PageOf("BAGL", "transaction", 2)[1] = "Tx Length"
      /\ PageOf("BAGL", "transaction", 3)[1] = "Nexus"
      /\ PageOf("BAGL", "transaction", 4)[1] = "Chain"
      /\ PageOf("BAGL", "transaction", 5)[1] = "Script Length"
      /\ PageOf("BAGL", "transaction", 6)[1] = "Address"
      /\ PageOf("BAGL", "transaction", 7)[1] = "Token"
      /\ PageOf("BAGL", "transaction", 8)[1] = "Amount"
  BY DEF PageOf, BaglFlow
<1> QED
  BY <1>1, <1>2, BaglTransactionPages DEF Titles

LEMMA BaglCustomTitles ==
  ASSUME NEW n \in 1 .. 8, PageOf("BAGL", "custom", n)[2] # "none"
  PROVE  PageOf("BAGL", "custom", n)[1] \in Titles
<1>1. n = 1 \/ n = 2 \/ n = 3 \/ n = 4 \/ n = 5 \/ n = 6 \/ n = 7 \/ n = 8
  OBVIOUS
<1>2. /\ PageOf("BAGL", "custom", 2)[1] = "Nexus"
      /\ PageOf("BAGL", "custom", 3)[1] = "Chain"
      /\ PageOf("BAGL", "custom", 4)[1] = "Contract"
      /\ PageOf("BAGL", "custom", 5)[1] = "Method"
      /\ PageOf("BAGL", "custom", 6)[1] = "Method Args"
  BY DEF PageOf, BaglFlow
<1> QED
  BY <1>1, <1>2, BaglCustomPages DEF Titles

(* A page announces a field that is copied to its buffer, so that its title*)
(* is one that has a subject.                                              *)
LEMMA PagesAreTyped ==
  ASSUME NEW u \in {"BAGL", "NBGL"}, NEW kind \in Kinds, NEW n \in 1 .. PagesOf(u, kind),
         PageOf(u, kind, n)[2] # "none"
  PROVE  PageOf(u, kind, n)[1] \in Titles /\ PageOf(u, kind, n)[2] \in Buffers
<1>1. PageOf(u, kind, n)[2] \in Buffers
  <2>1. Announced(u, kind, n) \in Copies(u, kind)
    BY EveryReviewAgrees DEF Agree
  <2>2. Announced(u, kind, n)[1] \in Buffers
    BY <2>1, CopiesAreFields
  <2> QED
    BY <2>2 DEF Announced
<1>2. PageOf(u, kind, n)[1] \in Titles
  <2>1. CASE u = "BAGL" /\ kind = "address"
    <3>1. n \in 1 .. 5
      BY <2>1, Lengths DEF PagesOf
    <3> QED
      BY <2>1, <3>1, BaglAddressTitles
  <2>2. CASE u = "BAGL" /\ kind = "transaction"
    <3>1. n \in 1 .. 10
      BY <2>2, Lengths DEF PagesOf
    <3> QED
      BY <2>2, <3>1, BaglTransactionTitles
  <2>3. CASE u = "BAGL" /\ kind = "custom"
    <3>1. n \in 1 .. 8
      BY <2>3, Lengths DEF PagesOf
    <3> QED
      BY <2>3, <3>1, BaglCustomTitles
  <2>4. CASE u = "NBGL"
    <3> DEFINE list == NbglPairs(kind)
    <3>1. n \in 2 .. Len(list) + 1 /\ PageOf(u, kind, n) = list[n - 1]
      BY <2>4 DEF PageOf, Bare
    <3>2. Len(list) \in 1 .. 7
      BY Sizes
    <3> HIDE DEF list
    <3>3. n - 1 \in 1 .. Len(list)
      BY <3>1, <3>2
    <3>4. list[n - 1] \in Pages
      BY <3>3, PairsAreTyped DEF list
    <3> QED
      BY <3>1, <3>4 DEF Pages, Bare
  <2> QED
    BY <2>1, <2>2, <2>3, <2>4 DEF Kinds
<1> QED
  BY <1>1, <1>2

LEMMA ZeroIsTyped ==
  /\ ZeroBuffers \in [Buffers -> [text : Texts, behind : Texts]]
  /\ ZeroPairs \in [1 .. 7 -> Pages]
  /\ NoDecision \in [choice : {"none", "approve", "reject"},
                     by : {"none", "pubkey", "transaction"}, served : BOOLEAN,
                     seen : SUBSET (Titles \X Excerpts)]
<1>1. Bare("none") \in Pages
  BY DEF Pages
<1>2. ZeroPairs \in [1 .. 7 -> Pages]
  BY <1>1 DEF ZeroPairs
<1>3. [text |-> NoText, behind |-> NoText] \in [text : Texts, behind : Texts]
  BY SpecialTexts
<1>4. ZeroBuffers \in [Buffers -> [text : Texts, behind : Texts]]
  BY <1>3 DEF ZeroBuffers
<1> QED
  BY <1>2, <1>4 DEF NoDecision

BuffersTyped == buffers \in [Buffers -> [text : Texts, behind : Texts]]

LEMMA ReadingIsTyped == IInv /\ BuffersTyped => Reading \subseteq Titles \X Excerpts
<1> SUFFICES ASSUME IInv, BuffersTyped, Current[2] # "none"
             PROVE  <<Current[1], Visible(Current[2])>> \in Titles \X Excerpts
  BY DEF Reading
<1>1. Reviewing
  BY DEF Current, Bare
<1>2. Current = PageOf(ui, flow, page)
  BY <1>1, CurrentPage DEF IInv
<1>3. Current[1] \in Titles /\ Current[2] \in Buffers
  <2>1. ui \in {"BAGL", "NBGL"} /\ flow \in Kinds /\ page \in 1 .. PagesOf(ui, flow)
    BY <1>1 DEF IInv, ReviewShown, PageOfReview, Reviewing
  <2> QED
    BY <1>2, <2>1, PagesAreTyped
<1>4. Visible(Current[2]) \in Excerpts
  <2>1. buffers[Current[2]].text \in Texts
    BY <1>3 DEF BuffersTyped
  <2> QED
    BY <1>3, <2>1, VisibleIsTyped
<1> QED
  BY <1>3, <1>4

LEMMA ReviewTypes ==
  ASSUME TypeOK, NEW r \in Requests, DisplayReview(r)
  PROVE  TypeOK'
<1>1. r.kind \in Kinds /\ ui \in {"BAGL", "NBGL"}
  BY RequestsAssumption DEF TypeOK
<1>2. BuffersTyped'
  <2>1. PICK args \in Arguments(r) :
          buffers' = [b \in Buffers |->
            IF \E e \in Copies(ui, r.kind) : e[1] = b
            THEN LET e == CHOOSE e \in Copies(ui, r.kind) : e[1] = b
                 IN  Filled(buffers[b], IF e[2] = "args" THEN args ELSE Text(r, e[2]))
            ELSE buffers[b]]
    BY DEF DisplayReview
  <2>2. args \in Texts
    BY SpecialTexts, TextIsText DEF Arguments, Fields
  <2>3. \A b \in Buffers, text \in Texts :
          Filled(buffers[b], text) \in [text : Texts, behind : Texts]
    <3> SUFFICES ASSUME NEW b \in Buffers, NEW text \in Texts
                 PROVE  Filled(buffers[b], text) \in [text : Texts, behind : Texts]
      OBVIOUS
    <3>1. text.length \in Nat
      BY DEF Texts
    <3> QED
      BY <3>1, SpecialTexts, FilledIsClean
  <2>4. ASSUME NEW b \in Buffers, \E e \in Copies(ui, r.kind) : e[1] = b
        PROVE  LET e == CHOOSE e \in Copies(ui, r.kind) : e[1] = b
               IN  (IF e[2] = "args" THEN args ELSE Text(r, e[2])) \in Texts
    <3> DEFINE e == CHOOSE e \in Copies(ui, r.kind) : e[1] = b
    <3>1. e \in Copies(ui, r.kind)
      BY <2>4
    <3> HIDE DEF e
    <3>2. e[2] \in Fields
      BY <1>1, <3>1, CopiesAreFields
    <3>3. (IF e[2] = "args" THEN args ELSE Text(r, e[2])) \in Texts
      BY <2>2, <3>2, TextIsText
    <3> QED
      BY <3>3 DEF e
  <2> QED
    BY <2>1, <2>3, <2>4 DEF BuffersTyped, TypeOK
<1> QED
  BY <1>1, <1>2 DEF DisplayReview, StartReview, NoDecision, TypeOK, BuffersTyped

LEMMA DecideTypes ==
  ASSUME TypeOK, NEW choice \in {"approve", "reject"}, NEW by \in {"none", "pubkey", "transaction"},
         Decide(choice, by)
  PROVE  TypeOK'
BY DEF TypeOK, Decide, UserActs

LEMMA TurnTypes ==
  ASSUME TypeOK, Reading' \subseteq Titles \X Excerpts, Turn
  PROVE  TypeOK'
<1>1. seen' \subseteq Titles \X Excerpts
  BY DEF TypeOK, Turn, Read
<1>2. page' \in Nat
  <2>1. \E n \in {page - 1, page + 1} : page' = n
    BY DEF Turn, Within
  <2>2. page' \in (IF ui = "NBGL" THEN 2 ELSE 1) .. LastPage
    BY DEF Turn
  <2>3. page \in Nat
    BY DEF TypeOK
  <2>4. page' >= 1
    BY <2>1, <2>2, <2>3
  <2> QED
    BY <2>1, <2>3, <2>4
<1> QED
  BY <1>1, <1>2 DEF Turn, UserActs, TypeOK

LEMMA ContinueTypes ==
  ASSUME TypeOK, Reading' \subseteq Titles \X Excerpts, ContinueReview
  PROVE  TypeOK'
<1> DEFINE list == NbglPairs(flow)
<1>1. flow \in Kinds
  BY DEF ContinueReview, Reviewing
<1>2. Len(list) \in 1 .. 7 /\ \A k \in 1 .. Len(list) : list[k] \in Pages
  BY <1>1, PairsAreTyped, Sizes
<1>3. \/ flow = "address" /\ UNCHANGED <<pairs, nbPairs, maxLines>>
      \/ /\ pairs' = [k \in 1 .. 7 |-> IF k <= Len(list) THEN list[k] ELSE pairs[k]]
         /\ nbPairs' = Len(list)
  BY DEF ContinueReview, Listed, Count
<1>6. maxLines' \in {0, 1}
  BY DEF ContinueReview, Lines, TypeOK
<1> DEFINE len == Len(list)
<1> HIDE DEF list
<1>4. pairs' \in [1 .. 7 -> Pages] /\ nbPairs' \in 0 .. 7
  <2>1. pairs \in [1 .. 7 -> Pages]
    BY DEF TypeOK
  <2>2. len \in 1 .. 7 /\ \A k \in 1 .. len : list[k] \in Pages
    BY <1>2
  <2>3. \/ UNCHANGED <<pairs, nbPairs>>
        \/ pairs' = [k \in 1 .. 7 |-> IF k <= len THEN list[k] ELSE pairs[k]] /\ nbPairs' = len
    BY <1>3
  <2> HIDE DEF len
  <2>4. \A k \in 1 .. 7 : (IF k <= len THEN list[k] ELSE pairs[k]) \in Pages
    BY <2>1, <2>2
  <2>5. pairs' \in [1 .. 7 -> Pages]
    BY <2>1, <2>3, <2>4
  <2>6. nbPairs \in 0 .. 7
    BY DEF TypeOK
  <2> QED
    BY <2>2, <2>3, <2>5, <2>6
<1>5. seen' \subseteq Titles \X Excerpts
  BY DEF ContinueReview, Read
<1> QED
  BY <1>4, <1>5, <1>6 DEF ContinueReview, UserActs, TypeOK

LEMMA OtherTypes ==
  ASSUME TypeOK, \/ \E r \in Requests : DisplayFails(r) \/ DisplayOverruns(r)
                 \/ Dismiss \/ PowerCycle \/ UNCHANGED vars
  PROVE  TypeOK'
<1>1. ASSUME NEW r \in Requests, DisplayFails(r) PROVE TypeOK'
  <2>1. "bip32_path" \in Buffers
    BY DEF Buffers, Size
  <2>2. Cleared(buffers["bip32_path"]) \in [text : Texts, behind : Texts]
    BY SpecialTexts DEF Cleared
  <2> QED
    BY <1>1, <2>1, <2>2 DEF DisplayFails, TypeOK
<1>2. ASSUME NEW r \in Requests, DisplayOverruns(r) PROVE TypeOK'
  BY <1>2 DEF DisplayOverruns, TypeOK
<1>3. CASE Dismiss
  BY <1>3 DEF Dismiss, UserActs, TypeOK
<1>4. CASE PowerCycle
  <2>1. /\ buffers' \in [Buffers -> [text : Texts, behind : Texts]] /\ pairs' \in [1 .. 7 -> Pages]
        /\ decision' \in [choice : {"none", "approve", "reject"},
                         by : {"none", "pubkey", "transaction"}, served : BOOLEAN,
                         seen : SUBSET (Titles \X Excerpts)]
    BY <1>4, ZeroIsTyped DEF PowerCycle
  <2>2. ui' \in {"BAGL", "NBGL"} /\ request' \in Requests
    BY <1>4 DEF PowerCycle, TypeOK
  <2>3. /\ callback' = "none" /\ nbPairs' = 0 /\ maxLines' = 0 /\ flow' = "menu" /\ page' = 1
        /\ served' = FALSE /\ seen' = {}
    BY <1>4 DEF PowerCycle
  <2>4. /\ callback' \in {"none", "pubkey", "transaction"} /\ nbPairs' \in 0 .. 7
        /\ maxLines' \in {0, 1}
        /\ flow' \in Kinds \cup {"menu", "status", "overrun"} /\ page' \in Nat
    BY <2>3
  <2>5. served' \in BOOLEAN /\ seen' \subseteq Titles \X Excerpts
    BY <2>3, Zenon
  <2> QED
    BY <2>1, <2>2, <2>4, <2>5, Zenon DEF TypeOK
<1>5. CASE UNCHANGED vars
  BY <1>5 DEF vars, TypeOK
<1> QED
  BY <1>1, <1>2, <1>3, <1>4, <1>5

(* Every variable keeps its type; the texts read are those of pages.       *)
THEOREM DisplayTypes == Spec => []TypeOK
<1>1. Init => TypeOK
  <2> SUFFICES ASSUME Init PROVE TypeOK
    OBVIOUS
  <2>1. /\ buffers \in [Buffers -> [text : Texts, behind : Texts]] /\ pairs \in [1 .. 7 -> Pages]
        /\ decision \in [choice : {"none", "approve", "reject"},
                        by : {"none", "pubkey", "transaction"}, served : BOOLEAN,
                        seen : SUBSET (Titles \X Excerpts)]
    BY ZeroIsTyped DEF Init
  <2>2. /\ ui \in {"BAGL", "NBGL"} /\ request \in Requests
        /\ callback = "none" /\ nbPairs = 0 /\ maxLines = 0 /\ flow = "menu" /\ page = 1
        /\ served = FALSE /\ seen = {}
    BY DEF Init
  <2>3. /\ callback \in {"none", "pubkey", "transaction"} /\ nbPairs \in 0 .. 7
        /\ maxLines \in {0, 1}
        /\ flow \in Kinds \cup {"menu", "status", "overrun"} /\ page \in Nat
    BY <2>2
  <2>4. served \in BOOLEAN /\ seen \subseteq Titles \X Excerpts
    BY <2>2, Zenon
  <2> QED
    BY <2>1, <2>2, <2>3, <2>4, Zenon DEF TypeOK
<1>2. (IInv /\ BuffersTyped => Reading \subseteq Titles \X Excerpts)'
  BY ReadingIsTyped, PTL
<1>3. TypeOK /\ IInv /\ IInv' /\ [Next]_vars => TypeOK'
  <2> SUFFICES ASSUME TypeOK, IInv, IInv', [Next]_vars PROVE TypeOK'
    OBVIOUS
  <2>1. ASSUME NEW r \in Requests, DisplayReview(r) PROVE TypeOK'
    BY <2>1, ReviewTypes
  <2>2. CASE Turn
    <3>1. BuffersTyped'
      BY <2>2 DEF Turn, UserActs, TypeOK, BuffersTyped
    <3> QED
      BY <1>2, <2>2, <3>1, TurnTypes
  <2>3. CASE ContinueReview
    <3>1. BuffersTyped'
      BY <2>3 DEF ContinueReview, UserActs, TypeOK, BuffersTyped
    <3> QED
      BY <1>2, <2>3, <3>1, ContinueTypes
  <2>4. CASE Press
    BY <2>4, DecideTypes DEF Press, TypeOK
  <2>5. CASE Tap
    BY <2>5, DecideTypes DEF Tap
  <2> QED
    BY <2>1, <2>2, <2>3, <2>4, <2>5, OtherTypes DEF Next
<1> QED
  BY <1>1, <1>3, Invariance, PTL DEF Spec

(* The page displayed shows the field its title announces, of the request  *)
(* under review, up to its first NUL and, where the list says so, a line of*)
(* it: for fields of every length, NULs anywhere in them, and any sequence *)
(* of requests into the same buffers (ui_display_*, review_continue).      *)
THEOREM PagesShowTheirFields == Spec => []PageShowsItsField
<1>1. IInv => PageShowsItsField
  BY PagesShow DEF IInv
<1> QED
  BY <1>1, Invariance, PTL

(* The decision taken at the end of a review is that of its kind, also     *)
(* when a request in between failed (g_validate_callback).                 *)
THEOREM CallbackFits == Spec => []CallbackFitsReview
<1>1. IInv => CallbackFitsReview
  BY DEF IInv, ReviewShown
<1> QED
  BY <1>1, Invariance, PTL

(* Whoever approves has read what the page of each field shows of it: the  *)
(* pages cannot be skipped (the flows of bagl_display.c, the pairs of NBGL).*)
THEOREM ApprovedIsSeen == Spec => []ApprovedAllPagesSeen
<1>1. IInv => ApprovedAllPagesSeen
  BY DEF IInv, ReviewShown
<1> QED
  BY <1>1, Invariance, PTL
=============================================================================
