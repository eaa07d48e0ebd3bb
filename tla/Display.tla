------------------------------- MODULE Display -------------------------------
(***************************************************************************)
(* What the user reads before a decision: the display functions copy the   *)
(* fields of a request into static buffers, the pages of a review read the *)
(* buffers, and the last page or a callback takes the decision.  Both user *)
(* interfaces: BAGL (ui/bagl_display.c) walks a flow of pages with two     *)
(* buttons, its decisions go through g_validate_callback; NBGL             *)
(* (ui/nbgl_display_*.c) lists pairs, filled in when the user goes on from *)
(* the start page.                                                         *)
(*                                                                         *)
(* The fields are bytes, and what is displayed of them ends at the first   *)
(* NUL, wherever it is.  A text is the request and the field it is of, its *)
(* length, the bytes before its first NUL, and those of them that one line *)
(* of the touch screen takes.  A display function is one action; a request *)
(* may come at any time, also while the review of an earlier one is        *)
(* displayed (module Screens says when).                                   *)
(***************************************************************************)
EXTENDS Integers, Sequences

CONSTANT Requests   \* what the display functions are given, see RequestsAssumption

Fields == {"path", "address", "txlength", "nexus", "chain", "scriptlength", "token",
           "amount", "to", "from", "name", "method", "args"}
Kinds  == {"address", "transaction", "custom"}

(* The fields the device formats itself: digits, '/' and base58.           *)
Formatted == {"path", "address", "txlength", "scriptlength"}

(* The length of a field; of a number (at most MAX_TRANSACTION_LEN = 1020) *)
(* its value.  The other fields are whatever the transaction says.         *)
ASSUME RequestsAssumption ==
  /\ Requests \subseteq [kind : Kinds, id : STRING, length : [Fields -> Nat],
                         nul : [Fields -> Nat],    \* bytes before the first NUL
                         line : [Fields -> Nat]]   \* bytes that fit on one line
  /\ \A r \in Requests : r.length["txlength"] <= 1020 /\ r.length["scriptlength"] <= 1020
  /\ \A r \in Requests, f \in Fields : r.nul[f] <= r.length[f]

(* static char g_...[]; both interfaces name one g_address, NBGL a second  *)
(* one in nbgl_display_address.c.                                          *)
Size ==
  [bip32_path |-> 60, amount |-> 30, token |-> 10, contract |-> 10,
   contract_method |-> 16, nexus |-> 16, chain |-> 16, txlength |-> 16,
   scriptlength |-> 16, address |-> 240,            \* BAGL
   nbgl_address |-> 64, confirm_address |-> 128, contract_method_args |-> 240]
Buffers == DOMAIN Size

VARIABLES
  ui,        \* "BAGL" or "NBGL", chosen when the application is built
  buffers,   \* what the buffers hold
  callback,  \* g_validate_callback (BAGL)
  pairs,     \* pairs[7] (NBGL)
  nbPairs,   \* pairList.nbPairs
  maxLines,  \* pairList.nbMaxLinesForValue, 0 for no limit
  flow,      \* what is displayed: "menu", "status", the kind of a review, or
             \* "overrun" once a copy has left its buffer
  page,      \* the page of the flow
  request,   \* history: the request of the review displayed last
  served,    \* history: that is the last request that was made
  seen,      \* history: what was read in this review, with its title
  decision   \* history: the decision of this review

vars == <<ui, buffers, callback, pairs, nbPairs, maxLines, flow, page, request, served, seen, decision>>

-----------------------------------------------------------------------------
(* Texts and buffers.                                                      *)
(* format_u64: decimal digits.                                             *)
Digits(n) == IF n < 10 THEN 1 ELSE IF n < 100 THEN 2 ELSE IF n < 1000 THEN 3 ELSE 4

Length(r, f) == IF f \in {"txlength", "scriptlength"} THEN Digits(r.length[f]) ELSE r.length[f]
Text(r, f)   == [of |-> r.id, field |-> f, length |-> Length(r, f),
                 nul |-> IF f \in Formatted THEN Length(r, f) ELSE r.nul[f],
                 line |-> r.line[f]]
NoText       == [of |-> "none", field |-> "none", length |-> 0, nul |-> 0, line |-> 0]

(* tx->output_args points at an array of transaction_deserialize that is   *)
(* gone: the text that was there, or as many bytes of the stack as it is.  *)
Stack(r)     == [of |-> "stack", field |-> "args", length |-> Length(r, "args"),
                 nul |-> r.nul["args"], line |-> r.line["args"]]
Arguments(r) == {Text(r, "args"), Stack(r)}

(* address_from_pubkey: 'P' and 46 digits of base58 for 34 bytes 01 00 ... *)
AddressLength == 47

(* A buffer holds a text and, unless it was cleared, the rest of a longer  *)
(* one behind it.                                                          *)
NotCleared(old) == old                                          \* deviation
Cleared(old)    == [text |-> NoText, behind |-> NoText]         \* memset
Moved(old, text) ==
  [text |-> text, behind |-> IF old.text.length > text.length THEN old.text ELSE old.behind]
Filled(old, text) == Moved(Cleared(old), text)

(* What is printed of a buffer, the bytes up to the first NUL: one in the  *)
(* text, else one behind it that clearing has left, if it did.             *)
Excerpt(text, n) == [of |-> text.of, field |-> text.field, length |-> n]
Unterminated   == [of |-> "memory behind the buffer", field |-> "none", length |-> 0]
Mixture        == [of |-> "two requests", field |-> "none", length |-> 0]
Blank          == Excerpt(NoText, 0)
Printed(b) ==
  LET text == buffers[b].text
  IN  IF text.nul < text.length THEN Excerpt(text, text.nul)
      ELSE IF text.length >= Size[b] THEN Unterminated
      ELSE IF buffers[b].behind # NoText THEN Mixture ELSE Excerpt(text, text.length)

(* What a page shows of it: a list of pairs may limit a value to one line; *)
(* nbgl_useCaseAddressConfirmation, which is not given the list, does not. *)
OneLine    == ui = "NBGL" /\ flow # "address" /\ maxLines = 1
Least(m, n) == IF m <= n THEN m ELSE n
Visible(b) ==
  LET printed == Printed(b)
  IN  IF OneLine THEN Excerpt(printed, Least(printed.length, buffers[b].text.line)) ELSE printed

-----------------------------------------------------------------------------
(* Which buffer each display function fills with which field.              *)
Copies(u, kind) ==
  LET common == {<<"nexus", "nexus">>, <<"chain", "chain">>}
  IN  CASE kind = "address" /\ u = "BAGL" ->
             {<<"bip32_path", "path">>, <<"address", "address">>}
        [] kind = "address" /\ u = "NBGL" -> {<<"confirm_address", "address">>}
        [] kind = "transaction" -> common \cup
             {<<"txlength", "txlength">>, <<"scriptlength", "scriptlength">>,
              <<"amount", "amount">>, <<"token", "token">>,
              <<IF u = "BAGL" THEN "address" ELSE "nbgl_address", "to">>}
        [] kind = "custom" -> common \cup
             {<<"contract", "name">>, <<"contract_method", "method">>} \cup
             (IF u = "BAGL" THEN {<<"address", "args">>}
              ELSE {<<"nbgl_address", "from">>, <<"contract_method_args", "args">>})

Fits(r) == \A c \in Copies(ui, r.kind) : Length(r, c[2]) <= Size[c[1]]

(* The pages of the BAGL flows and the values of NBGL, the address on its  *)
(* confirmation page: title and buffer.  A title of both interfaces has the*)
(* words of BAGL.                                                          *)
Bare(title) == <<title, "none">>
BaglFlow(kind) ==
  CASE kind = "address" ->
         <<Bare("Confirm Address"), <<"Path", "bip32_path">>, <<"Address", "address">>,
           Bare("Approve"), Bare("Reject")>>
    [] kind = "transaction" ->
         <<Bare("Review Transaction"), <<"Tx Length", "txlength">>, <<"Nexus", "nexus">>,
           <<"Chain", "chain">>, <<"Script Length", "scriptlength">>, <<"Address", "address">>,
           <<"Token", "token">>, <<"Amount", "amount">>, Bare("Approve"), Bare("Reject")>>
    [] kind = "custom" ->
         <<Bare("Review Transaction"), <<"Nexus", "nexus">>, <<"Chain", "chain">>,
           <<"Contract", "contract">>, <<"Method", "contract_method">>,
           <<"Method Args", "address">>, Bare("Approve"), Bare("Reject")>>

NbglPairs(kind) ==
  CASE kind = "address" -> <<<<"Address", "confirm_address">>>>
    [] kind = "transaction" ->
         <<<<"Token", "token">>, <<"Amount", "amount">>, <<"Address", "nbgl_address">>,
           <<"Tx Length", "txlength">>, <<"Nexus", "nexus">>, <<"Chain", "chain">>,
           <<"Script Length", "scriptlength">>>>
    [] kind = "custom" ->
         <<<<"Nexus", "nexus">>, <<"Chain", "chain">>, <<"Contract", "contract">>,
           <<"Method", "contract_method">>, <<"Address", "nbgl_address">>,
           <<"Method Args", "contract_method_args">>>>

Reviewing == flow \in Kinds

(* The page displayed.  NBGL: a start page, the pairs, the page to sign on;*)
(* the address and its two buttons are one page.                           *)
Current ==
  CASE ~Reviewing -> Bare(flow)
    [] Reviewing /\ ui = "BAGL" -> BaglFlow(flow)[page]
    [] Reviewing /\ ui = "NBGL" ->
         IF page = 1 THEN Bare("Start")
         ELSE IF flow = "address" THEN NbglPairs(flow)[1]
         ELSE IF page = nbPairs + 2 THEN Bare("Sign") ELSE pairs[page - 1]

LastPage ==
  IF ui = "BAGL" THEN Len(BaglFlow(flow)) ELSE IF flow = "address" THEN 2 ELSE nbPairs + 2

(* The user reads the page that comes up.                                  *)
Reading == IF Current[2] = "none" THEN {} ELSE {<<Current[1], Visible(Current[2])>>}
Read(before) == seen' = before \cup Reading'

-----------------------------------------------------------------------------
(* ui_display_address, ui_display_transaction, ui_display_custom_transaction. *)
NoDecision == [choice |-> "none", by |-> "none", served |-> FALSE, seen |-> {}]

StartReview(r) ==
  /\ flow' = r.kind
  /\ page' = 1
  /\ request' = r /\ served' = TRUE
  /\ decision' = NoDecision
  /\ callback' = (IF ui = "NBGL" THEN callback
                  ELSE IF r.kind = "address" THEN "pubkey" ELSE "transaction")
  /\ seen' = {}
  /\ UNCHANGED <<pairs, nbPairs, maxLines>>

(* BAGL, a path whose text does not fit: SW_DISPLAY_BIP32_PATH_FAIL, and   *)
(* what is displayed stays, with an empty path.                            *)
PathFails(r) == ui = "BAGL" /\ r.kind = "address" /\ r.length.path >= Size["bip32_path"]

(* Deviation: the callback is set before the path is formatted.            *)
DisplayFailsWithCallback(r) ==
  /\ flow # "overrun"
  /\ PathFails(r)
  /\ buffers' = [buffers EXCEPT !["bip32_path"] = Cleared(buffers["bip32_path"])]
  /\ callback' = "pubkey"
  /\ served' = FALSE
  /\ UNCHANGED <<ui, pairs, nbPairs, maxLines, flow, page, request, seen, decision>>

DisplayFails(r) ==
  /\ flow # "overrun"
  /\ PathFails(r)
  /\ buffers' = [buffers EXCEPT !["bip32_path"] = Cleared(buffers["bip32_path"])]
  /\ served' = FALSE
  /\ UNCHANGED <<ui, callback, pairs, nbPairs, maxLines, flow, page, request, seen, decision>>

DisplayReview(r) ==
  /\ flow # "overrun"
  /\ ~PathFails(r)
  /\ Fits(r)
  /\ \E args \in Arguments(r) :
       buffers' = [b \in Buffers |->
         IF \E c \in Copies(ui, r.kind) : c[1] = b
         THEN LET c == CHOOSE c \in Copies(ui, r.kind) : c[1] = b
              IN  Filled(buffers[b], IF c[2] = "args" THEN args ELSE Text(r, c[2]))
         ELSE buffers[b]]
  /\ StartReview(r)
  /\ UNCHANGED ui

(* memmove writes behind a buffer: nothing can be said of what follows.    *)
DisplayOverruns(r) ==
  /\ flow # "overrun"
  /\ ~PathFails(r)
  /\ ~Fits(r)
  /\ flow' = "overrun"
  /\ UNCHANGED <<ui, buffers, callback, pairs, nbPairs, maxLines, page, request, served, seen,
                 decision>>

-----------------------------------------------------------------------------
(* The user.                                                               *)
UserActs == UNCHANGED <<ui, buffers, callback, request, served>>

(* One page on or back: there is no FLOW_LOOP in a review.                 *)
LoopAround(n) == IF n = 0 THEN LastPage ELSE n                 \* deviation
Within(n)     == n

Turn ==
  /\ Reviewing
  /\ ui = "NBGL" => page > 1
  /\ \E n \in {page - 1, page + 1} :
       /\ page' = Within(n)
       /\ page' \in (IF ui = "NBGL" THEN 2 ELSE 1) .. LastPage
  /\ UserActs
  /\ UNCHANGED <<pairs, nbPairs, maxLines, flow, decision>>
  /\ Read(seen)

(* review_continue, review_continue_custom: the list is set anew, pairs    *)
(* beyond nbPairs are left over.  continue_review: no list.                *)
Listed(list) == [k \in 1 .. 7 |-> IF k <= Len(list) THEN list[k] ELSE pairs[k]]
CountAll(list)  == 7                                           \* deviations
CountOneMore(list) == Len(list) + 1
Count(list)    == Len(list)
LinesLeftOver(kind) == IF kind = "custom" THEN 1 ELSE maxLines \* deviation
Lines(kind)    == IF kind = "custom" THEN 1 ELSE 0

ContinueReview ==
  /\ ui = "NBGL"
  /\ Reviewing /\ page = 1
  /\ IF flow = "address" THEN UNCHANGED <<pairs, nbPairs, maxLines>>
     ELSE /\ pairs' = Listed(NbglPairs(flow))
          /\ nbPairs' = Count(NbglPairs(flow))
          /\ maxLines' = Lines(flow)
  /\ page' = 2
  /\ UserActs
  /\ UNCHANGED <<flow, decision>>
  /\ Read({})

Decide(choice, by) ==
  /\ decision' = [choice |-> choice, by |-> by, served |-> served, seen |-> seen]
  /\ flow' = (IF ui = "BAGL" THEN "menu" ELSE "status")
  /\ page' = 1
  /\ seen' = {}
  /\ UserActs
  /\ UNCHANGED <<pairs, nbPairs, maxLines>>

(* BAGL: what g_validate_callback points at, which ends in ui_menu_main.   *)
Press ==
  /\ ui = "BAGL"
  /\ Reviewing
  /\ \/ Current[1] = "Approve" /\ Decide("approve", callback)
     \/ Current[1] = "Reject" /\ Decide("reject", callback)

(* NBGL: long press or choice to approve, "Cancel" or "Reject transaction" *)
(* on any page (the question before a rejection is in Screens).            *)
Tap ==
  /\ ui = "NBGL"
  /\ Reviewing
  /\ LET by == IF flow = "address" THEN "pubkey" ELSE "transaction"
     IN  \/ page > 1 /\ page = LastPage /\ Decide("approve", by)
         \/ Decide("reject", by)

(* The status page ends in ui_menu_main.                                   *)
Dismiss ==
  /\ flow = "status"
  /\ flow' = "menu"
  /\ UserActs
  /\ UNCHANGED <<pairs, nbPairs, maxLines, page, seen, decision>>

-----------------------------------------------------------------------------
(* The application starts: static data are zero.                           *)
ZeroBuffers == [b \in Buffers |-> [text |-> NoText, behind |-> NoText]]
ZeroPairs   == [k \in 1 .. 7 |-> Bare("none")]

Init ==
  /\ ui \in {"BAGL", "NBGL"}
  /\ buffers = ZeroBuffers /\ callback = "none"
  /\ pairs = ZeroPairs /\ nbPairs = 0 /\ maxLines = 0
  /\ flow = "menu" /\ page = 1
  /\ request \in Requests /\ served = FALSE
  /\ seen = {} /\ decision = NoDecision

PowerCycle ==
  /\ buffers' = ZeroBuffers /\ callback' = "none"
  /\ pairs' = ZeroPairs /\ nbPairs' = 0 /\ maxLines' = 0
  /\ flow' = "menu" /\ page' = 1
  /\ served' = FALSE
  /\ seen' = {} /\ decision' = NoDecision
  /\ UNCHANGED <<ui, request>>

Next ==
  \/ \E r \in Requests : DisplayFails(r) \/ DisplayReview(r) \/ DisplayOverruns(r)
  \/ Turn \/ ContinueReview \/ Press \/ Tap \/ Dismiss
  \/ PowerCycle

Spec == Init /\ [][Next]_vars

-----------------------------------------------------------------------------
(* What a title announces.                                                 *)
Subject(kind, title) ==
  CASE title = "Address" ->
         (CASE kind = "address" -> "address" [] kind = "transaction" -> "to" [] kind = "custom" -> "from")
    [] title = "Path"          -> "path"
    [] title = "Tx Length"     -> "txlength"
    [] title = "Nexus"         -> "nexus"
    [] title = "Chain"         -> "chain"
    [] title = "Script Length" -> "scriptlength"
    [] title = "Token"         -> "token"
    [] title = "Amount"        -> "amount"
    [] title = "Contract"      -> "name"
    [] title = "Method"        -> "method"
    [] title = "Method Args"   -> "args"

(* Texts that end in their buffer; the arguments of a custom transaction   *)
(* are out: their memory is gone when they are copied.                     *)
Displayable(r, c) == c[2] # "args" /\ Text(r, c[2]).nul < Size[c[1]]

(* What the user can read of a field: its start up to the first NUL, and of*)
(* a custom transaction on the touch screen not more than a line of it.    *)
Shown(u, r, f) ==
  LET text == Text(r, f)
  IN  Excerpt(text, IF u = "NBGL" /\ r.kind = "custom" THEN Least(text.nul, text.line) ELSE text.nul)

(* What a text can be of, and what a page can announce.                   *)
Names    == {r.id : r \in Requests}
            \cup {"none", "stack", "memory behind the buffer", "two requests"}
Texts    == [of : Names, field : Fields \cup {"none"}, length : Nat, nul : Nat, line : Nat]
Excerpts == [of : Names, field : Fields \cup {"none"}, length : Nat]
Titles == {"Path", "Address", "Tx Length", "Nexus", "Chain", "Script Length", "Token", "Amount",
           "Contract", "Method", "Method Args"}
Pages  == (Titles \X Buffers) \cup {Bare("none")}

(* Type invariant.                                                         *)
TypeOK ==
  /\ ui \in {"BAGL", "NBGL"}
  /\ buffers \in [Buffers -> [text : Texts, behind : Texts]]
  /\ callback \in {"none", "pubkey", "transaction"}
  /\ pairs \in [1 .. 7 -> Pages] /\ nbPairs \in 0 .. 7 /\ maxLines \in {0, 1}
  /\ flow \in Kinds \cup {"menu", "status", "overrun"}
  /\ page \in Nat
  /\ request \in Requests
  /\ served \in BOOLEAN
  /\ seen \subseteq Titles \X Excerpts
  /\ decision \in [choice : {"none", "approve", "reject"},
                   by : {"none", "pubkey", "transaction"}, served : BOOLEAN,
                   seen : SUBSET (Titles \X Excerpts)]

(* The page displayed shows the field its title announces, of the request  *)
(* under review, from its start up to its first NUL: never the rest of an  *)
(* earlier, longer text, another kind's field in the buffer they share     *)
(* (g_address), a pair left over from another list, or less than that      *)
(* because of the limit to one line of another list (ui_display_*,         *)
(* review_continue, _custom).  Once an address request has failed, the page*)
(* of the path is empty and shows neither path.                            *)
PageShowsItsField ==
  Reviewing /\ Current[2] # "none" =>
    LET field == Subject(flow, Current[1])
    IN  IF ~served /\ field = "path" THEN Visible(Current[2]) = Blank
        ELSE Displayable(request, <<Current[2], field>>) =>
               Visible(Current[2]) = Shown(ui, request, field)

(* The decision that BAGL's last pages will take is that of the review they*)
(* end, also when a request in between failed (g_validate_callback).       *)
CallbackFitsReview ==
  /\ ui = "BAGL" /\ Reviewing =>
       callback = IF flow = "address" THEN "pubkey" ELSE "transaction"
  /\ decision.choice # "none" =>
       decision.by = IF request.kind = "address" THEN "pubkey" ELSE "transaction"

(* Whoever approves has been on the page of each field of the request and  *)
(* has read there what can be read of it (Shown, which may be less than the*)
(* field): the pages cannot be skipped.  Once an address request has failed*)
(* the path may have been on the display before, or not at all.            *)
ApprovedAllPagesSeen ==
  decision.choice = "approve" =>
    \A c \in Copies(ui, request.kind) :
      Displayable(request, c) /\ (decision.served \/ c[2] # "path") =>
        \E title \in {read[1] : read \in decision.seen} :
          /\ Subject(request.kind, title) = c[2]
          /\ <<title, Shown(ui, request, c[2])>> \in decision.seen

(* ui/nbgl_display_transaction.c:116: "Format the amount and address       *)
(* strings in g_amount and g_address buffers": in them, not behind them.   *)
FieldsFitTheirBuffers == flow # "overrun"
=============================================================================
