-------------------------------- MODULE Host --------------------------------
(***************************************************************************)
(* The application with the client it is tested with, the                  *)
(* BoilerplateCommandSender of tests/application_client: a call of the     *)
(* client is one command, or for sign_tx a path and then the transaction   *)
(* cut into messages of MAX_APDU_LEN bytes.  The client awaits every reply *)
(* and raises an exception for any but SW_OK; meanwhile the user may walk  *)
(* through the menus and the device may lose its power.                    *)
(***************************************************************************)
EXTENDS Screens

CONSTANTS
  Transactions,   \* what sign_tx is called with, after split_message
  CallKinds       \* the methods of the client that are called

(* Calls and their messages.                                               *)
CallType == [kind : CallKinds, path : Paths, tx : Seq(Chunks), next : Nat]

APDU(ins, p1, p2, data) == [cla |-> CLA, ins |-> ins, p1 |-> p1, p2 |-> p2, data |-> data]

(* The message that is due: number 0 of sign_tx is the path.               *)
Message(c) ==
  CASE c.kind = "get_version"    -> APDU(GET_VERSION, 0, 0, NoData)
    [] c.kind = "get_app_name"   -> APDU(GET_APP_NAME, 0, 0, NoData)
    [] c.kind = "get_public_key" -> APDU(GET_PUBLIC_KEY, 0, 0, c.path)
    [] c.kind = "get_public_key_with_confirmation" -> APDU(GET_PUBLIC_KEY, 1, 0, c.path)
    [] c.kind = "sign_tx" /\ c.next = 0 -> APDU(SIGN_TX, P1_START, P2_MORE, c.path)
    [] c.kind = "sign_tx" /\ c.next \in 1 .. Len(c.tx) - 1 ->
         APDU(SIGN_TX, P1_START + c.next, P2_MORE, c.tx[c.next])
    [] c.kind = "sign_tx" /\ c.next > 0 /\ c.next >= Len(c.tx) ->
         APDU(SIGN_TX, P1_START + c.next, P2_LAST, c.tx[Len(c.tx)])

(* messages[-1] of an empty transaction.                                   *)
NoMessage(c) == c.kind = "sign_tx" /\ c.next > 0 /\ c.tx = <<>>

ASSUME ClientAssumption ==
  /\ HostWaits
  /\ Transactions \subseteq Seq(Chunks)
  /\ CallKinds \subseteq {"get_version", "get_app_name", "get_public_key",
                          "get_public_key_with_confirmation", "sign_tx"}
  /\ \A kind \in CallKinds, path \in Paths, tx \in Transactions \cup {<<>>} :
       \A next \in 0 .. Len(tx) :
         LET c == [kind |-> kind, path |-> path, tx |-> tx, next |-> next]
         IN  ~NoMessage(c) => Message(c) \in Commands

VARIABLES
  call,     \* the client's call, with the message that is due
  phase,    \* "sending", "waiting" for its reply; "returned", "raised"
  answer    \* what the call returned, or the reply it raised an exception for

clientVars == <<call, phase, answer>>
hostVars   == <<vars, clientVars>>

-----------------------------------------------------------------------------
(* Only sign_tx takes a transaction.                                       *)
Arguments(kind) == Paths \X (IF kind = "sign_tx" THEN Transactions ELSE {<<>>})

Call(kind, arguments) ==
  /\ phase \in {"returned", "raised"}
  /\ call' = [kind |-> kind, path |-> arguments[1], tx |-> arguments[2], next |-> 0]
  /\ phase' = "sending"
  /\ answer' = NoReply
  /\ UNCHANGED vars

(* exchange: a reply other than SW_OK raises; the last one is the result.  *)
Complete(c) == c.kind # "sign_tx" \/ (c.next > Len(c.tx) /\ c.tx # <<>>)

Take(reply, c) ==
  IF reply.sw # "SW_OK" THEN phase' = "raised" /\ answer' = reply
  ELSE IF Complete(c) THEN phase' = "returned" /\ answer' = reply
  ELSE phase' = "sending" /\ UNCHANGED answer

Exchange ==
  /\ phase = "sending"
  /\ ~NoMessage(call)
  /\ Handle(Message(call))
  /\ call' = [call EXCEPT !.next = call.next + 1]
  /\ IF awaiting' THEN phase' = "waiting" /\ UNCHANGED answer
                  ELSE Take(sent', call')

(* The device cannot be reached, or there is nothing to send.              *)
Fail ==
  /\ phase = "sending"
  /\ app # "running" \/ NoMessage(call)
  /\ phase' = "raised"
  /\ UNCHANGED <<vars, call, answer>>

(* The user's steps, and power; they may end the wait of the client.       *)
DeviceStep(A) ==
  /\ A
  /\ IF awaiting /\ ~awaiting' THEN Take(sent', call) ELSE UNCHANGED <<phase, answer>>
  /\ UNCHANGED call

Decision == DeviceStep(Decide)

HostInit ==
  /\ Init
  /\ call \in [kind : CallKinds, path : Paths, tx : {<<>>}, next : {0}]
  /\ phase = "returned"
  /\ answer = NoReply

HostNext ==
  \/ \E kind \in CallKinds : \E arguments \in Arguments(kind) : Call(kind, arguments)
  \/ Exchange \/ Fail
  \/ DeviceStep(Start \/ PowerLoss)
  \/ DeviceStep(Touch)

(* The client runs on by itself; the user as in Screens.                   *)
HostFairness ==
  /\ WF_hostVars(Exchange \/ Fail)
  /\ WF_hostVars(DeviceStep(ContinueReview \/ AskRejection))
  /\ SF_hostVars(Decision)

HostSpec     == HostInit /\ [][HostNext]_hostVars
FairHostSpec == HostSpec /\ HostFairness

-----------------------------------------------------------------------------
(* Type invariant of the client.                                           *)
HostTypeOK ==
  /\ call \in CallType
  /\ phase \in {"sending", "waiting", "returned", "raised"}
  /\ answer \in ReplyType

(* A call that returns has got what it was made for: the key of its path,  *)
(* or the signature of its path's key over the whole transaction, in the   *)
(* order it was cut; and while it waits for the user, this is what is on   *)
(* the display.  Whatever earlier calls left in the device, whatever the   *)
(* user does between two messages (sign_tx.c, get_public_key.c).           *)
CallGetsItsAnswer ==
  /\ phase = "returned" /\ answer # NoReply =>
       answer = CASE call.kind \in {"get_version", "get_app_name"} -> Status("SW_OK")
                  [] call.kind \in {"get_public_key", "get_public_key_with_confirmation"} ->
                       Pubkey(call.path)
                  [] call.kind = "sign_tx" -> Signature(call.path, call.tx)
  /\ phase = "waiting" =>
       /\ shown.path = call.path
       /\ call.kind = "sign_tx" => screen \in TransactionReviews /\ shown.raw = call.tx
       /\ call.kind # "sign_tx" => screen \in AddressReviews

(* All chunks but the last are answered with everything received so far,  *)
(* which must fit a response, or the client gives up (sign_tx.c:69): what  *)
(* is reviewed is never longer than a response and one more message, though*)
(* MAX_TRANSACTION_LEN and P1_MAX leave room for four messages.            *)
OnlyEchoedTransactionsSign ==
  phase = "waiting" /\ call.kind = "sign_tx" =>
    ctx.raw_tx_len <= MaxResponseLen + ChunkSize[call.tx[Len(call.tx)]]

(* Every call ends, unless the user keeps the review: with a result or an  *)
(* exception.                                                              *)
CallsEnd == phase = "sending" ~> phase \in {"returned", "raised"}
=============================================================================
