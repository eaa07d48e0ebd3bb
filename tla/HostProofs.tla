----------------------------- MODULE HostProofs -----------------------------
(***************************************************************************)
(* Proofs about Host: with the client, the application behaves as Screens  *)
(* says it may, so that everything proved there holds here; and a call gets*)
(* what it was made for, whatever came before it and in between.           *)
(***************************************************************************)
EXTENDS Host, ScreensProofs

(* The client's variables, with the number of the message that is due.     *)
CallsTyped ==
  /\ HostTypeOK
  /\ call.tx \in Transactions \cup {<<>>}
  /\ phase = "sending" => call.next \in 0 .. Len(call.tx) \/ NoMessage(call)

(* What the device holds of the transaction of this call, unless the menu  *)
(* or a restart took the context: the messages up to the one that is due.  *)
MessagesStored ==
  /\ call.kind = "sign_tx" /\ phase \in {"sending", "waiting"} /\ call.next > 0
  /\ ctx.req_type = "CONFIRM_TRANSACTION"
  => /\ asked = call.path
     /\ upload = SubSeq(call.tx, 1, call.next - 1)
     /\ phase = "sending" => ctx.raw_tx_len <= MaxResponseLen

(* The client waits while the device does, and then this is displayed.     *)
CallUnderReview ==
  /\ phase = "waiting" <=> awaiting
  /\ phase = "waiting" =>
       /\ app = "running"
       /\ call.kind \in {"get_public_key_with_confirmation", "sign_tx"}
       /\ shown.path = call.path
       /\ call.kind = "sign_tx" =>
            /\ screen \in TransactionReviews /\ shown.raw = call.tx
            /\ call.next = Len(call.tx) + 1 /\ call.tx # <<>>
       /\ call.kind # "sign_tx" => screen \in AddressReviews /\ shown.pk = call.path

CallInv ==
  /\ CallsTyped
  /\ MessagesStored
  /\ CallUnderReview
  /\ CallGetsItsAnswer
  /\ OnlyEchoedTransactionsSign

-----------------------------------------------------------------------------
(* The client sends nothing but the commands the device was proved for.    *)
LEMMA MessageIsCommand ==
  ASSUME CallsTyped, phase = "sending", ~NoMessage(call)
  PROVE  Message(call) \in Commands
<1>1. /\ call = [kind |-> call.kind, path |-> call.path, tx |-> call.tx, next |-> call.next]
      /\ call.kind \in CallKinds /\ call.path \in Paths
  BY DEF CallsTyped, HostTypeOK, CallType
<1>2. call.tx \in Transactions \cup {<<>>} /\ call.next \in 0 .. Len(call.tx)
  BY DEF CallsTyped
<1> QED
  BY <1>1, <1>2, ClientAssumption

LEMMA HostStepIsStep ==
  ASSUME CallInv, [HostNext]_hostVars
  PROVE  [Next]_vars
<1>1. CASE Exchange
  <2>1. Message(call) \in Commands
    BY <1>1, MessageIsCommand DEF Exchange, CallInv
  <2> QED
    BY <1>1, <2>1 DEF Exchange, Next, Receive
<1>2. CASE \E kind \in CallKinds : \E arguments \in Arguments(kind) : Call(kind, arguments)
  BY <1>2 DEF Call
<1>3. CASE Fail
  BY <1>3 DEF Fail
<1>4. CASE DeviceStep(Start \/ PowerLoss) \/ DeviceStep(Touch)
  BY <1>4 DEF DeviceStep, Next
<1>5. CASE UNCHANGED hostVars
  BY <1>5 DEF hostVars
<1> QED
  BY <1>1, <1>2, <1>3, <1>4, <1>5 DEF HostNext

(* What each message is.                                                   *)
LEMMA Messages ==
  ASSUME CallsTyped, phase = "sending", ~NoMessage(call)
  PROVE  LET c == Message(call)
         IN  /\ call.kind \in {"get_version", "get_app_name"} => c.ins \in {GET_VERSION, GET_APP_NAME}
             /\ call.kind = "get_public_key" =>
                  c.ins = GET_PUBLIC_KEY /\ c.p1 = 0 /\ c.data = call.path
             /\ call.kind = "get_public_key_with_confirmation" =>
                  c.ins = GET_PUBLIC_KEY /\ c.p1 = 1 /\ c.data = call.path
             /\ call.kind = "sign_tx" /\ call.next = 0 =>
                  c.ins = SIGN_TX /\ c.p1 = P1_START /\ c.data = call.path
             /\ call.kind = "sign_tx" /\ call.next > 0 =>
                  /\ c.ins = SIGN_TX /\ c.p1 # P1_START
                  /\ call.next \in 1 .. Len(call.tx)
                  /\ c.data = call.tx[call.next] /\ c.data \in Chunks
                  /\ c.p2 = P2_MORE <=> call.next < Len(call.tx)
<1>1. call \in CallType /\ call.next \in 0 .. Len(call.tx)
  BY DEF CallsTyped, HostTypeOK
<1>2. call.kind \in {"get_version", "get_app_name", "get_public_key",
                     "get_public_key_with_confirmation", "sign_tx"}
  BY <1>1, ClientAssumption DEF CallType
<1>3. call.tx \in Seq(Chunks) /\ Len(call.tx) \in Nat
  BY <1>1 DEF CallType
<1>4. CASE call.kind # "sign_tx"
  <2>1. call.kind \in {"get_version", "get_app_name"} => Message(call).ins \in {GET_VERSION, GET_APP_NAME}
    BY DEF Message, APDU
  <2>2. call.kind = "get_public_key" => Message(call) = APDU(GET_PUBLIC_KEY, 0, 0, call.path)
    BY DEF Message
  <2>3. call.kind = "get_public_key_with_confirmation" =>
          Message(call) = APDU(GET_PUBLIC_KEY, 1, 0, call.path)
    BY DEF Message
  <2> QED
    BY <1>2, <1>4, <2>1, <2>2, <2>3 DEF APDU
<1>5. CASE call.kind = "sign_tx" /\ call.next = 0
  <2>1. Message(call) = APDU(SIGN_TX, P1_START, P2_MORE, call.path)
    BY <1>1, <1>3, <1>5 DEF Message
  <2> QED
    BY <1>5, <2>1 DEF APDU
<1>6. CASE call.kind = "sign_tx" /\ call.next > 0 /\ call.next < Len(call.tx)
  <2>1. Message(call) = APDU(SIGN_TX, P1_START + call.next, P2_MORE, call.tx[call.next])
    BY <1>1, <1>3, <1>6 DEF Message
  <2> QED
    BY <1>1, <1>3, <1>6, <2>1 DEF APDU, P1_START, P2_MORE
<1>7. CASE call.kind = "sign_tx" /\ call.next > 0 /\ call.next >= Len(call.tx)
  <2>1. Message(call) = APDU(SIGN_TX, P1_START + call.next, P2_LAST, call.tx[Len(call.tx)])
    BY <1>1, <1>3, <1>7 DEF Message
  <2> QED
    BY <1>1, <1>3, <1>7, <2>1 DEF APDU, P1_START, P2_MORE, P2_LAST
<1> QED
  BY <1>1, <1>3, <1>4, <1>5, <1>6, <1>7

-----------------------------------------------------------------------------
(* What a message may come to.                                             *)
Refused == ~awaiting' /\ sent'.sw # "SW_OK"

Informed ==
  /\ call.kind \in {"get_version", "get_app_name"}
  /\ ~awaiting' /\ sent' = Status("SW_OK")

KeySent ==
  /\ call.kind = "get_public_key"
  /\ ~awaiting' /\ sent' = Pubkey(call.path)

KeyUnderReview ==
  /\ call.kind = "get_public_key_with_confirmation"
  /\ awaiting' /\ app' = "running"
  /\ screen' = "address" /\ shown'.path = call.path /\ shown'.pk = call.path

PathStored ==
  /\ call.kind = "sign_tx" /\ call.next = 0
  /\ ~awaiting'
  /\ asked' = call.path /\ upload' = <<>> /\ ctx'.raw_tx_len = 0

ChunkStored ==
  /\ call.kind = "sign_tx"
  /\ call.next \in 1 .. Len(call.tx)
  /\ ctx.req_type = "CONFIRM_TRANSACTION"
  /\ asked' = asked /\ upload' = Append(upload, call.tx[call.next])

ChunkEchoed ==
  /\ ChunkStored
  /\ call.next < Len(call.tx)
  /\ ~awaiting'
  /\ sent'.sw = "SW_OK" => ctx'.raw_tx_len <= MaxResponseLen

TransactionUnderReview ==
  /\ ChunkStored
  /\ call.next = Len(call.tx)
  /\ awaiting' /\ app' = "running"
  /\ screen' \in TransactionReviews
  /\ shown'.path = asked' /\ shown'.raw = upload'
  /\ ctx'.raw_tx_len = ctx.raw_tx_len + ChunkSize[call.tx[call.next]]

(* A host that waits finds the loop ready to answer or to defer.           *)
LEMMA AnswerArrives ==
  ASSUME SafeInv, app = "running", ~awaiting, NEW r, Answer(r)
  PROVE  sent' = r /\ ~awaiting'
BY IoOnCommand, ClientAssumption DEF SafeInv, Answer, Transmit

LEMMA DeferWaits ==
  ASSUME SafeInv, app = "running", ~awaiting, Defer
  PROVE  awaiting' /\ app' = "running"
BY IoOnCommand, ClientAssumption DEF SafeInv, Defer, Transmit

LEMMA ErrorsAreNotOk ==
  /\ \A sw \in Statuses \ {"SW_OK"} : Status(sw).sw # "SW_OK"
  /\ \A status : ParsingFailure(status).sw # "SW_OK"
  /\ \A raw, len : Echo(raw, len).sw = "SW_OK" => len <= MaxResponseLen
  /\ Status("SW_OK").sw = "SW_OK"
BY DEF Status, ParsingFailure, Echo

(* Every exchange comes to one of these.                                   *)
LEMMA Outcomes ==
  ASSUME TypeInv, SafeInv, CallsTyped, Exchange, phase = "waiting" <=> awaiting
  PROVE  \/ Refused \/ Informed \/ KeySent \/ KeyUnderReview
         \/ PathStored \/ ChunkEchoed \/ TransactionUnderReview
<1> DEFINE c == Message(call)
<1>a. phase = "sending" /\ ~NoMessage(call) /\ Handle(c) /\ ~awaiting
  BY DEF Exchange
<1>b. c \in Commands
  BY <1>a, MessageIsCommand
<1>c. /\ call.kind \in {"get_version", "get_app_name"} => c.ins \in {GET_VERSION, GET_APP_NAME}
      /\ call.kind = "get_public_key" =>
           c.ins = GET_PUBLIC_KEY /\ c.p1 = 0 /\ c.data = call.path
      /\ call.kind = "get_public_key_with_confirmation" =>
           c.ins = GET_PUBLIC_KEY /\ c.p1 = 1 /\ c.data = call.path
      /\ call.kind = "sign_tx" /\ call.next = 0 =>
           c.ins = SIGN_TX /\ c.p1 = P1_START /\ c.data = call.path
      /\ call.kind = "sign_tx" /\ call.next > 0 =>
           /\ c.ins = SIGN_TX /\ c.p1 # P1_START
           /\ call.next \in 1 .. Len(call.tx)
           /\ c.data = call.tx[call.next] /\ c.data \in Chunks
           /\ c.p2 = P2_MORE <=> call.next < Len(call.tx)
  BY <1>a, Messages
<1>d. /\ call.kind \in {"get_version", "get_app_name", "get_public_key",
                       "get_public_key_with_confirmation", "sign_tx"}
      /\ call.next \in Nat /\ call.path \in Paths
  BY ClientAssumption DEF CallsTyped, HostTypeOK, CallType
<1>e. GET_VERSION = 3 /\ GET_APP_NAME = 4 /\ GET_PUBLIC_KEY = 5 /\ SIGN_TX = 6
      /\ P2_LAST = 0 /\ P2_MORE = 128
  BY DEF GET_VERSION, GET_APP_NAME, GET_PUBLIC_KEY, SIGN_TX, P2_LAST, P2_MORE
<1>f. app = "running"
  BY <1>a DEF Handle, ReceiveRefused, GetInformation, GetPublicKey, SignTxStart, SignTxRefuse,
              SignTxMore, SignTxParsingFails, SignTxReview, StoreChunk, Accepts, Receives
<1>g. \A sw \in Statuses \ {"SW_OK"} : Answer(Status(sw)) => Refused
  BY <1>a, <1>f, AnswerArrives, ErrorsAreNotOk DEF Refused
<1>1. CASE ReceiveRefused(c)
  <2>1. Refusal(c) \in Statuses \ {"SW_OK"}
    BY <1>1 DEF ReceiveRefused, Refusal, Statuses
  <2> QED
    BY <1>1, <1>g, <2>1 DEF ReceiveRefused
<1>2. CASE GetInformation(c)
  <2>1. c.ins \in {GET_VERSION, GET_APP_NAME} /\ Answer(Status("SW_OK"))
    BY <1>2 DEF GetInformation, Accepts
  <2>2. call.kind \in {"get_version", "get_app_name"}
    BY <1>c, <1>d, <1>e, <2>1
  <2> QED
    BY <1>a, <1>f, <2>1, <2>2, AnswerArrives DEF Informed
<1>3. CASE GetPublicKey(c)
  <2>1. call.kind \in {"get_public_key", "get_public_key_with_confirmation"} /\ c.data = call.path
    BY <1>3, <1>c, <1>d, <1>e DEF GetPublicKey, Accepts
  <2>2. {"SW_WRONG_DATA_LENGTH", "SW_DENY", "SW_DISPLAY_ADDRESS_FAIL",
         "SW_DISPLAY_BIP32_PATH_FAIL"} \subseteq Statuses \ {"SW_OK"}
    BY DEF Statuses
  <2>3. CASE \E sw \in Statuses \ {"SW_OK"} : Answer(Status(sw))
    BY <1>g, <2>3
  <2>4. CASE /\ ctx' = [RequestContext("CONFIRM_ADDRESS", c.data) EXCEPT !.pk = c.data]
             /\ \/ c.p1 # 1 /\ Answer(Pubkey(ctx'.pk))
                \/ c.p1 = 1 /\ Display("address")
    <3>1. ctx'.pk = call.path /\ ctx'.path = call.path
      BY <2>1, <2>4 DEF RequestContext, ZeroContext
    <3>2. CASE c.p1 # 1 /\ Answer(Pubkey(ctx'.pk))
      BY <1>a, <1>c, <1>f, <2>1, <3>1, <3>2, AnswerArrives DEF KeySent
    <3>3. CASE c.p1 = 1 /\ Display("address")
      BY <1>a, <1>c, <1>f, <2>1, <3>1, <3>3, DeferWaits DEF Display, KeyUnderReview
    <3> QED
      BY <2>4, <3>2, <3>3
  <2> QED
    BY <1>3, <2>2, <2>3, <2>4 DEF GetPublicKey, DisplayAddress
<1>4. CASE SignTxStart(c)
  <2>1. call.kind = "sign_tx" /\ call.next = 0 /\ c.data = call.path
    BY <1>4, <1>c, <1>d, <1>e DEF SignTxStart, Accepts
  <2>2. ctx'.raw_tx_len = 0
    BY <1>4 DEF SignTxStart, RequestContext, ZeroContext
  <2> QED
    BY <1>4, <1>a, <1>f, <2>1, <2>2, AnswerArrives DEF SignTxStart, PathStored
<1>5. CASE SignTxRefuse(c)
  <2>1. {"SW_BAD_STATE", "SW_WRONG_TX_LENGTH"} \subseteq Statuses \ {"SW_OK"}
    BY DEF Statuses
  <2> QED
    BY <1>5, <1>g, <2>1 DEF SignTxRefuse
<1>6. ASSUME StoreChunk(c)
      PROVE  /\ ChunkStored
             /\ Stored(c).raw_tx_len = ctx.raw_tx_len + ChunkSize[call.tx[call.next]]
             /\ Stored(c).raw_tx = Append(upload, call.tx[call.next])
             /\ Stored(c).path = asked
             /\ Stored(c) \in ContextType
  <2>1. call.kind = "sign_tx" /\ call.next > 0
    BY <1>6, <1>c, <1>d, <1>e DEF StoreChunk, Accepts
  <2>2. ctx \in ContextType /\ ctx.raw_tx = upload /\ ctx.path = asked
    BY <1>6 DEF TypeInv, TypeOK, SafeInv, UploadIntegrity, StoreChunk
  <2>3. Stored(c) \in ContextType
    BY <1>6, <1>b, StoredTyped DEF TypeInv
  <2> QED
    BY <1>6, <1>c, <2>1, <2>2, <2>3 DEF StoreChunk, ChunkStored, Stored, ContextType
<1>7. CASE SignTxMore(c)
  <2>1. ChunkStored /\ call.next < Len(call.tx) /\ ctx' = Stored(c)
    BY <1>7, <1>6, <1>c DEF SignTxMore, ChunkStored
  <2>2. ~awaiting' /\ sent' = Echo(ctx'.raw_tx, ctx'.raw_tx_len)
    BY <1>7, <1>a, <1>f, AnswerArrives DEF SignTxMore
  <2> QED
    BY <2>1, <2>2, ErrorsAreNotOk DEF ChunkEchoed
<1>8. CASE SignTxParsingFails(c)
  <2>1. PICK status : Answer(ParsingFailure(status))
    BY <1>8 DEF SignTxParsingFails
  <2> QED
    BY <1>a, <1>f, <2>1, AnswerArrives, ErrorsAreNotOk DEF Refused
<1>9. CASE SignTxReview(c)
  <2>1. StoreChunk(c) /\ c.p2 # P2_MORE
    BY <1>9, <1>e DEF SignTxReview
  <2>2. ChunkStored /\ call.next = Len(call.tx)
    BY <1>6, <1>c, <2>1 DEF ChunkStored
  <2>3. /\ ctx'.raw_tx = upload' /\ ctx'.path = asked'
        /\ ctx'.raw_tx_len = ctx.raw_tx_len + ChunkSize[call.tx[call.next]]
    BY <1>9, <1>6, <2>1, <2>2 DEF SignTxReview, ContextType, ChunkStored
  <2>4. PICK review \in {"custom", "transaction"} : Display(review)
    BY <1>9 DEF SignTxReview
  <2>5. awaiting' /\ app' = "running" /\ screen' = review
    BY <1>a, <1>f, <2>4, DeferWaits DEF Display
  <2>6. shown'.path = asked' /\ shown'.raw = upload'
    BY <2>3, <2>4 DEF Display
  <2> QED
    BY <2>2, <2>3, <2>5, <2>6 DEF TransactionUnderReview, TransactionReviews
<1> QED
  BY <1>a, <1>1, <1>2, <1>3, <1>4, <1>5, <1>7, <1>8, <1>9 DEF Handle

-----------------------------------------------------------------------------
(* An exchange leads from each outcome to a call in order.                 *)
LEMMA NextMessage ==
  ASSUME CallsTyped, Exchange, TypeInv'
  PROVE  /\ call' \in CallType /\ call'.tx = call.tx /\ call'.kind = call.kind
         /\ call'.path = call.path /\ call'.next = call.next + 1
         /\ sent' \in ReplyType
<1>1. call \in CallType /\ call' = [call EXCEPT !.next = call.next + 1]
  BY DEF CallsTyped, HostTypeOK, Exchange
<1>2. sent' \in ReplyType
  BY DEF TypeInv, TypeOK
<1> QED
  BY <1>1, <1>2 DEF CallType

LEMMA ExchangePreserves ==
  ASSUME TypeInv, SafeInv, TypeInv', CallInv, Exchange
  PROVE  CallInv'
<1> USE DEF CallInv
<1>a. /\ call' \in CallType /\ call'.tx = call.tx /\ call'.kind = call.kind
      /\ call'.path = call.path /\ call'.next = call.next + 1
      /\ sent' \in ReplyType
  BY NextMessage
<1>b. /\ phase = "sending" /\ ~NoMessage(call) /\ ~awaiting
      /\ IF awaiting' THEN phase' = "waiting" /\ UNCHANGED answer ELSE Take(sent', call')
  BY DEF Exchange, CallUnderReview
<1>c. /\ call.tx \in Transactions \cup {<<>>} /\ call.tx \in Seq(Chunks)
      /\ call.next \in 0 .. Len(call.tx) /\ Len(call.tx) \in Nat
      /\ answer \in ReplyType /\ phase' \in {"sending", "waiting", "returned", "raised"}
  BY <1>b DEF CallsTyped, HostTypeOK, CallType, Take
<1>d. answer' \in ReplyType
  BY <1>a, <1>b, <1>c DEF Take
<1>e. HostTypeOK'
  BY <1>a, <1>c, <1>d DEF HostTypeOK
<1>f. phase' = "waiting" <=> awaiting'
  BY <1>b DEF Take
<1>g. awaiting' \in BOOLEAN
  BY DEF TypeInv, TypeOK
<1>1. CASE Refused
  <2>1. phase' = "raised"
    BY <1>1, <1>b DEF Refused, Take
  <2> QED
    BY <1>a, <1>c, <1>e, <1>f, <2>1 DEF CallsTyped, MessagesStored, CallUnderReview, CallGetsItsAnswer,
       OnlyEchoedTransactionsSign
<1>2. CASE Informed
  <2>1. phase' = "returned" /\ answer' = Status("SW_OK")
    BY <1>2, <1>a, <1>b, ErrorsAreNotOk DEF Informed, Take, Complete
  <2>2. CallGetsItsAnswer'
    BY <1>2, <1>a, <2>1 DEF Informed, CallGetsItsAnswer
  <2> QED
    BY <1>a, <1>c, <1>e, <1>f, <2>1, <2>2 DEF CallsTyped, MessagesStored, CallUnderReview,
       OnlyEchoedTransactionsSign
<1>3. CASE KeySent
  <2>1. Pubkey(call.path).sw = "SW_OK"
    BY DEF Pubkey, KeyBytes, Status
  <2>2. phase' = "returned" /\ answer' = Pubkey(call.path)
    BY <1>3, <1>a, <1>b, <2>1 DEF KeySent, Take, Complete
  <2>3. CallGetsItsAnswer'
    BY <1>3, <1>a, <2>2 DEF KeySent, CallGetsItsAnswer
  <2> QED
    BY <1>a, <1>c, <1>e, <1>f, <2>2, <2>3 DEF CallsTyped, MessagesStored, CallUnderReview,
       OnlyEchoedTransactionsSign
<1>4. CASE KeyUnderReview
  <2>1. phase' = "waiting" /\ awaiting'
    BY <1>4, <1>b DEF KeyUnderReview
  <2>2. screen' \in AddressReviews
    BY <1>4 DEF KeyUnderReview, AddressReviews
  <2> QED
    BY <1>4, <1>a, <1>c, <1>e, <1>f, <2>1, <2>2 DEF KeyUnderReview, CallsTyped, MessagesStored,
       CallUnderReview, CallGetsItsAnswer, OnlyEchoedTransactionsSign
<1>5. CASE PathStored
  <2>1. call'.next = 1 /\ ~Complete(call')
    BY <1>5, <1>a, <1>c DEF PathStored, Complete
  <2>2. phase' \in {"sending", "raised"}
    BY <1>5, <1>b, <2>1 DEF PathStored, Take
  <2>3. SubSeq(call.tx, 1, 0) = <<>>
    BY <1>c
  <2>4. CallsTyped'
    BY <1>a, <1>c, <1>e, <2>1, <1>5 DEF CallsTyped, NoMessage, PathStored
  <2>5. ctx'.raw_tx_len <= MaxResponseLen
    BY <1>5, SizesAssumption DEF PathStored
  <2>6. MessagesStored'
    BY <1>5, <1>a, <2>1, <2>3, <2>5 DEF PathStored, MessagesStored
  <2> QED
    BY <1>f, <2>2, <2>4, <2>6 DEF CallUnderReview, CallGetsItsAnswer, OnlyEchoedTransactionsSign
<1>6. ASSUME ChunkStored
      PROVE  /\ asked' = call.path /\ upload' = SubSeq(call.tx, 1, call'.next - 1)
             /\ ctx.raw_tx_len <= MaxResponseLen
  <2>1. call.next \in 1 .. Len(call.tx) /\ call.next > 0
    BY <1>6 DEF ChunkStored
  <2>2. /\ asked = call.path /\ upload = SubSeq(call.tx, 1, call.next - 1)
        /\ ctx.raw_tx_len <= MaxResponseLen
    BY <1>6, <1>b, <2>1 DEF ChunkStored, MessagesStored
  <2>3. Append(SubSeq(call.tx, 1, call.next - 1), call.tx[call.next]) = SubSeq(call.tx, 1, call.next)
    BY <1>c, <2>1
  <2>4. call'.next - 1 = call.next
    BY <1>a, <1>c
  <2> QED
    BY <1>6, <2>2, <2>3, <2>4 DEF ChunkStored
<1>7. CASE ChunkEchoed
  <2>1. call'.next \in 1 .. Len(call.tx) /\ ~Complete(call')
    BY <1>7, <1>a, <1>c DEF ChunkEchoed, ChunkStored, Complete
  <2>2. phase' \in {"sending", "raised"} /\ (phase' = "sending" => sent'.sw = "SW_OK")
    BY <1>7, <1>b, <2>1 DEF ChunkEchoed, Take
  <2>3. CallsTyped'
    BY <1>a, <1>c, <1>e, <2>1 DEF CallsTyped
  <2>4. MessagesStored'
    BY <1>7, <1>6, <1>a, <2>2 DEF ChunkEchoed, MessagesStored
  <2> QED
    BY <1>f, <2>2, <2>3, <2>4 DEF CallUnderReview, CallGetsItsAnswer, OnlyEchoedTransactionsSign
<1>8. CASE TransactionUnderReview
  <2>1. phase' = "waiting" /\ awaiting'
    BY <1>8, <1>b DEF TransactionUnderReview
  <2>2. call.next = Len(call.tx) /\ call.tx # <<>> /\ call.kind = "sign_tx"
    BY <1>8, <1>c DEF TransactionUnderReview, ChunkStored
  <2>3. /\ asked' = call.path /\ upload' = SubSeq(call.tx, 1, call'.next - 1)
        /\ ctx.raw_tx_len <= MaxResponseLen
    BY <1>6, <1>8 DEF TransactionUnderReview
  <2>4. SubSeq(call.tx, 1, Len(call.tx)) = call.tx /\ call'.next - 1 = Len(call.tx)
    BY <1>a, <1>c, <2>2
  <2>5. CallsTyped'
    BY <1>a, <1>c, <1>e, <2>1 DEF CallsTyped
  <2>6. MessagesStored'
    BY <1>a, <2>1, <2>3 DEF MessagesStored
  <2>7. CallUnderReview' /\ CallGetsItsAnswer'
    BY <1>8, <1>a, <1>f, <2>1, <2>2, <2>3, <2>4 DEF TransactionUnderReview, CallUnderReview, CallGetsItsAnswer
  <2>8. OnlyEchoedTransactionsSign'
    <3>1. ctx.raw_tx_len \in Nat /\ ChunkSize[call.tx[call.next]] \in Nat /\ MaxResponseLen \in Nat
      BY <1>c, <2>2, SizesAssumption DEF TypeInv, TypeOK, ContextType
    <3>2. ctx'.raw_tx_len = ctx.raw_tx_len + ChunkSize[call.tx[Len(call.tx)]]
      BY <1>8, <2>2 DEF TransactionUnderReview
    <3> QED
      BY <1>a, <2>2, <2>3, <3>1, <3>2 DEF OnlyEchoedTransactionsSign
  <2> QED
    BY <2>5, <2>6, <2>7, <2>8
<1> QED
  BY <1>1, <1>2, <1>3, <1>4, <1>5, <1>7, <1>8, Outcomes DEF CallUnderReview

-----------------------------------------------------------------------------
(* A step of the user that answers nobody leaves the call as it is.        *)
LEMMA QuietTouch ==
  ASSUME CallInv, SafeInv, UNCHANGED <<call, phase, answer, asked, upload, shown, awaiting>>,
         phase = "waiting" =>
           /\ UNCHANGED app /\ ctx'.raw_tx_len = ctx.raw_tx_len
           /\ screen \in TransactionReviews => screen' \in TransactionReviews
           /\ screen \in AddressReviews => screen' \in AddressReviews,
         ctx'.req_type = "CONFIRM_TRANSACTION" =>
           ctx.req_type = "CONFIRM_TRANSACTION" /\ ctx'.raw_tx_len = ctx.raw_tx_len
  PROVE  CallInv'
<1> USE DEF CallInv
<1>1. CallsTyped'
  BY DEF CallsTyped, HostTypeOK, NoMessage
<1>2. MessagesStored'
  BY DEF MessagesStored
<1>3. CallUnderReview' /\ CallGetsItsAnswer' /\ OnlyEchoedTransactionsSign'
  BY DEF CallUnderReview, CallGetsItsAnswer, OnlyEchoedTransactionsSign
<1> QED
  BY <1>1, <1>2, <1>3

(* A step that ends the wait: the call is over.                            *)
LEMMA WaitEnds ==
  ASSUME CallInv, UNCHANGED call, phase = "waiting", ~awaiting', sent' \in ReplyType,
         Take(sent', call),
         sent'.sw = "SW_OK" =>
           \/ call.kind = "get_public_key_with_confirmation" /\ sent' = Pubkey(call.path)
           \/ call.kind = "sign_tx" /\ sent' = Signature(call.path, call.tx)
  PROVE  CallInv'
<1> USE DEF CallInv
<1>1. Complete(call)
  BY DEF Complete, CallUnderReview, CallsTyped, HostTypeOK, CallType
<1>2. /\ phase' \in {"returned", "raised"} /\ answer' = sent'
      /\ phase' = "returned" => sent'.sw = "SW_OK"
  BY <1>1 DEF Take
<1>3. CallsTyped'
  BY <1>2 DEF CallsTyped, HostTypeOK
<1>4. CallGetsItsAnswer'
  BY <1>2 DEF CallGetsItsAnswer
<1> QED
  BY <1>2, <1>3, <1>4 DEF MessagesStored, CallUnderReview, OnlyEchoedTransactionsSign

(* A decision: the client that waits gets the key or the signature, one    *)
(* that does not wait hears nothing.                                       *)
LEMMA DecisionPreserves ==
  ASSUME TypeInv, SafeInv, TypeInv', CallInv, DeviceStep(Decide)
  PROVE  CallInv'
<1>1. PICK r : /\ Touches /\ screen \in Reviews /\ CallbackReply(r) /\ UNCHANGED histVars
              /\ ctx'.raw_tx_len = ctx.raw_tx_len /\ ctx'.req_type = ctx.req_type
              /\ \/ r \in {Status("SW_DENY"), Status("SW_SIGNATURE_FAIL")}
                 \/ screen \in AddressReviews /\ r = KeyBytes(ctx.pk, ctx.raw_tx)
                 \/ screen \in TransactionReviews /\ r = Signature(ctx.path, ctx.raw_tx)
  <2>1. ctx \in ContextType
    BY DEF TypeInv, TypeOK
  <2>2. CASE ApproveAddress
    BY <2>2 DEF ApproveAddress, Touches, Reviews
  <2>3. CASE RejectAddress
    BY <2>3 DEF RejectAddress, Touches, Reviews
  <2>4. CASE ApproveTransaction
    BY <2>1, <2>4 DEF ApproveTransaction, Touches, Reviews, ContextType
  <2>5. CASE RejectTransaction
    BY <2>1, <2>5 DEF RejectTransaction, Touches, Reviews, ContextType
  <2> QED
    BY <2>2, <2>3, <2>4, <2>5 DEF DeviceStep, Decide
<1>2. app = "running" /\ awaiting
  BY <1>1, ClientAssumption DEF Touches, SafeInv, NoOrphanReview
<1>3. io = "WAITING" /\ ContextShown
  BY <1>2 DEF SafeInv, LoopInv, ReviewInv
<1>k. screen \in AddressReviews => KeyBytes(ctx.pk, ctx.raw_tx) = Pubkey(ctx.pk)
  <2>1. screen \in AddressReviews => ctx.raw_tx = <<>>
    BY <1>1, <1>3 DEF SafeInv, ReviewInv, Touches
  <2> QED
    BY <2>1 DEF Pubkey
<1>4. sent' = r /\ ~awaiting' /\ phase = "waiting"
  BY <1>1, <1>2, <1>3 DEF CallbackReply, CallInv, CallUnderReview
<1>5. UNCHANGED call /\ Take(sent', call) /\ sent' \in ReplyType
  BY <1>2, <1>4 DEF DeviceStep, TypeInv, TypeOK
<1>6. /\ screen \in AddressReviews => ctx.pk = call.path /\ call.kind = "get_public_key_with_confirmation"
      /\ screen \in TransactionReviews =>
           ctx.path = call.path /\ ctx.raw_tx = call.tx /\ call.kind = "sign_tx"
  BY <1>3, <1>4 DEF CallInv, CallUnderReview, ContextShown, AddressReviews, TransactionReviews
<1>7. Status("SW_DENY").sw # "SW_OK" /\ Status("SW_SIGNATURE_FAIL").sw # "SW_OK"
  BY DEF Status
<1> QED
  BY <1>1, <1>4, <1>5, <1>6, <1>7, <1>k, WaitEnds

LEMMA TouchKeepsCall ==
  ASSUME TypeInv, SafeInv, TypeInv', CallInv, DeviceStep(Touch)
  PROVE  CallInv'
<1>1. CASE Decide
  BY <1>1, DecisionPreserves DEF DeviceStep
<1>2. CASE Quit
  <2>1. /\ ~awaiting' /\ sent' = NoReply /\ ctx' = ZeroContext /\ UNCHANGED call
    BY <1>2 DEF Quit, Stop, Reset, Transmit, DeviceStep
  <2>2. ~awaiting
    BY <1>2 DEF Quit, SafeInv, LoopInv, ReviewInv, Reviews, AddressReviews, TransactionReviews
  <2>3. UNCHANGED <<phase, answer>> /\ phase # "waiting"
    BY <2>2 DEF DeviceStep, CallInv, CallUnderReview
  <2>4. ZeroContext.req_type # "CONFIRM_TRANSACTION"
    BY DEF ZeroContext
  <2> QED
    BY <2>1, <2>3, <2>4 DEF CallInv, CallsTyped, HostTypeOK, NoMessage, MessagesStored, CallUnderReview,
       CallGetsItsAnswer, OnlyEchoedTransactionsSign
<1>3. CASE OpenAbout \/ BackToMenu \/ ShowMenuAddress \/ ContinueReview \/ AskRejection \/ GoBackToTransaction
  <2>1. NoReplySent /\ UNCHANGED histVars /\ Touches
    BY <1>3 DEF OpenAbout, BackToMenu, ShowMenuAddress, ContinueReview, AskRejection,
                GoBackToTransaction, Browse, Touches
  <2>2. UNCHANGED <<call, phase, answer, asked, upload, shown, awaiting, app>>
    BY <2>1 DEF NoReplySent, histVars, DeviceStep
  <2>3. phase = "waiting" => screen \in Reviews
    BY DEF CallInv, CallUnderReview, Reviews
  <2>4. CASE OpenAbout \/ BackToMenu
    <3>1. screen \notin Reviews /\ UNCHANGED ctx
      BY <2>4 DEF OpenAbout, BackToMenu, Browse, Reviews, AddressReviews, TransactionReviews, StatusPages
    <3> QED
      BY <2>2, <2>3, <3>1, QuietTouch
  <2>5. CASE ShowMenuAddress
    <3>1. screen \notin Reviews /\ ctx'.req_type # "CONFIRM_TRANSACTION"
      BY <2>5 DEF ShowMenuAddress, RequestContext, ZeroContext, Reviews, AddressReviews, TransactionReviews
    <3> QED
      BY <2>2, <2>3, <3>1, QuietTouch
  <2>6. CASE ContinueReview \/ AskRejection \/ GoBackToTransaction
    <3>1. /\ UNCHANGED ctx
          /\ screen \in TransactionReviews => screen' \in TransactionReviews
          /\ screen \in AddressReviews => screen' \in AddressReviews
      BY <2>6 DEF ContinueReview, AskRejection, GoBackToTransaction, Browse, AddressReviews, TransactionReviews
    <3> QED
      BY <2>2, <3>1, QuietTouch
  <2> QED
    BY <1>3, <2>4, <2>5, <2>6
<1> QED
  BY <1>1, <1>2, <1>3 DEF DeviceStep, Touch

(* Power comes and goes; a call that waits is lost.                        *)
LEMMA PowerKeepsCall ==
  ASSUME CallInv, TypeInv', DeviceStep(Start \/ PowerLoss)
  PROVE  CallInv'
<1>1. /\ ~awaiting' /\ sent' = NoReply /\ ctx' = ZeroContext /\ UNCHANGED call
  BY DEF Start, PowerLoss, Stop, Reset, Transmit, DeviceStep
<1>2. ZeroContext.req_type # "CONFIRM_TRANSACTION" /\ NoReply.sw # "SW_OK"
  BY DEF ZeroContext, NoReply, Status
<1>3. CASE awaiting
  <2>1. phase = "waiting" /\ Take(sent', call)
    BY <1>1, <1>3 DEF DeviceStep, CallInv, CallUnderReview
  <2>2. sent' \in ReplyType
    BY DEF TypeInv, TypeOK
  <2> QED
    BY <1>1, <1>2, <2>1, <2>2, WaitEnds
<1>4. CASE ~awaiting
  <2>1. UNCHANGED <<phase, answer>> /\ phase # "waiting"
    BY <1>4 DEF DeviceStep, CallInv, CallUnderReview
  <2> QED
    BY <1>1, <1>2, <2>1 DEF CallInv, CallsTyped, HostTypeOK, NoMessage, MessagesStored, CallUnderReview,
       CallGetsItsAnswer, OnlyEchoedTransactionsSign
<1> QED
  BY <1>3, <1>4

(* The client's own steps.                                                 *)
LEMMA ClientKeepsCall ==
  ASSUME CallInv, TypeInv,
         Fail \/ (\E kind \in CallKinds : \E arguments \in Arguments(kind) : Call(kind, arguments))
  PROVE  CallInv'
<1> USE DEF CallInv
<1>1. CASE Fail
  <2>1. phase' = "raised" /\ phase = "sending" /\ UNCHANGED <<call, answer, awaiting>>
    BY <1>1 DEF Fail, vars
  <2> QED
    BY <2>1 DEF CallsTyped, HostTypeOK, MessagesStored, CallUnderReview, CallGetsItsAnswer,
       OnlyEchoedTransactionsSign
<1>2. ASSUME NEW kind \in CallKinds, NEW arguments \in Arguments(kind), Call(kind, arguments)
      PROVE  CallInv'
  <2>1. arguments[1] \in Paths /\ arguments[2] \in Transactions \cup {<<>>}
    BY <1>2 DEF Arguments
  <2>2. arguments[2] \in Seq(Chunks)
    <3>1. Transactions \subseteq Seq(Chunks) /\ <<>> \in Seq(Chunks)
      BY ClientAssumption
    <3> QED
      BY <2>1, <3>1
  <2>3. /\ call' = [kind |-> kind, path |-> arguments[1], tx |-> arguments[2], next |-> 0]
        /\ phase' = "sending" /\ answer' = NoReply /\ phase # "waiting" /\ UNCHANGED awaiting
    BY <1>2 DEF Call, vars
  <2>4. call' \in CallType /\ call'.next = 0 /\ call'.tx = arguments[2]
    BY <2>1, <2>2, <2>3 DEF CallType
  <2>5. NoReply \in ReplyType
    BY RepliesTyped, <<>> \in Seq(Chunks), 0 \in Nat, 0 \in Int DEF KeptPaths, Statuses
  <2>6. 0 \in 0 .. Len(arguments[2])
    BY <2>2
  <2>7. CallsTyped'
    BY <2>1, <2>3, <2>4, <2>5, <2>6 DEF CallsTyped, HostTypeOK
  <2> QED
    BY <2>3, <2>4, <2>7 DEF MessagesStored, CallUnderReview, CallGetsItsAnswer, OnlyEchoedTransactionsSign
<1> QED
  BY <1>1, <1>2

-----------------------------------------------------------------------------
LEMMA HostInitially == HostInit => CallInv
<1> SUFFICES ASSUME HostInit PROVE CallInv
  OBVIOUS
<1>1. NoReply \in ReplyType
  BY RepliesTyped, <<>> \in Seq(Chunks), 0 \in Nat, 0 \in Int DEF KeptPaths, Statuses
<1>2. call \in CallType /\ call.tx = <<>>
  <2>1. call \in [kind : CallKinds, path : Paths, tx : {<<>>}, next : {0}]
    BY DEF HostInit
  <2>2. <<>> \in Seq(Chunks)
    OBVIOUS
  <2>3. PICK kind \in CallKinds, path \in Paths :
          call = [kind |-> kind, path |-> path, tx |-> <<>>, next |-> 0]
    BY <2>1
  <2> QED
    BY <2>2, <2>3 DEF CallType
<1> QED
  BY <1>1, <1>2 DEF HostInit, Init, CallInv, CallsTyped, HostTypeOK, MessagesStored, CallUnderReview,
     CallGetsItsAnswer, OnlyEchoedTransactionsSign

LEMMA HostStep ==
  TypeInv /\ SafeInv /\ CallInv /\ [HostNext]_hostVars => TypeInv' /\ SafeInv' /\ CallInv'
<1> SUFFICES ASSUME TypeInv, SafeInv, CallInv, [HostNext]_hostVars
             PROVE  TypeInv' /\ SafeInv' /\ CallInv'
  OBVIOUS
<1>1. TypeInv' /\ SafeInv'
  BY HostStepIsStep, NextPreservesTypes, NextPreservesSafety
<1>2. CASE Exchange
  BY <1>1, <1>2, ExchangePreserves
<1>3. CASE DeviceStep(Touch)
  BY <1>1, <1>3, TouchKeepsCall
<1>4. CASE DeviceStep(Start \/ PowerLoss)
  BY <1>1, <1>4, PowerKeepsCall
<1>5. CASE Fail \/ (\E kind \in CallKinds : \E arguments \in Arguments(kind) : Call(kind, arguments))
  BY <1>1, <1>5, ClientKeepsCall
<1>6. CASE UNCHANGED hostVars
  <2>1. UNCHANGED <<call, phase, answer, asked, upload, shown, awaiting, ctx, screen, app>>
    BY <1>6 DEF hostVars, vars, clientVars
  <2> QED
    BY <1>1, <2>1, QuietTouch
<1> QED
  BY <1>1, <1>2, <1>3, <1>4, <1>5, <1>6 DEF HostNext

LEMMA HostSafety == HostSpec => [](TypeInv /\ SafeInv /\ CallInv)
<1>1. HostInit => TypeInv /\ SafeInv /\ CallInv
  BY HostInitially, ResetTyped, ResetSafe DEF HostInit
<1> QED
  BY <1>1, HostStep, PTL DEF HostSpec

(* With its client the application does nothing that Screens does not: what*)
(* holds of Screens holds here too (app_main.c under the test client).     *)
THEOREM HostKeepsToScreens == HostSpec => Spec
<1>1. HostInit => Init
  BY DEF HostInit
<1>2. CallInv /\ [HostNext]_hostVars => [Next]_vars
  BY HostStepIsStep
<1> QED
  BY <1>1, <1>2, HostSafety, PTL DEF HostSpec, Spec

(* The client's variables keep their types (boilerplate_command_sender.py).*)
THEOREM HostTypes == HostSpec => []HostTypeOK
<1>1. CallInv => HostTypeOK
  BY DEF CallInv, CallsTyped
<1> QED
  BY <1>1, HostSafety, PTL

(* Every call that returns has got the key of its path or the signature of *)
(* its whole transaction, for every way to cut transactions and every path.*)
THEOREM CallGetsItsAnswerHolds == HostSpec => []CallGetsItsAnswer
<1>1. CallInv => CallGetsItsAnswer
  BY DEF CallInv
<1> QED
  BY <1>1, HostSafety, PTL

(* What is reviewed is at most a response and a message long, whatever the *)
(* sizes are (sign_tx.c:69).                                               *)
THEOREM EchoBoundsTransactions == HostSpec => []OnlyEchoedTransactionsSign
<1>1. CallInv => OnlyEchoedTransactionsSign
  BY DEF CallInv
<1> QED
  BY <1>1, HostSafety, PTL
=============================================================================
