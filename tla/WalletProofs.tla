---------------------------- MODULE WalletProofs ----------------------------
(***************************************************************************)
(* Screens implements Wallet: every step of the application is a step of   *)
(* Wallet or leaves what Wallet speaks of as it is, for every choice of the*)
(* constants.  The proof rests on the invariants of ScreensProofs.         *)
(***************************************************************************)
EXTENDS ScreensWallet, ScreensProofs

walletVarsBar == <<Running, asked, upload, OpenReview, HostReply, LateReply>>

-----------------------------------------------------------------------------
(* What a decision finds that comes after its host gave up: the path and   *)
(* the chunks handed over last, which are all that handlers put into the   *)
(* context while the page is up, and a reply kept since the last command is*)
(* one that a callback gave.                                               *)
PageInv ==
  Running /\ screen \in Reviews =>
    /\ ctx.path = asked
    /\ ctx.raw_tx \in {<<>>, upload}
    /\ ctx.pk \in {asked, NoPath}
    /\ async => io = "WAITING"

KeptInv ==
  Running /\ Io = "READY" => kept.sw # "none" /\ ~kept.stale

(* The union of the context holds a transaction or a key.                  *)
UnionInv ==
  IF ctx.req_type = "CONFIRM_TRANSACTION" THEN ctx.pk = NoPath ELSE ctx.raw_tx = <<>>

LateInv == PageInv /\ KeptInv /\ UnionInv

(* A command that is answered leaves the page up, with a new context under *)
(* it or the old one with one chunk more.                                  *)
LEMMA AnswerKeepsPage ==
  ASSUME LateInv, Running, NEW r, Answer(r) \/ Transmit(r), UNCHANGED screen, UnionInv',
         ctx'.path = asked', ctx'.pk \in {asked', NoPath}, ctx'.raw_tx \in {<<>>, upload'}
  PROVE  LateInv'
<1>1. Running' => async' = FALSE /\ io' = "RECEIVED"
  BY DEF Answer, Transmit, Running
<1> QED
  BY <1>1 DEF LateInv, PageInv, KeptInv, Io

LEMMA SameContextKeepsPage ==
  ASSUME LateInv, Running, NEW r, Answer(r) \/ Transmit(r),
         UNCHANGED <<ctx, screen, asked, upload>>
  PROVE  LateInv'
<1>1. Running' => async' = FALSE /\ io' = "RECEIVED"
  BY DEF Answer, Transmit, Running
<1> QED
  BY <1>1 DEF LateInv, PageInv, KeptInv, UnionInv, Io

LEMMA DisplayOpensPage ==
  ASSUME Running, NEW review, Display(review), Io \in {"RECEIVED", "READY"}, UnionInv',
         ctx'.path = asked', ctx'.pk \in {asked', NoPath}, ctx'.raw_tx \in {<<>>, upload'}
  PROVE  LateInv'
<1>1. \/ async' = TRUE /\ io' = "WAITING"
      \/ async' = FALSE /\ io' = "RECEIVED"
  BY DEF Display, Defer, Transmit
<1> QED
  BY <1>1 DEF LateInv, PageInv, KeptInv, Io

(* A review is left by the callback that replies for it.                   *)
LEMMA CallbackLeavesPage ==
  ASSUME LateInv, NEW r, CallbackReply(r), screen' \notin Reviews, UnionInv',
         r.sw # "none", ~r.stale, Running, TypeOK, LoopInv
  PROVE  LateInv'
<1>1. CASE io = "WAITING"
  <2>1. async /\ async'
    BY <1>1 DEF CallbackReply, LoopInv, Running, TypeOK
  <2> QED
    BY <2>1 DEF LateInv, PageInv, KeptInv, Io
<1>2. CASE io # "WAITING"
  BY <1>2 DEF CallbackReply, LateInv, PageInv, KeptInv
<1> QED
  BY <1>1, <1>2

(* A page turned without a reply.                                          *)
LEMMA PageTurnedLate ==
  ASSUME LateInv, Touches, NoReplySent, UnionInv', screen' \in Reviews => screen \in Reviews /\ UNCHANGED ctx
  PROVE  LateInv'
BY DEF LateInv, PageInv, KeptInv, Io, Touches, NoReplySent, histVars, Running

LEMMA ResetLate ==
  /\ Init => LateInv
  /\ Reset => LateInv'
<1>1. "menu" \notin Reviews
  BY DEF Reviews, AddressReviews, TransactionReviews
<1> QED
  BY <1>1 DEF Init, Reset, Transmit, LateInv, PageInv, KeptInv, UnionInv, Io, Running, ZeroContext

(* The data of the handlers that open a request.                           *)
LEMMA RequestFields ==
  \A req_type, path : /\ RequestContext(req_type, path).path = path
                      /\ RequestContext(req_type, path).pk = NoPath
                      /\ RequestContext(req_type, path).raw_tx = <<>>
BY DEF RequestContext, ZeroContext

LEMMA ReceivePreservesLate ==
  ASSUME TypeInv, SafeInv, LateInv, NEW c \in Commands, Handle(c)
  PROVE  LateInv'
<1> USE DEF histVars, NoDisplay
<1>0. TypeOK
  BY DEF TypeInv
<1>1. Receives(c)
  BY DEF Handle, ReceiveRefused, GetInformation, GetPublicKey, SignTxStart, SignTxRefuse,
         SignTxMore, SignTxParsingFails, SignTxReview, StoreChunk, Accepts
<1>2. Running /\ Io \in {"RECEIVED", "READY"}
  BY <1>1, IoOnCommand DEF Receives, Running, SafeInv
<1>3. CASE ReceiveRefused(c) \/ GetInformation(c) \/ SignTxRefuse(c)
  <2>1. (\E r : Answer(r)) /\ UNCHANGED <<ctx, screen, asked, upload>>
    BY <1>3 DEF ReceiveRefused, GetInformation, SignTxRefuse
  <2> QED
    BY <1>2, <2>1, SameContextKeepsPage
<1>4. CASE GetPublicKey(c)
  <2>1. asked' = c.data
    BY <1>4 DEF GetPublicKey
  <2>2. /\ ctx'.path = c.data /\ ctx'.pk \in {c.data, NoPath} /\ ctx'.raw_tx = <<>>
        /\ UnionInv'
    BY <1>4 DEF GetPublicKey, RequestContext, ZeroContext, UnionInv
  <2>3. \/ (\E r : Answer(r)) /\ UNCHANGED screen
        \/ Display("address")
    BY <1>4 DEF GetPublicKey, DisplayAddress
  <2>4. CASE (\E r : Answer(r)) /\ UNCHANGED screen
    BY <1>2, <2>1, <2>2, <2>4, AnswerKeepsPage
  <2>5. CASE Display("address")
    BY <1>2, <2>1, <2>2, <2>5, DisplayOpensPage
  <2> QED
    BY <2>3, <2>4, <2>5
<1>5. CASE SignTxStart(c)
  <2>1. /\ asked' = c.data /\ UNCHANGED screen /\ \E r : Answer(r)
        /\ ctx'.path = c.data /\ ctx'.pk = NoPath /\ ctx'.raw_tx = <<>>
    BY <1>5, RequestFields DEF SignTxStart
  <2>2. UnionInv'
    BY <2>1 DEF UnionInv
  <2> QED
    BY <1>2, <2>1, <2>2, AnswerKeepsPage
<1>6. CASE SignTxMore(c) \/ SignTxParsingFails(c) \/ SignTxReview(c)
  <2>1. StoreChunk(c) /\ ctx.req_type = "CONFIRM_TRANSACTION"
    BY <1>6 DEF SignTxMore, SignTxParsingFails, SignTxReview, StoreChunk
  <2>2. /\ Stored(c).raw_tx = upload' /\ Stored(c).path = asked' /\ Stored(c).pk = ctx.pk
        /\ [Stored(c) EXCEPT !.state = "STATE_PARSED"].raw_tx = upload'
        /\ [Stored(c) EXCEPT !.state = "STATE_PARSED"].path = asked'
        /\ [Stored(c) EXCEPT !.state = "STATE_PARSED"].pk = ctx.pk
    BY <1>0, <2>1 DEF StoreChunk, Stored, SafeInv, UploadIntegrity, TypeOK, ContextType
  <2>3. ctx'.raw_tx = upload' /\ ctx'.path = asked' /\ ctx'.pk = ctx.pk
    BY <1>6, <2>2 DEF SignTxMore, SignTxParsingFails, SignTxReview
  <2>4. ctx.pk = NoPath /\ UnionInv'
    <3>1. ctx.pk = NoPath
      BY <2>1 DEF LateInv, UnionInv
    <3>2. ctx'.req_type = "CONFIRM_TRANSACTION"
      BY <1>0, <1>6, <2>1 DEF SignTxMore, SignTxParsingFails, SignTxReview, Stored, TypeOK,
         ContextType
    <3> QED
      BY <2>3, <3>1, <3>2 DEF UnionInv
  <2>5. CASE SignTxReview(c)
    <3>1. PICK review : Display(review)
      BY <2>5 DEF SignTxReview
    <3> QED
      BY <1>2, <2>3, <2>4, <3>1, DisplayOpensPage
  <2>6. CASE SignTxMore(c) \/ SignTxParsingFails(c)
    <3>1. (\E r : Answer(r)) /\ UNCHANGED screen
      BY <2>6 DEF SignTxMore, SignTxParsingFails
    <3> QED
      BY <1>2, <2>3, <2>4, <3>1, AnswerKeepsPage
  <2> QED
    BY <1>6, <2>5, <2>6
<1> QED
  BY <1>3, <1>4, <1>5, <1>6 DEF Handle

LEMMA TouchPreservesLate ==
  ASSUME TypeInv, SafeInv, LateInv, Touch
  PROVE  LateInv'
<1>0. TypeOK /\ LoopInv /\ ctx \in ContextType
  BY DEF TypeInv, SafeInv, TypeOK
<1>1. MenuScreens \cap Reviews = {} /\ StatusPages \cap Reviews = {}
  BY DEF MenuScreens, StatusPages, Reviews, AddressReviews, TransactionReviews
<1>2. UNCHANGED ctx => UnionInv'
  BY DEF LateInv, UnionInv
<1>3. CASE OpenAbout \/ BackToMenu
  <2>1. Touches /\ NoReplySent /\ UNCHANGED ctx /\ screen' \in MenuScreens
    BY <1>3 DEF OpenAbout, BackToMenu, Browse, MenuScreens
  <2> QED
    BY <1>1, <1>2, <2>1, PageTurnedLate
<1>4. CASE ShowMenuAddress
  <2>1. Touches /\ NoReplySent /\ screen' \in MenuScreens
    BY <1>4 DEF ShowMenuAddress, MenuScreens
  <2>2. ctx'.req_type = "CONFIRM_ADDRESS" /\ ctx'.raw_tx = <<>>
    BY <1>4 DEF ShowMenuAddress, RequestContext, ZeroContext
  <2> QED
    BY <1>1, <2>1, <2>2, PageTurnedLate DEF UnionInv
<1>5. CASE ContinueReview \/ AskRejection \/ GoBackToTransaction
  <2>1. Touches /\ NoReplySent /\ UNCHANGED ctx /\ (screen' \in Reviews => screen \in Reviews)
    BY <1>5 DEF ContinueReview, AskRejection, GoBackToTransaction, Browse, Reviews,
                AddressReviews, TransactionReviews
  <2> QED
    BY <1>2, <2>1, PageTurnedLate
<1>6. CASE Quit
  BY <1>6, ResetLate DEF Quit, Stop
<1>7. ASSUME NEW r, CallbackReply(r), r.sw # "none", ~r.stale, Touches, UnionInv',
             NEW status \in StatusPages, Leave(status)
      PROVE  LateInv'
  <2>1. screen' \notin Reviews
    BY <1>1, <1>7 DEF Leave, MenuScreens
  <2> QED
    BY <1>0, <1>7, <2>1, CallbackLeavesPage DEF Touches, Running
<1>8. /\ \A sw \in Statuses : Status(sw).sw # "none" /\ ~Status(sw).stale
      /\ \A path, raw : KeyBytes(path, raw).sw # "none" /\ ~KeyBytes(path, raw).stale
      /\ \A path, raw : Signature(path, raw).sw # "none" /\ ~Signature(path, raw).stale
  BY DEF Statuses, Status, KeyBytes, Signature
<1>9. CASE ApproveAddress
  BY <1>2, <1>7, <1>8, <1>9 DEF ApproveAddress, StatusPages
<1>10. CASE RejectAddress
  BY <1>2, <1>7, <1>8, <1>10 DEF RejectAddress, StatusPages, Statuses
<1>11. CASE ApproveTransaction \/ RejectTransaction
  <2>1. PICK state : ctx' = [ctx EXCEPT !.state = state]
    BY <1>11 DEF ApproveTransaction, RejectTransaction
  <2>2. ctx'.req_type = ctx.req_type /\ ctx'.pk = ctx.pk /\ ctx'.raw_tx = ctx.raw_tx
    BY <1>0, <2>1 DEF ContextType
  <2>3. UnionInv'
    BY <2>2 DEF LateInv, UnionInv
  <2>4. Touches /\ \E status \in StatusPages : Leave(status)
    BY <1>11 DEF ApproveTransaction, RejectTransaction, StatusPages
  <2>5. \/ \E sw \in Statuses : CallbackReply(Status(sw))
        \/ CallbackReply(Signature(ctx.path, ctx.raw_tx))
    BY <1>11 DEF ApproveTransaction, RejectTransaction, Statuses
  <2> QED
    BY <1>7, <1>8, <2>3, <2>4, <2>5
<1> QED
  BY <1>3, <1>4, <1>5, <1>6, <1>9, <1>10, <1>11 DEF Touch, Decide

LEMMA NextPreservesLate == TypeInv /\ SafeInv /\ LateInv /\ [Next]_vars => LateInv'
<1> SUFFICES ASSUME TypeInv, SafeInv, LateInv, [Next]_vars
             PROVE  LateInv'
  OBVIOUS
<1>1. CASE Start \/ PowerLoss
  BY <1>1, ResetLate DEF Start, PowerLoss, Stop
<1>2. CASE ReceiveMalformed
  <2>1. /\ Running /\ UNCHANGED <<ctx, screen, asked, upload>>
        /\ Transmit(Status("SW_WRONG_DATA_LENGTH"))
    BY <1>2 DEF ReceiveMalformed, Receives, Running, histVars
  <2> QED
    BY <2>1, SameContextKeepsPage
<1>3. CASE \E c \in Commands : Handle(c)
  BY <1>3, ReceivePreservesLate
<1>4. CASE Touch
  BY <1>4, TouchPreservesLate
<1>5. CASE UNCHANGED vars
  BY <1>5 DEF vars, LateInv, PageInv, KeptInv, UnionInv, Io, Running
<1> QED
  BY <1>1, <1>2, <1>3, <1>4, <1>5 DEF Next, Receive

-----------------------------------------------------------------------------
(* What Wallet sees of each kind of reply.                                 *)
LEMMA MappedReplies ==
  /\ WalletReply(NoReply) = W!Silence
  /\ \A sw \in Statuses : WalletReply(Status(sw)) = W!Plain
  /\ \A status : WalletReply(ParsingFailure(status)) = W!Plain
  /\ \A raw, len : WalletReply(Echo(raw, len)) = W!Plain
  /\ \A path, raw : WalletReply(KeyBytes(path, raw)) = W!Reply("pubkey", path, raw)
  /\ \A path : WalletReply(Pubkey(path)) = W!Key(path)
  /\ \A path, raw : WalletReply(Signature(path, raw)) = W!Signed(path, raw)
<1>1. \A sw \in Statuses : WalletReply(Status(sw)) = W!Plain
  <2>1. "none" \notin Statuses
    BY DEF Statuses
  <2> QED
    BY <2>1 DEF WalletReply, Status, W!Plain, W!Reply
<1>2. \A status : WalletReply(ParsingFailure(status)) = W!Plain
  BY DEF WalletReply, ParsingFailure, Status, W!Plain, W!Reply
<1>3. \A raw, len : WalletReply(Echo(raw, len)) = W!Plain
  BY DEF WalletReply, Echo, Status, W!Plain, W!Reply
<1>4. WalletReply(NoReply) = W!Silence
  BY DEF WalletReply, NoReply, Status, W!Silence, W!Reply
<1>5. \A path, raw : WalletReply(KeyBytes(path, raw)) = W!Reply("pubkey", path, raw)
  BY DEF WalletReply, KeyBytes, Status, W!Reply
<1>6. \A path : WalletReply(Pubkey(path)) = W!Key(path)
  BY <1>5 DEF Pubkey, W!Key
<1>7. \A path, raw : WalletReply(Signature(path, raw)) = W!Signed(path, raw)
  BY DEF WalletReply, Signature, Status, W!Signed, W!Reply
<1> QED
  BY <1>1, <1>2, <1>3, <1>4, <1>5, <1>6, <1>7

(* A reply kept for later is an outcome, and goes out as a leftover.       *)
LEMMA MappedLeftover ==
  ASSUME NEW r \in ReplyType, r.sw # "none", ~r.stale
  PROVE  /\ WalletReply(r) # W!Silence
         /\ WalletReply(Leftover(r)) = W!Leftover(WalletReply(r))
<1>1. r = [sw |-> r.sw, kind |-> r.kind, stale |-> r.stale, path |-> r.path,
           raw |-> r.raw, code |-> r.code] /\ r.stale = FALSE
  BY DEF ReplyType
<1>2. Leftover(r).kind = r.kind /\ Leftover(r).stale = TRUE
      /\ Leftover(r).path = r.path /\ Leftover(r).raw = r.raw
  BY <1>1 DEF Leftover
<1>3. CASE r.kind \in {"pubkey", "signature"}
  <2>1. WalletReply(r) = [kind |-> r.kind, path |-> r.path, raw |-> r.raw, stale |-> r.stale]
    BY <1>3 DEF WalletReply
  <2>3. WalletReply(Leftover(r)) =
          [kind |-> r.kind, path |-> r.path, raw |-> r.raw, stale |-> TRUE]
    BY <1>2, <1>3 DEF WalletReply
  <2>2. WalletReply(r) # W!Silence
    BY <1>3, <2>1 DEF W!Silence, W!Reply
  <2> QED
    BY <2>1, <2>2, <2>3 DEF W!Leftover
<1>4. CASE r.kind \notin {"pubkey", "signature"}
  <2>1. WalletReply(r) = [kind |-> "status", path |-> NoPath, raw |-> <<>>, stale |-> r.stale]
    BY <1>4 DEF WalletReply
  <2>3. WalletReply(Leftover(r)) =
          [kind |-> "status", path |-> NoPath, raw |-> <<>>, stale |-> TRUE]
    BY <1>2, <1>4 DEF WalletReply
  <2>2. WalletReply(r) # W!Silence
    BY <2>1 DEF W!Silence, W!Reply
  <2> QED
    BY <2>1, <2>2, <2>3 DEF W!Leftover
<1> QED
  BY <1>3, <1>4

-----------------------------------------------------------------------------
(* What Wallet sees of the page: the review on the display, or none.       *)
LEMMA MappedPage ==
  /\ ~(Running /\ screen \in Reviews) => OpenReview = W!NoReview
  /\ Running /\ screen \in Reviews => OpenReview = ReviewOnDisplay /\ OpenReview # W!NoReview
  /\ OpenReview.awaited <=> Running /\ screen \in Reviews /\ awaiting
  /\ ~(Running' /\ screen' \in Reviews) => OpenReview' = W!NoReview
  /\ Running' /\ screen' \in Reviews => OpenReview' = ReviewOnDisplay'
BY DEF OpenReview, ReviewOnDisplay, W!NoReview

(* What Wallet sees of the reply that is kept.                             *)
LEMMA MappedLate ==
  ASSUME TypeOK, LateInv
  PROVE  /\ Running /\ Io = "READY" =>
              /\ LateReply = WalletReply(kept) /\ LateReply # W!Silence
              /\ WalletReply(Leftover(kept)) = W!Leftover(LateReply)
         /\ ~(Running /\ Io = "READY") => LateReply = W!Silence
         /\ ~(Running' /\ Io' = "READY") => LateReply' = W!Silence
<1>1. Running /\ Io = "READY" => kept \in ReplyType /\ kept.sw # "none" /\ ~kept.stale
  BY DEF TypeOK, LateInv, KeptInv
<1>2. Running /\ Io = "READY" => LateReply = WalletReply(kept)
  BY DEF LateReply
<1>3. /\ ~(Running /\ Io = "READY") => LateReply = W!Silence
      /\ ~(Running' /\ Io' = "READY") => LateReply' = W!Silence
  <2>1. WalletReply(NoReply) = W!Silence
    BY MappedReplies
  <2> QED
    BY <2>1 DEF LateReply
<1> QED
  BY <1>1, <1>2, <1>3, MappedLeftover

(* A page that stays up when a command is answered is awaited no more.     *)
LEMMA PageGivenUp ==
  ASSUME Running, Running', UNCHANGED <<screen, shown>>, ~awaiting', awaiting' \in BOOLEAN
  PROVE  OpenReview' = [of |-> OpenReview.of, path |-> OpenReview.path,
                        raw |-> OpenReview.raw, awaited |-> FALSE]
<1>1. awaiting' = FALSE
  OBVIOUS
<1>2. CASE screen \notin Reviews
  BY <1>2 DEF OpenReview
<1>3. CASE screen \in Reviews /\ screen \in TransactionReviews
  BY <1>1, <1>3 DEF OpenReview, ReviewOnDisplay
<1>4. CASE screen \in Reviews /\ screen \notin TransactionReviews
  BY <1>1, <1>4 DEF OpenReview, ReviewOnDisplay
<1> QED
  BY <1>2, <1>3, <1>4

(* A handler that answers, that displays a review, a callback that replies.*)
LEMMA AnswerMaps ==
  ASSUME TypeOK, LoopInv, LateInv, Running, HostWaits => ~awaiting,
         NEW r, Answer(r), UNCHANGED <<screen, shown>>
  PROVE  W!Answered(WalletReply(r)) \/ W!Abandons
<1>1. CASE Io = "RECEIVED"
  <2>1. /\ Running' /\ UNCHANGED Running /\ sent' = r /\ awaiting' = FALSE
        /\ async' = FALSE /\ io' = "RECEIVED"
    BY <1>1 DEF Answer, Transmit, Running
  <2>2. OpenReview' = [of |-> OpenReview.of, path |-> OpenReview.path,
                       raw |-> OpenReview.raw, awaited |-> FALSE]
    BY <2>1, PageGivenUp
  <2>3. LateReply' = W!Silence
    BY <2>1, MappedLate DEF Io
  <2>4. HostReply' = WalletReply(r)
    BY <2>1 DEF HostReply
  <2> QED
    BY <2>1, <2>2, <2>3, <2>4 DEF W!Answered
<1>2. CASE Io = "READY"
  <2>1. ~Running' /\ sent' = NoReply
    BY <1>2 DEF Answer, Running
  <2>2. LateReply # W!Silence /\ LateReply' = W!Silence
    BY <1>2, <2>1, MappedLate
  <2>3. OpenReview' = W!NoReview /\ HostReply' = W!Silence
    BY <2>1, MappedPage, MappedReplies DEF HostReply
  <2>4. Running' = FALSE
    BY <2>1 DEF Running
  <2> QED
    BY <2>2, <2>3, <2>4 DEF W!Abandons
<1> QED
  BY <1>1, <1>2, IoOnCommand DEF Running

LEMMA DisplayMaps ==
  ASSUME TypeOK, LoopInv, LateInv, Running, HostWaits => ~awaiting,
         NEW review \in Reviews, Display(review)
  PROVE  /\ review \in TransactionReviews =>
              W!UnderReview("transaction", ctx'.path, ctx'.raw_tx)
         /\ review \notin TransactionReviews =>
              W!UnderReview("address", ctx'.pk, <<>>)
<1>1. UNCHANGED Running /\ Running' /\ screen' = review
      /\ shown' = [path |-> ctx'.path, pk |-> ctx'.pk, raw |-> ctx'.raw_tx]
  BY DEF Display, Defer, Running
<1>2. /\ awaiting' = (LateReply = W!Silence)
      /\ HostReply' = W!Leftover(LateReply)
      /\ LateReply' = W!Silence
  <2>1. CASE Io = "RECEIVED"
    <3>1. awaiting' = TRUE /\ sent' = NoReply /\ async' = TRUE
      BY <2>1 DEF Display, Defer, Transmit
    <3>2. LateReply = W!Silence /\ LateReply' = W!Silence
      BY <2>1, <3>1, MappedLate DEF Io
    <3>3. HostReply' = W!Silence
      BY <3>1, MappedReplies DEF HostReply
    <3> QED
      BY <3>1, <3>2, <3>3 DEF W!Leftover
  <2>2. CASE Io = "READY"
    <3>1. awaiting' = FALSE /\ sent' = Leftover(kept) /\ async' = FALSE /\ io' = "RECEIVED"
      BY <2>2 DEF Display, Defer, Transmit
    <3>2. /\ LateReply # W!Silence /\ LateReply' = W!Silence
          /\ WalletReply(Leftover(kept)) = W!Leftover(LateReply)
      BY <2>2, <3>1, MappedLate DEF Io
    <3>3. HostReply' = W!Leftover(LateReply)
      BY <3>1, <3>2 DEF HostReply
    <3>4. awaiting' = (LateReply = W!Silence)
      BY <3>1, <3>2
    <3> QED
      BY <3>2, <3>3, <3>4
  <2> QED
    BY <2>1, <2>2, IoOnCommand DEF Running
<1>3. OpenReview' = ReviewOnDisplay'
  BY <1>1, MappedPage
<1>4. CASE review \in TransactionReviews
  <2>1. OpenReview' = [of |-> "transaction", path |-> ctx'.path, raw |-> ctx'.raw_tx,
                       awaited |-> LateReply = W!Silence]
    BY <1>1, <1>2, <1>3, <1>4 DEF ReviewOnDisplay
  <2> QED
    BY <1>1, <1>2, <1>4, <2>1 DEF W!UnderReview
<1>5. CASE review \notin TransactionReviews
  <2>1. OpenReview' = [of |-> "address", path |-> ctx'.pk, raw |-> <<>>,
                       awaited |-> LateReply = W!Silence]
    BY <1>1, <1>2, <1>3, <1>5 DEF ReviewOnDisplay
  <2> QED
    BY <1>1, <1>2, <1>5, <2>1 DEF W!UnderReview
<1> QED
  BY <1>4, <1>5

LEMMA CallbackMaps ==
  ASSUME TypeOK, SafeInv, LateInv, Touches, screen \in Reviews, NEW r, CallbackReply(r),
         NEW status \in StatusPages, Leave(status)
  PROVE  /\ W!Closes
         /\ awaiting => HostReply' = WalletReply(r) /\ UNCHANGED LateReply
         /\ ~awaiting => UNCHANGED HostReply /\ LateReply' = WalletReply(r)
<1>1. Running /\ Running' /\ UNCHANGED <<Running, asked, upload>> /\ io' = "READY" /\ async' = async
  BY DEF CallbackReply, Touches, Running, histVars
<1>2. screen' \notin Reviews
  BY DEF Leave, StatusPages, Reviews, AddressReviews, TransactionReviews
<1>3. W!Closes
  BY <1>1, <1>2, MappedPage DEF W!Closes
<1>4. CASE awaiting
  <2>1. io = "WAITING" /\ async = TRUE
    BY <1>1, <1>4 DEF SafeInv, LoopInv, Running, TypeOK
  <2>2. LateReply = W!Silence /\ LateReply' = W!Silence
    BY <1>1, <2>1, MappedLate DEF Io
  <2>3. HostReply' = WalletReply(r)
    BY <2>1 DEF CallbackReply, HostReply
  <2> QED
    BY <1>3, <1>4, <2>2, <2>3
<1>5. CASE ~awaiting
  <2>1. io # "WAITING" /\ async = FALSE
    BY <1>1, <1>5 DEF SafeInv, LoopInv, Running, TypeOK, LateInv, PageInv
  <2>2. kept' = r /\ sent' = sent
    BY <2>1 DEF CallbackReply
  <2>3. LateReply' = WalletReply(r) /\ UNCHANGED HostReply
    BY <1>1, <2>1, <2>2 DEF LateReply, Io, HostReply
  <2> QED
    BY <1>3, <1>5, <2>3
<1> QED
  BY <1>4, <1>5

-----------------------------------------------------------------------------
(* Commands.                                                               *)
LEMMA CommandMaps ==
  ASSUME TypeInv, SafeInv, LateInv, NEW c \in Commands, Handle(c)
  PROVE  W!Next
<1> USE DEF histVars, NoDisplay
<1>0. TypeOK /\ LoopInv
  BY DEF TypeInv, SafeInv
<1>1. Receives(c)
  BY DEF Handle, ReceiveRefused, GetInformation, GetPublicKey, SignTxStart, SignTxRefuse,
         SignTxMore, SignTxParsingFails, SignTxReview, StoreChunk, Accepts
<1>2. Running /\ (HostWaits => ~awaiting)
  BY <1>1 DEF Receives, Running
<1>3. W!Serves
  BY <1>2, MappedPage DEF W!Serves
<1>4. ASSUME NEW sw \in Statuses, Answer(Status(sw)), UNCHANGED <<screen, shown>>
      PROVE  W!Answered(W!Plain) \/ W!Abandons
  <2>1. W!Answered(WalletReply(Status(sw))) \/ W!Abandons
    BY <1>0, <1>2, <1>4, AnswerMaps
  <2>2. WalletReply(Status(sw)) = W!Plain
    BY MappedReplies
  <2> QED
    BY <2>1, <2>2
<1>5. CASE ReceiveRefused(c)
  <2>1. Refusal(c) \in Statuses
    BY <1>5 DEF ReceiveRefused, Refusal, Statuses
  <2> QED
    BY <1>3, <1>4, <1>5, <2>1 DEF ReceiveRefused, W!Next, W!Inform
<1>6. CASE GetInformation(c)
  <2>1. "SW_OK" \in Statuses
    BY DEF Statuses
  <2> QED
    BY <1>3, <1>4, <1>6, <2>1 DEF GetInformation, W!Next, W!Inform
<1>7. CASE GetPublicKey(c)
  <2>1. c.data \in Paths \cup BadPaths /\ asked' = c.data /\ upload' = upload
    BY <1>7, DataTyped DEF GetPublicKey, PathPayloads
  <2>2. \/ W!Answered(W!Plain) \/ W!Abandons
        \/ c.data \in Paths /\ (W!Answered(W!Key(c.data)) \/ W!UnderReview("address", c.data, <<>>))
    <3>1. {"SW_WRONG_DATA_LENGTH", "SW_DENY", "SW_DISPLAY_ADDRESS_FAIL",
           "SW_DISPLAY_BIP32_PATH_FAIL"} \subseteq Statuses
      BY DEF Statuses
    <3>2. CASE (\E sw \in Statuses : Answer(Status(sw))) /\ NoDisplay
      BY <1>4, <3>2
    <3>3. CASE c.data \in Paths /\ ctx'.pk = c.data /\ Answer(Pubkey(ctx'.pk)) /\ NoDisplay
      <4>1. W!Answered(WalletReply(Pubkey(c.data))) \/ W!Abandons
        BY <1>0, <1>2, <3>3, AnswerMaps
      <4>2. WalletReply(Pubkey(c.data)) = W!Key(c.data)
        BY MappedReplies
      <4> QED
        BY <3>3, <4>1, <4>2
    <3>4. CASE c.data \in Paths /\ ctx'.pk = c.data /\ Display("address")
      <4>1. "address" \in Reviews /\ "address" \notin TransactionReviews
        BY DEF Reviews, AddressReviews, TransactionReviews
      <4> QED
        BY <1>0, <1>2, <3>4, <4>1, DisplayMaps
    <3>5. ctx' = [RequestContext("CONFIRM_ADDRESS", c.data) EXCEPT !.pk = c.data] => ctx'.pk = c.data
      BY DEF RequestContext, ZeroContext
    <3> QED
      BY <1>7, <3>1, <3>2, <3>3, <3>4, <3>5 DEF GetPublicKey, DisplayAddress
  <2> QED
    BY <1>3, <2>1, <2>2 DEF W!Next, W!AskKey
<1>8. CASE SignTxStart(c)
  <2>1. c.data \in Paths \cup BadPaths
    BY <1>8, DataTyped DEF SignTxStart, PathPayloads
  <2>2. {"SW_OK", "SW_WRONG_DATA_LENGTH"} \subseteq Statuses
    BY DEF Statuses
  <2> QED
    BY <1>3, <1>4, <1>8, <2>1, <2>2 DEF SignTxStart, W!Next, W!BeginUpload
<1>9. CASE SignTxRefuse(c)
  <2>1. {"SW_BAD_STATE", "SW_WRONG_TX_LENGTH"} \subseteq Statuses
    BY DEF Statuses
  <2> QED
    BY <1>3, <1>4, <1>9, <2>1 DEF SignTxRefuse, W!Next, W!Inform
<1>10. ASSUME StoreChunk(c), ctx'.raw_tx = Stored(c).raw_tx, ctx'.path = Stored(c).path
       PROVE  /\ c.data \in Chunks
              /\ upload' = Append(upload, c.data) /\ asked' = asked
              /\ ctx'.raw_tx = upload' /\ ctx'.path = asked
  <2>1. c.data \in Chunks
    BY <1>10, DataTyped DEF StoreChunk
  <2> QED
    BY <1>0, <1>10, <2>1 DEF StoreChunk, Stored, SafeInv, UploadIntegrity, TypeOK, ContextType
<1>11. CASE SignTxMore(c)
  <2>1. W!Answered(W!Plain) \/ W!Abandons
    <3>1. PICK raw, len : Answer(Echo(raw, len))
      BY <1>11 DEF SignTxMore
    <3>2. W!Answered(WalletReply(Echo(raw, len))) \/ W!Abandons
      BY <1>0, <1>2, <1>11, <3>1, AnswerMaps DEF SignTxMore
    <3>3. WalletReply(Echo(raw, len)) = W!Plain
      BY MappedReplies
    <3> QED
      BY <3>2, <3>3
  <2> QED
    BY <1>3, <1>10, <1>11, <2>1 DEF SignTxMore, W!Next, W!AddChunk
<1>12. CASE SignTxParsingFails(c)
  <2>1. W!Answered(W!Plain) \/ W!Abandons
    <3>1. PICK status : Answer(ParsingFailure(status))
      BY <1>12 DEF SignTxParsingFails
    <3>2. W!Answered(WalletReply(ParsingFailure(status))) \/ W!Abandons
      BY <1>0, <1>2, <1>12, <3>1, AnswerMaps DEF SignTxParsingFails
    <3>3. WalletReply(ParsingFailure(status)) = W!Plain
      BY MappedReplies
    <3> QED
      BY <3>2, <3>3
  <2> QED
    BY <1>3, <1>10, <1>12, <2>1 DEF SignTxParsingFails, W!Next, W!AddChunk
<1>13. CASE SignTxReview(c)
  <2>1. ctx'.raw_tx = Stored(c).raw_tx /\ ctx'.path = Stored(c).path
    BY <1>0, <1>13 DEF SignTxReview, Stored, TypeOK, ContextType
  <2>2. /\ c.data \in Chunks
        /\ upload' = Append(upload, c.data) /\ asked' = asked
        /\ ctx'.raw_tx = upload' /\ ctx'.path = asked
    BY <1>10, <1>13, <2>1 DEF SignTxReview
  <2>3. PICK review \in {"custom", "transaction"} : Display(review)
    BY <1>13 DEF SignTxReview
  <2>4. review \in Reviews /\ review \in TransactionReviews
    BY DEF Reviews, TransactionReviews
  <2>5. W!UnderReview("transaction", asked, upload')
    BY <1>0, <1>2, <2>2, <2>3, <2>4, DisplayMaps
  <2> QED
    BY <1>3, <2>2, <2>5 DEF W!Next, W!AddChunk
<1> QED
  BY <1>5, <1>6, <1>7, <1>8, <1>9, <1>11, <1>12, <1>13 DEF Handle

-----------------------------------------------------------------------------
(* Touches.  Nothing but a decision is seen by Wallet.                     *)
LEMMA QuietTouchMaps ==
  ASSUME Touches, NoReplySent, screen \in Reviews <=> screen' \in Reviews,
         screen \in TransactionReviews <=> screen' \in TransactionReviews
  PROVE  UNCHANGED walletVarsBar
<1>1. UNCHANGED <<asked, upload, Running, HostReply, LateReply>>
  BY DEF Touches, NoReplySent, histVars, Running, HostReply, LateReply, Io
<1>2. UNCHANGED OpenReview
  BY DEF Touches, NoReplySent, histVars, Running, OpenReview, ReviewOnDisplay
<1> QED
  BY <1>1, <1>2 DEF walletVarsBar

LEMMA DecisionMaps ==
  ASSUME TypeOK, SafeInv, LateInv, Touches, screen \in Reviews, NEW r, CallbackReply(r),
         NEW status \in StatusPages, Leave(status),
         \/ WalletReply(r) = W!Plain
         \/ /\ screen \in AddressReviews
            /\ WalletReply(r) = W!Reply("pubkey", ctx.pk, ctx.raw_tx)
         \/ /\ screen \in TransactionReviews
            /\ WalletReply(r) = W!Signed(ctx.path, ctx.raw_tx)
  PROVE  W!Decided \/ W!DecidedLate
<1>0. /\ W!Closes
      /\ awaiting => HostReply' = WalletReply(r) /\ UNCHANGED LateReply
      /\ ~awaiting => UNCHANGED HostReply /\ LateReply' = WalletReply(r)
  BY CallbackMaps
<1>1. /\ Running /\ OpenReview = ReviewOnDisplay /\ OpenReview # W!NoReview
      /\ OpenReview.awaited <=> awaiting
      /\ OpenReview.of = IF screen \in TransactionReviews THEN "transaction" ELSE "address"
  <2>1. Running
    BY DEF Touches, Running
  <2> QED
    BY <2>1, MappedPage DEF ReviewOnDisplay
<1>2. screen \in AddressReviews => screen \notin TransactionReviews
  BY DEF AddressReviews, TransactionReviews
<1>3. CASE awaiting
  <2>1. /\ ContextShown
        /\ screen \in AddressReviews => ctx.raw_tx = <<>>
    BY <1>1, <1>3 DEF SafeInv, LoopInv, ReviewInv, Running
  <2>2. /\ screen \in TransactionReviews =>
             OpenReview.path = ctx.path /\ OpenReview.raw = ctx.raw_tx
        /\ screen \in AddressReviews => OpenReview.path = ctx.pk
    BY <1>1, <1>2, <2>1 DEF ReviewOnDisplay, ContextShown
  <2>3. HostReply' \in {W!Plain, IF OpenReview.of = "address" THEN W!Key(OpenReview.path)
                                 ELSE W!Signed(OpenReview.path, OpenReview.raw)}
    <3>1. CASE WalletReply(r) = W!Plain
      BY <1>0, <1>3, <3>1
    <3>2. CASE /\ screen \in AddressReviews
               /\ WalletReply(r) = W!Reply("pubkey", ctx.pk, ctx.raw_tx)
      <4>1. WalletReply(r) = W!Key(OpenReview.path)
        BY <2>1, <2>2, <3>2 DEF W!Key
      <4> QED
        BY <1>0, <1>1, <1>2, <1>3, <3>2, <4>1
    <3>3. CASE /\ screen \in TransactionReviews
               /\ WalletReply(r) = W!Signed(ctx.path, ctx.raw_tx)
      <4>1. WalletReply(r) = W!Signed(OpenReview.path, OpenReview.raw)
        BY <2>2, <3>3
      <4> QED
        BY <1>0, <1>1, <1>3, <3>3, <4>1
    <3> QED
      BY <3>1, <3>2, <3>3
  <2> QED
    BY <1>0, <1>1, <1>3, <2>3 DEF W!Decided
<1>4. CASE ~awaiting
  <2>1. /\ ctx.path = asked /\ ctx.pk \in {asked, NoPath} /\ ctx.raw_tx \in {<<>>, upload}
    BY <1>1 DEF LateInv, PageInv
  <2>2. \E path \in {asked, NoPath}, raw \in {<<>>, upload} :
          LateReply' \in {W!Plain, IF OpenReview.of = "address" THEN W!Reply("pubkey", path, raw)
                                                                ELSE W!Signed(asked, raw)}
    <3>1. CASE WalletReply(r) = W!Plain
      BY <1>0, <1>4, <3>1
    <3>2. CASE /\ screen \in AddressReviews
               /\ WalletReply(r) = W!Reply("pubkey", ctx.pk, ctx.raw_tx)
      BY <1>0, <1>1, <1>2, <1>4, <2>1, <3>2
    <3>3. CASE /\ screen \in TransactionReviews
               /\ WalletReply(r) = W!Signed(ctx.path, ctx.raw_tx)
      BY <1>0, <1>1, <1>4, <2>1, <3>3
    <3> QED
      BY <3>1, <3>2, <3>3
  <2> QED
    BY <1>0, <1>1, <1>4, <2>2 DEF W!DecidedLate
<1> QED
  BY <1>3, <1>4

LEMMA ResetMaps ==
  ASSUME Reset, app' \in {"off", "running"}, TypeOK, LateInv
  PROVE  W!Restart
<1>1. Running' \in BOOLEAN
  BY DEF Running
<1>2. screen' \notin Reviews /\ Io' = "RECEIVED" /\ sent' = NoReply
      /\ asked' = NoPath /\ upload' = <<>>
  BY DEF Reset, Transmit, Io, Reviews, AddressReviews, TransactionReviews
<1>3. OpenReview' = W!NoReview
  BY <1>2, MappedPage
<1>4. LateReply' = W!Silence
  BY <1>2, MappedLate
<1>5. HostReply' = W!Silence
  BY <1>2, MappedReplies DEF HostReply
<1> QED
  BY <1>1, <1>2, <1>3, <1>4, <1>5 DEF W!Restart

LEMMA TouchMaps ==
  ASSUME TypeInv, SafeInv, LateInv, Touch
  PROVE  W!Next \/ UNCHANGED walletVarsBar
<1>0. TypeOK
  BY DEF TypeInv
<1>1. MenuScreens \cap Reviews = {} /\ StatusPages \cap Reviews = {}
      /\ TransactionReviews \subseteq Reviews /\ AddressReviews \subseteq Reviews
  BY DEF MenuScreens, StatusPages, Reviews, AddressReviews, TransactionReviews
<1>2. CASE OpenAbout \/ BackToMenu \/ ShowMenuAddress
  <2>1. /\ Touches /\ NoReplySent
        /\ screen \in MenuScreens \cup StatusPages /\ screen' \in MenuScreens
    BY <1>2 DEF OpenAbout, BackToMenu, ShowMenuAddress, Browse, MenuScreens
  <2> QED
    BY <1>1, <2>1, QuietTouchMaps
<1>3. CASE ContinueReview \/ AskRejection \/ GoBackToTransaction
  <2>1. /\ Touches /\ NoReplySent
        /\ screen \in Reviews <=> screen' \in Reviews
        /\ screen \in TransactionReviews <=> screen' \in TransactionReviews
    BY <1>3 DEF ContinueReview, AskRejection, GoBackToTransaction, Browse, Reviews,
                AddressReviews, TransactionReviews
  <2> QED
    BY <2>1, QuietTouchMaps
<1>4. CASE Quit
  BY <1>0, <1>4, ResetMaps DEF Quit, Stop, W!Next
<1>5. {"SW_DENY", "SW_SIGNATURE_FAIL"} \subseteq Statuses
  BY DEF Statuses
<1>6. {"address_verified", "address_cancelled", "transaction_signed", "transaction_rejected"}
        \subseteq StatusPages
  BY DEF StatusPages
<1>7. CASE ApproveAddress
  <2>1. /\ Touches /\ screen \in AddressReviews /\ Leave("address_verified")
        /\ CallbackReply(KeyBytes(ctx.pk, ctx.raw_tx))
    BY <1>7 DEF ApproveAddress
  <2>2. WalletReply(KeyBytes(ctx.pk, ctx.raw_tx)) = W!Reply("pubkey", ctx.pk, ctx.raw_tx)
    BY MappedReplies
  <2> QED
    BY <1>0, <1>1, <1>6, <2>1, <2>2, DecisionMaps DEF W!Next
<1>8. ASSUME NEW sw \in Statuses, CallbackReply(Status(sw)), Touches, screen \in Reviews,
             NEW status \in StatusPages, Leave(status)
      PROVE  W!Next
  <2>1. WalletReply(Status(sw)) = W!Plain
    BY MappedReplies
  <2> QED
    BY <1>0, <1>8, <2>1, DecisionMaps DEF W!Next
<1>9. CASE RejectAddress
  BY <1>1, <1>5, <1>6, <1>8, <1>9 DEF RejectAddress
<1>10. CASE ApproveTransaction
  <2>1. Touches /\ screen \in TransactionReviews /\ Leave("transaction_signed")
    BY <1>10 DEF ApproveTransaction
  <2>2. CASE CallbackReply(Signature(ctx.path, ctx.raw_tx))
    <3>1. WalletReply(Signature(ctx.path, ctx.raw_tx)) = W!Signed(ctx.path, ctx.raw_tx)
      BY MappedReplies
    <3> QED
      BY <1>0, <1>1, <1>6, <2>1, <2>2, <3>1, DecisionMaps DEF W!Next
  <2>3. CASE CallbackReply(Status("SW_SIGNATURE_FAIL"))
    BY <1>1, <1>5, <1>6, <1>8, <2>1, <2>3
  <2> QED
    BY <1>10, <2>2, <2>3 DEF ApproveTransaction
<1>11. CASE RejectTransaction
  BY <1>1, <1>5, <1>6, <1>8, <1>11 DEF RejectTransaction
<1> QED
  BY <1>2, <1>3, <1>4, <1>7, <1>9, <1>10, <1>11 DEF Touch, Decide

-----------------------------------------------------------------------------
(* Every step of the application is a step of Wallet or a stutter.         *)
LEMMA StepMaps ==
  ASSUME TypeInv, SafeInv, LateInv, [Next]_vars
  PROVE  W!Next \/ UNCHANGED walletVarsBar
<1>0. TypeOK
  BY DEF TypeInv
<1>1. CASE Start \/ PowerLoss
  BY <1>0, <1>1, ResetMaps DEF Start, PowerLoss, Stop, W!Next
<1>2. CASE ReceiveMalformed
  <2>1. /\ Running /\ Running' /\ UNCHANGED Running
        /\ HostWaits => ~awaiting
        /\ awaiting' = FALSE /\ sent' = Status("SW_WRONG_DATA_LENGTH")
        /\ Io' = "RECEIVED"
        /\ UNCHANGED <<asked, upload, screen, shown>>
    BY <1>2 DEF ReceiveMalformed, Receives, Transmit, Running, histVars, Io
  <2>2. HostReply' = W!Plain
    BY <2>1, MappedReplies DEF HostReply, Statuses
  <2>3. LateReply' = W!Silence
    BY <1>0, <2>1, MappedLate
  <2>4. OpenReview' = [of |-> OpenReview.of, path |-> OpenReview.path,
                       raw |-> OpenReview.raw, awaited |-> FALSE]
    BY <2>1, PageGivenUp
  <2>5. W!Serves
    BY <2>1, MappedPage DEF W!Serves
  <2> QED
    BY <2>1, <2>2, <2>3, <2>4, <2>5 DEF W!Next, W!Inform, W!Answered
<1>3. CASE \E c \in Commands : Handle(c)
  BY <1>3, CommandMaps
<1>4. CASE Touch
  BY <1>4, TouchMaps
<1>5. CASE UNCHANGED vars
  BY <1>5 DEF vars, walletVarsBar, Running, OpenReview, ReviewOnDisplay, HostReply, LateReply, Io
<1> QED
  BY <1>1, <1>2, <1>3, <1>4, <1>5 DEF Next, Receive

(* The application keeps the promise of Wallet, for every choice of paths, *)
(* chunks, commands and parser, on both user interfaces: with a host that  *)
(* awaits its replies only what was reviewed is handed out; with one that  *)
(* gives up, late outcomes are of what was handed over last (all of src/   *)
(* that handles a command or a decision).                                  *)
THEOREM WalletImplemented == Spec => ImplementsWallet
<1>1. Init => W!Init
  <2> SUFFICES ASSUME Init PROVE W!Init
    OBVIOUS
  <2>1. ~Running /\ sent = NoReply /\ asked = NoPath /\ upload = <<>>
    BY DEF Init, Running
  <2>2. OpenReview = W!NoReview
    BY <2>1, MappedPage
  <2>3. HostReply = W!Silence /\ LateReply = W!Silence
    BY <2>1, MappedReplies DEF HostReply, LateReply
  <2>4. Running = FALSE
    BY <2>1 DEF Running
  <2> QED
    BY <2>1, <2>2, <2>3, <2>4 DEF W!Init
<1>2. TypeInv /\ SafeInv /\ LateInv /\ [Next]_vars => [W!Next]_(W!walletVars)
  <2>1. UNCHANGED walletVarsBar => UNCHANGED W!walletVars
    BY DEF walletVarsBar, W!walletVars
  <2> QED
    BY <2>1, StepMaps
<1>3. Init => LateInv
  BY ResetLate
<1> QED
  BY <1>1, <1>2, <1>3, Safety, NextPreservesLate, PTL DEF Spec, ImplementsWallet, W!Spec
=============================================================================
