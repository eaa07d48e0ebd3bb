--------------------------- MODULE ScreensProofs ---------------------------
(***************************************************************************)
(* Proofs about Screens: its type invariant, and the safety properties for *)
(* every choice of paths, chunks, sizes, commands and parser, for both user*)
(* interfaces and for both kinds of host.                                  *)
(***************************************************************************)
EXTENDS Screens, TLAPS, SequenceTheorems

(* The replies are of their type.                                          *)
LEMMA RepliesTyped ==
  ASSUME NEW path \in KeptPaths, NEW raw \in Seq(Chunks),
         NEW sw \in Statuses, NEW n \in Nat, NEW status \in Int
  PROVE  /\ Status(sw) \in ReplyType
         /\ NoReply \in ReplyType
         /\ Pubkey(path) \in ReplyType /\ KeyBytes(path, raw) \in ReplyType
         /\ Signature(path, raw) \in ReplyType
         /\ ParsingFailure(status) \in ReplyType
         /\ Echo(raw, n) \in ReplyType
<1>1. <<>> \in Seq(Chunks)
  OBVIOUS
<1>2. NoPath \in KeptPaths
  BY DEF KeptPaths
<1>3. \A s \in Statuses \cup {"none"} : Status(s) \in ReplyType
  BY <1>1, <1>2 DEF Status, ReplyType
<1>4. {"SW_OK", "SW_TX_PARSING_FAIL", "SW_WRONG_RESPONSE_LENGTH"} \subseteq Statuses
  BY DEF Statuses
<1>5. Signature(path, raw) \in ReplyType
  BY <1>3, <1>4 DEF Signature, ReplyType, Status
<1>a. \A bytes \in Seq(Chunks) : KeyBytes(path, bytes) \in ReplyType
  BY <1>3, <1>4 DEF KeyBytes, ReplyType, Status
<1>6. /\ Pubkey(path) \in ReplyType /\ KeyBytes(path, raw) \in ReplyType
      /\ Signature(path, raw) \in ReplyType
  BY <1>1, <1>5, <1>a, Zenon DEF Pubkey
<1>7. status % 256 \in 0 .. 255
  OBVIOUS
<1>8. ParsingFailure(status) \in ReplyType
  BY ZenonT(30), <1>3, <1>4, <1>7 DEF ParsingFailure, ReplyType, Status
<1>9. Echo(raw, n) \in ReplyType
  BY ZenonT(30), <1>3, <1>4 DEF Echo, ReplyType, Status
<1> QED
  BY <1>3, <1>6, <1>8, <1>9 DEF NoReply

(* So is what a later command finds of one.                                *)
LEMMA LeftoverTyped ==
  ASSUME NEW r \in ReplyType
  PROVE  Leftover(r) \in ReplyType /\ Leftover(r).stale
BY DEF Leftover, ReplyType

(* The contexts the handlers build are contexts.                           *)
LEMMA ContextsTyped ==
  /\ ZeroContext \in ContextType
  /\ \A req_type \in {"CONFIRM_ADDRESS", "CONFIRM_TRANSACTION"}, path \in KeptPaths :
       RequestContext(req_type, path) \in ContextType
<1>1. NoPath \in KeptPaths
  BY DEF KeptPaths
<1>2. 0 \in 0 .. MaxTransactionLen
  BY SizesAssumption
<1>3. <<>> \in Seq(Chunks)
  OBVIOUS
<1>4. ZeroContext \in ContextType
  BY <1>1, <1>2, <1>3 DEF ZeroContext, ContextType
<1> QED
  BY <1>4 DEF RequestContext, ContextType, ZeroContext

-----------------------------------------------------------------------------
(* Type correctness.  The parser is only assumed to be defined for what can*)
(* be in raw_tx, so the number of chunks has to be bounded along with it.  *)
SizeInv == Len(ctx.raw_tx) <= ctx.raw_tx_len

LoopTypes ==
  /\ app \in {"off", "running", "returned"}
  /\ io \in {"READY", "RECEIVED", "WAITING"}
  /\ async \in BOOLEAN
  /\ awaiting \in BOOLEAN
  /\ sent \in ReplyType /\ kept \in ReplyType

ReviewTypes ==
  /\ screen \in MenuScreens \cup Reviews \cup StatusPages
  /\ asking \in BOOLEAN
  /\ shown \in [path : KeptPaths, pk : KeptPaths, raw : Seq(Chunks)]

(* What the ways to reply do to the types.                                 *)
LEMMA LoopTyped ==
  ASSUME TypeOK, NEW r \in ReplyType
  PROVE  /\ Transmit(r) /\ UNCHANGED app => LoopTypes'
         /\ Answer(r) => LoopTypes'
         /\ Defer => LoopTypes'
         /\ CallbackReply(r) => LoopTypes'
         /\ NoReplySent => LoopTypes'
<1>1. NoReply \in ReplyType /\ Leftover(kept) \in ReplyType
  <2>1. NoPath \in KeptPaths /\ <<>> \in Seq(Chunks) /\ "SW_OK" \in Statuses
    BY DEF KeptPaths, Statuses
  <2> QED
    BY <2>1, RepliesTyped, LeftoverTyped, 0 \in Nat, 0 \in Int DEF TypeOK
<1>2. Transmit(r) /\ UNCHANGED app => LoopTypes'
  BY <1>1 DEF TypeOK, LoopTypes, Transmit
<1>3. Answer(r) => LoopTypes'
  BY <1>1 DEF TypeOK, LoopTypes, Transmit, Answer
<1>4. Defer => LoopTypes'
  BY <1>1 DEF TypeOK, LoopTypes, Transmit, Defer
<1>5. CallbackReply(r) => LoopTypes'
  BY <1>1 DEF TypeOK, LoopTypes, CallbackReply
<1>6. NoReplySent => LoopTypes'
  BY DEF TypeOK, LoopTypes, NoReplySent
<1> QED
  BY <1>2, <1>3, <1>4, <1>5, <1>6

(* The display functions of the two variants keep the types.               *)
LEMMA DisplayTyped ==
  ASSUME TypeOK, ctx' \in ContextType,
         NEW review \in Reviews
  PROVE  /\ Display(review) => LoopTypes' /\ ReviewTypes'
         /\ NoDisplay => ReviewTypes'
<1>1. Display(review) => LoopTypes'
  <2>1. NoReply \in ReplyType
    BY RepliesTyped, <<>> \in Seq(Chunks), 0 \in Nat, 0 \in Int DEF KeptPaths, Statuses
  <2> QED
    BY <2>1, LoopTyped DEF Display
<1>2. Display(review) => ReviewTypes'
  <2>1. ctx'.path \in KeptPaths /\ ctx'.pk \in KeptPaths /\ ctx'.raw_tx \in Seq(Chunks)
    BY DEF ContextType
  <2>2. [path |-> ctx'.path, pk |-> ctx'.pk, raw |-> ctx'.raw_tx]
          \in [path : KeptPaths, pk : KeptPaths, raw : Seq(Chunks)]
    BY <2>1
  <2> QED
    BY <2>2 DEF Display, ReviewTypes
<1>3. NoDisplay => ReviewTypes'
  BY DEF NoDisplay, ReviewTypes, TypeOK
<1> QED
  BY <1>1, <1>2, <1>3

(* The data of a command that reaches a handler.                           *)
LEMMA DataTyped ==
  ASSUME NEW c \in Commands
  PROVE  /\ c \in CommandType
         /\ Accepts(c, GET_PUBLIC_KEY) => c.data \in PathPayloads
         /\ Accepts(c, SIGN_TX) /\ c.p1 = P1_START => c.data \in PathPayloads
         /\ Accepts(c, SIGN_TX) /\ c.p1 # P1_START => c.data \in Chunks
<1>1. c \in CommandType
  BY CommandsAssumption
<1>2. Accepts(c, GET_PUBLIC_KEY) \/ Accepts(c, SIGN_TX) => c.data # NoData
  BY DEF Accepts, Refusal, GET_PUBLIC_KEY, SIGN_TX, GET_VERSION, GET_APP_NAME, CLA
<1>3. c.data # NoData => c.data \in (IF TakesPath(c) THEN PathPayloads ELSE Chunks)
  BY CommandsAssumption
<1> QED
  BY <1>1, <1>2, <1>3 DEF Accepts, TakesPath, GET_PUBLIC_KEY, SIGN_TX

(* A stored chunk keeps the context typed and the buffer within its size.  *)
LEMMA StoredTyped ==
  ASSUME TypeOK, SizeInv, NEW c \in Commands, StoreChunk(c)
  PROVE  /\ Stored(c) \in ContextType
         /\ Len(Stored(c).raw_tx) <= Stored(c).raw_tx_len
         /\ upload' \in Seq(Chunks)
         /\ Deserialize(Stored(c).raw_tx).status \in Int
<1>1. c.data \in Chunks
  BY DataTyped DEF StoreChunk
<1>2. ChunkSize[c.data] \in Nat \ {0}
  BY <1>1, SizesAssumption
<1>3. ctx \in ContextType /\ upload \in Seq(Chunks)
  BY DEF TypeOK
<1>4. ctx.raw_tx \in Seq(Chunks) /\ ctx.raw_tx_len \in 0 .. MaxTransactionLen
  BY <1>3 DEF ContextType
<1> DEFINE raw == Append(ctx.raw_tx, c.data)
           len == ctx.raw_tx_len + ChunkSize[c.data]
<1>5. raw \in Seq(Chunks) /\ Len(raw) = Len(ctx.raw_tx) + 1
  BY <1>1, <1>4
<1>6. len \in 0 .. MaxTransactionLen
  BY <1>2, <1>4, SizesAssumption DEF StoreChunk, Fits
<1>7. Len(raw) <= len
  <2>1. Len(ctx.raw_tx) \in Nat
    BY <1>4
  <2> QED
    BY <2>1, <1>2, <1>4, <1>5, SizesAssumption DEF SizeInv
<1>8. Stored(c).raw_tx = raw /\ Stored(c).raw_tx_len = len
  BY <1>3 DEF Stored, ContextType
<1>9. Stored(c) \in ContextType
  BY <1>3, <1>5, <1>6 DEF Stored, ContextType
<1>10. Deserialize(raw).status \in Int
  <2>1. Len(raw) \in 0 .. MaxTransactionLen
    BY <1>5, <1>6, <1>7, SizesAssumption
  <2>2. raw \in [1 .. Len(raw) -> Chunks]
    BY <1>5, LenProperties
  <2>3. Deserialize(raw) \in [status : Int, type : {"TRANSFER", "CUSTOM"}]
    BY <2>1, <2>2, DeserializeAssumption
  <2> QED
    BY <2>3
<1>11. upload' \in Seq(Chunks)
  BY <1>1, <1>3 DEF StoreChunk
<1> QED
  BY <1>7, <1>8, <1>9, <1>10, <1>11

TypeInv == TypeOK /\ SizeInv

(* TypeOK says as much of the command and the reply as the proofs need.    *)
LEMMA TypeOKParts ==
  ASSUME LoopTypes', ReviewTypes', nvm' \in {"blank", "initialized"},
         cmd' \in CommandType, ctx' \in ContextType,
         asked' \in KeptPaths, upload' \in Seq(Chunks)
  PROVE  TypeOK'
BY DEF TypeOK, LoopTypes, ReviewTypes

(* What a command leaves typed, whatever its handler does.                 *)
LEMMA StatusesTyped ==
  ASSUME NEW sw \in Statuses
  PROVE  Status(sw) \in ReplyType
BY RepliesTyped, <<>> \in Seq(Chunks), 0 \in Nat, 0 \in Int DEF KeptPaths

(* A command, whichever handler it reaches, keeps the types.               *)
LEMMA ReceivePreservesTypes ==
  ASSUME TypeInv, NEW c \in Commands
  PROVE  /\ ReceiveRefused(c) => TypeInv'
         /\ GetInformation(c) => TypeInv'
         /\ GetPublicKey(c) => TypeInv'
         /\ SignTxStart(c) => TypeInv'
         /\ SignTxRefuse(c) => TypeInv'
         /\ SignTxMore(c) => TypeInv'
         /\ SignTxParsingFails(c) => TypeInv'
         /\ SignTxReview(c) => TypeInv'
<1> USE DEF TypeInv
<1>0. c \in CommandType
  BY DataTyped
<1>a. /\ nvm \in {"blank", "initialized"} /\ ctx \in ContextType
      /\ asked \in KeptPaths /\ upload \in Seq(Chunks)
  BY DEF TypeOK
<1>b. Receives(c) => nvm' \in {"blank", "initialized"} /\ cmd' \in CommandType
  BY <1>0, <1>a DEF Receives
<1>c. UNCHANGED <<screen, asking, shown>> => ReviewTypes'
  BY DEF ReviewTypes, TypeOK
<1>1. ASSUME ReceiveRefused(c) PROVE TypeInv'
  <2>1. Refusal(c) \in Statuses
    BY DEF Refusal, Statuses, GET_PUBLIC_KEY, SIGN_TX, GET_VERSION, GET_APP_NAME, CLA
  <2>2. LoopTypes'
    BY <1>1, <2>1, StatusesTyped, LoopTyped DEF ReceiveRefused
  <2> QED
    BY <1>1, <1>a, <1>b, <1>c, <2>2, TypeOKParts DEF ReceiveRefused, histVars, SizeInv
<1>2. ASSUME GetInformation(c) PROVE TypeInv'
  <2>1. LoopTypes'
    BY <1>2, StatusesTyped, LoopTyped DEF GetInformation, Statuses
  <2> QED
    BY <1>2, <1>a, <1>b, <1>c, <2>1, TypeOKParts DEF GetInformation, Accepts, histVars, SizeInv
<1>3. ASSUME GetPublicKey(c) PROVE TypeInv'
  <2>1. c.data \in PathPayloads /\ c.data \in KeptPaths
    BY <1>3, DataTyped DEF GetPublicKey, KeptPaths
  <2>2. RequestContext("CONFIRM_ADDRESS", c.data) \in ContextType
    BY <2>1, ContextsTyped
  <2>3. ctx' \in ContextType
    BY <1>3, <2>1, <2>2 DEF GetPublicKey, ContextType
  <2>4. ctx'.raw_tx = <<>> /\ ctx'.raw_tx_len = 0
    BY <1>3 DEF GetPublicKey, RequestContext, ZeroContext
  <2>5. ctx'.pk \in KeptPaths
    BY <2>3 DEF ContextType
  <2>6. Pubkey(ctx'.pk) \in ReplyType
    BY <2>5, RepliesTyped, <<>> \in Seq(Chunks), 0 \in Nat, 0 \in Int, "SW_OK" \in Statuses
       DEF Statuses
  <2>7. \/ \E sw \in Statuses : Answer(Status(sw)) /\ NoDisplay
        \/ Display("address")
        \/ Answer(Pubkey(ctx'.pk)) /\ NoDisplay
    BY <1>3 DEF GetPublicKey, DisplayAddress, Statuses
  <2>8. LoopTypes' /\ ReviewTypes'
    <3>1. CASE \E sw \in Statuses : Answer(Status(sw)) /\ NoDisplay
      BY <3>1, <1>c, StatusesTyped, LoopTyped DEF NoDisplay
    <3>2. CASE Display("address")
      BY <3>2, <2>3, DisplayTyped DEF Reviews, AddressReviews
    <3>3. CASE Answer(Pubkey(ctx'.pk)) /\ NoDisplay
      BY <3>3, <1>c, <2>6, LoopTyped DEF NoDisplay
    <3> QED
      BY <2>7, <3>1, <3>2, <3>3
  <2>9. TypeOK'
    BY <1>3, <1>a, <1>b, <2>1, <2>3, <2>8, TypeOKParts DEF GetPublicKey, Accepts
  <2> QED
    BY <2>4, <2>9 DEF SizeInv
<1>4. ASSUME SignTxStart(c) PROVE TypeInv'
  <2>1. c.data \in KeptPaths
    BY <1>4, DataTyped DEF SignTxStart, KeptPaths
  <2>2. ctx' \in ContextType
    BY <1>4, <2>1, ContextsTyped DEF SignTxStart
  <2>3. ctx'.raw_tx = <<>> /\ ctx'.raw_tx_len = 0
    BY <1>4 DEF SignTxStart, RequestContext, ZeroContext
  <2>4. LoopTypes'
    BY <1>4, StatusesTyped, LoopTyped DEF SignTxStart, Statuses
  <2>5. upload' \in Seq(Chunks)
    BY <1>4 DEF SignTxStart
  <2>6. TypeOK'
    BY <1>4, <1>b, <1>c, <2>1, <2>2, <2>4, <2>5, TypeOKParts DEF SignTxStart, Accepts, NoDisplay
  <2> QED
    BY <2>3, <2>6 DEF SizeInv
<1>5. ASSUME SignTxRefuse(c) PROVE TypeInv'
  <2>1. LoopTypes'
    BY <1>5, StatusesTyped, LoopTyped DEF SignTxRefuse, Statuses
  <2> QED
    BY <1>5, <1>a, <1>b, <1>c, <2>1, TypeOKParts DEF SignTxRefuse, Accepts, histVars, SizeInv
<1>6. ASSUME SignTxMore(c) PROVE TypeInv'
  <2>1. StoreChunk(c) /\ ctx' = Stored(c)
    BY <1>6 DEF SignTxMore
  <2>2. ctx' \in ContextType /\ Len(ctx'.raw_tx) <= ctx'.raw_tx_len /\ upload' \in Seq(Chunks)
    BY <2>1, StoredTyped
  <2>3. ctx'.raw_tx \in Seq(Chunks) /\ ctx'.raw_tx_len \in Nat
    BY <2>2, SizesAssumption DEF ContextType
  <2>4. Echo(ctx'.raw_tx, ctx'.raw_tx_len) \in ReplyType
    BY <2>3, RepliesTyped, 0 \in Int, NoPath \in KeptPaths, "SW_OK" \in Statuses
       DEF KeptPaths, Statuses
  <2>5. LoopTypes'
    BY <1>6, <2>4, LoopTyped DEF SignTxMore
  <2>6. TypeOK'
    BY <1>6, <1>a, <1>b, <1>c, <2>1, <2>2, <2>5, TypeOKParts
       DEF SignTxMore, StoreChunk, Accepts, NoDisplay
  <2> QED
    BY <2>2, <2>6 DEF SizeInv
<1>7. ASSUME SignTxParsingFails(c) PROVE TypeInv'
  <2>1. StoreChunk(c) /\ ctx' = Stored(c)
    BY <1>7 DEF SignTxParsingFails
  <2>2. /\ ctx' \in ContextType /\ Len(ctx'.raw_tx) <= ctx'.raw_tx_len
        /\ upload' \in Seq(Chunks) /\ Deserialize(ctx'.raw_tx).status \in Int
    BY <2>1, StoredTyped
  <2>3. ParsingFailure(Deserialize(ctx'.raw_tx).status) \in ReplyType
    BY <2>2, RepliesTyped, <<>> \in Seq(Chunks), 0 \in Nat, NoPath \in KeptPaths,
       "SW_OK" \in Statuses DEF KeptPaths, Statuses
  <2>4. LoopTypes'
    BY <1>7, <2>3, LoopTyped DEF SignTxParsingFails
  <2>5. TypeOK'
    BY <1>7, <1>a, <1>b, <1>c, <2>1, <2>2, <2>4, TypeOKParts
       DEF SignTxParsingFails, StoreChunk, Accepts, NoDisplay
  <2> QED
    BY <2>2, <2>5 DEF SizeInv
<1>8. ASSUME SignTxReview(c) PROVE TypeInv'
  <2>1. StoreChunk(c) /\ ctx' = [Stored(c) EXCEPT !.state = "STATE_PARSED"]
    BY <1>8 DEF SignTxReview
  <2>2. /\ Stored(c) \in ContextType /\ Len(Stored(c).raw_tx) <= Stored(c).raw_tx_len
        /\ upload' \in Seq(Chunks)
    BY <2>1, StoredTyped
  <2>3. ctx' \in ContextType /\ Len(ctx'.raw_tx) <= ctx'.raw_tx_len
    BY <2>1, <2>2 DEF ContextType
  <2>4. \E review \in Reviews : Display(review)
    BY <1>8 DEF SignTxReview, Reviews, TransactionReviews
  <2>5. LoopTypes' /\ ReviewTypes'
    BY <2>3, <2>4, DisplayTyped
  <2>6. TypeOK'
    BY <1>8, <1>a, <1>b, <2>1, <2>2, <2>3, <2>5, TypeOKParts DEF SignTxReview, StoreChunk, Accepts
  <2> QED
    BY <2>3, <2>6 DEF SizeInv
<1> QED
  BY <1>1, <1>2, <1>3, <1>4, <1>5, <1>6, <1>7, <1>8

(* Init, Start, PowerLoss and Quit leave the same fresh RAM behind.        *)
LEMMA ResetTyped ==
  /\ Init => TypeInv
  /\ Reset /\ app' \in {"off", "running"} /\ nvm' \in {"blank", "initialized"} => TypeInv'
<1>1. NoReply \in ReplyType /\ ZeroContext \in ContextType
  BY ContextsTyped, RepliesTyped, <<>> \in Seq(Chunks), 0 \in Nat, 0 \in Int
     DEF KeptPaths, Statuses
<1>2. ZeroCommand \in CommandType /\ ZeroContext.raw_tx = <<>> /\ ZeroContext.raw_tx_len = 0
  BY DEF ZeroCommand, CommandType, ZeroContext
<1>3. /\ NoPath \in KeptPaths /\ <<>> \in Seq(Chunks) /\ Len(<<>>) <= 0
      /\ NothingShown \in [path : KeptPaths, pk : KeptPaths, raw : Seq(Chunks)]
  BY DEF KeptPaths, NothingShown
<1>4. Init => TypeInv
  BY <1>1, <1>2, <1>3 DEF Init, TypeInv, TypeOK, SizeInv, MenuScreens
<1>5. Reset /\ app' \in {"off", "running"} /\ nvm' \in {"blank", "initialized"} => TypeInv'
  BY <1>1, <1>2, <1>3 DEF Reset, Transmit, TypeInv, TypeOK, SizeInv, MenuScreens
<1> QED
  BY <1>4, <1>5

(* A callback of the user interface keeps the types.                       *)
LEMMA TouchPreservesTypes ==
  ASSUME TypeInv, Touch
  PROVE  TypeInv'
<1> USE DEF TypeInv
<1>a. /\ ctx \in ContextType /\ asked \in KeptPaths /\ upload \in Seq(Chunks)
      /\ nvm \in {"blank", "initialized"} /\ cmd \in CommandType
  BY DEF TypeOK
<1>b. Touches => /\ nvm' \in {"blank", "initialized"} /\ cmd' \in CommandType
                 /\ asked' \in KeptPaths /\ upload' \in Seq(Chunks)
  BY <1>a DEF Touches, histVars
<1>c. /\ NoReplySent => LoopTypes'
      /\ \A sw \in Statuses : CallbackReply(Status(sw)) => LoopTypes'
      /\ CallbackReply(KeyBytes(ctx.pk, ctx.raw_tx)) => LoopTypes'
      /\ CallbackReply(Signature(ctx.path, ctx.raw_tx)) => LoopTypes'
  <2>1. /\ ctx.pk \in KeptPaths /\ ctx.path \in KeptPaths /\ ctx.raw_tx \in Seq(Chunks)
        /\ "SW_OK" \in Statuses
    BY <1>a DEF ContextType, Statuses
  <2>2. /\ Pubkey(ctx.pk) \in ReplyType /\ Signature(ctx.path, ctx.raw_tx) \in ReplyType
        /\ NoReply \in ReplyType
    BY <2>1, RepliesTyped, 0 \in Nat, 0 \in Int
  <2>3. KeyBytes(ctx.pk, ctx.raw_tx) \in ReplyType
    BY <2>1, RepliesTyped, 0 \in Nat, 0 \in Int
  <2> QED
    BY <2>2, <2>3, StatusesTyped, LoopTyped
<1>d. ASSUME Touches, asking' \in BOOLEAN,
             screen' \in MenuScreens \cup Reviews \cup StatusPages
      PROVE  ReviewTypes'
  BY <1>d DEF Touches, histVars, ReviewTypes, TypeOK
<1>e. UNCHANGED ctx => ctx' \in ContextType /\ SizeInv'
  BY <1>a DEF SizeInv
<1>f. ASSUME NEW state \in {"STATE_NONE", "STATE_PARSED", "STATE_APPROVED"},
             ctx' = [ctx EXCEPT !.state = state]
      PROVE  ctx' \in ContextType /\ SizeInv'
  BY <1>a, <1>f DEF ContextType, SizeInv
<1>g. ASSUME Touches, LoopTypes', asking' \in BOOLEAN,
             screen' \in MenuScreens \cup Reviews \cup StatusPages,
             ctx' \in ContextType, SizeInv'
      PROVE  TypeInv'
  BY <1>b, <1>d, <1>g, TypeOKParts
<1>h. asking \in BOOLEAN /\ screen \in MenuScreens \cup Reviews \cup StatusPages
  BY DEF TypeOK
<1>i. ASSUME NEW from, NEW to \in MenuScreens \cup Reviews \cup StatusPages, Browse(from, to)
      PROVE  TypeInv'
  BY <1>c, <1>e, <1>g, <1>h, <1>i DEF Browse
<1>j. ASSUME NEW status \in StatusPages, Leave(status)
      PROVE  asking' \in BOOLEAN /\ screen' \in MenuScreens \cup Reviews \cup StatusPages
  BY <1>j DEF Leave, MenuScreens
<1>1. CASE OpenAbout
  BY <1>1, <1>i DEF OpenAbout, MenuScreens
<1>2. CASE BackToMenu
  BY <1>2, <1>i DEF BackToMenu, MenuScreens
<1>3. CASE ShowMenuAddress
  <2>1. MenuPath \in KeptPaths /\ NoPath \in KeptPaths
    BY DEF KeptPaths
  <2>2. PICK pk \in {MenuPath, NoPath} :
          ctx' = [RequestContext("CONFIRM_ADDRESS", MenuPath) EXCEPT !.pk = pk]
    BY <1>3 DEF ShowMenuAddress
  <2>3. RequestContext("CONFIRM_ADDRESS", MenuPath) \in ContextType
    BY <2>1, ContextsTyped
  <2>4. ctx' \in ContextType
    BY <2>1, <2>2, <2>3 DEF ContextType
  <2>5. SizeInv'
    BY <2>2 DEF SizeInv, RequestContext, ZeroContext
  <2> QED
    BY <1>3, <1>c, <1>g, <1>h, <2>4, <2>5 DEF ShowMenuAddress, MenuScreens
<1>4. CASE Quit
  BY <1>4, <1>a, ResetTyped DEF Quit, Stop
<1>5. CASE ContinueReview
  BY <1>5, <1>i DEF ContinueReview, Reviews, AddressReviews, TransactionReviews
<1>6. CASE AskRejection
  BY <1>6, <1>c, <1>e, <1>g, <1>h DEF AskRejection
<1>7. CASE GoBackToTransaction
  BY <1>7, <1>c, <1>e, <1>g, <1>h DEF GoBackToTransaction
<1>8. CASE ApproveAddress
  BY <1>8, <1>c, <1>e, <1>g, <1>j DEF ApproveAddress, StatusPages
<1>9. CASE RejectAddress
  BY <1>9, <1>c, <1>e, <1>g, <1>j DEF RejectAddress, StatusPages, Statuses
<1>10. CASE ApproveTransaction
  <2>1. LoopTypes'
    BY <1>10, <1>c DEF ApproveTransaction, Statuses
  <2>2. ctx' \in ContextType /\ SizeInv'
    BY <1>10, <1>f DEF ApproveTransaction
  <2> QED
    BY <1>10, <1>g, <1>j, <2>1, <2>2 DEF ApproveTransaction, StatusPages
<1>11. CASE RejectTransaction
  <2>1. ctx' \in ContextType /\ SizeInv'
    BY <1>11, <1>f DEF RejectTransaction
  <2> QED
    BY <1>11, <1>c, <1>g, <1>j, <2>1 DEF RejectTransaction, StatusPages, Statuses
<1> QED
  BY <1>1, <1>2, <1>3, <1>4, <1>5, <1>6, <1>7, <1>8, <1>9, <1>10, <1>11 DEF Touch, Decide

(* Every step keeps the types.                                             *)
LEMMA NextPreservesTypes == TypeInv /\ [Next]_vars => TypeInv'
<1> SUFFICES ASSUME TypeInv, [Next]_vars
             PROVE  TypeInv'
  OBVIOUS
<1>1. CASE Start
  BY <1>1, ResetTyped DEF Start
<1>2. CASE PowerLoss
  BY <1>2, ResetTyped DEF PowerLoss, Stop, TypeInv, TypeOK
<1>3. CASE ReceiveMalformed
  <2>1. Status("SW_WRONG_DATA_LENGTH") \in ReplyType
    BY StatusesTyped DEF Statuses
  <2>2. LoopTypes'
    BY <1>3, <2>1, LoopTyped DEF ReceiveMalformed, TypeInv
  <2>3. ZeroCommand \in CommandType
    BY DEF ZeroCommand, CommandType
  <2> QED
    BY <1>3, <2>2, <2>3, TypeOKParts
       DEF ReceiveMalformed, Receives, TypeInv, TypeOK, SizeInv, ReviewTypes, histVars
<1>4. CASE \E c \in Commands :
             \/ ReceiveRefused(c) \/ GetInformation(c) \/ GetPublicKey(c) \/ SignTxStart(c)
             \/ SignTxRefuse(c) \/ SignTxMore(c) \/ SignTxParsingFails(c) \/ SignTxReview(c)
  BY <1>4, ReceivePreservesTypes
<1>5. CASE Touch
  BY <1>5, TouchPreservesTypes
<1>6. CASE UNCHANGED vars
  BY <1>6 DEF vars, TypeInv, TypeOK, SizeInv
<1> QED
  BY <1>1, <1>2, <1>3, <1>4, <1>5, <1>6 DEF Next, Receive, Handle

(* Every variable keeps its type, and raw_tx_len never exceeds the buffer. *)
THEOREM TypeCorrect == Spec => []TypeOK
<1>1. Init => TypeInv
  BY ResetTyped
<1>2. TypeInv => TypeOK
  BY DEF TypeInv
<1> QED
  BY <1>1, <1>2, NextPreservesTypes, PTL DEF Spec

-----------------------------------------------------------------------------
(* Safety.  The inductive invariant says where the reply state machine can *)
(* be while the loop blocks, and that as long as a callback is to reply    *)
(* (WAITING) the review of that request stands: the context cannot have    *)
(* changed under it.  The properties follow from the two together, none of *)
(* them is inductive without them.                                         *)
LoopInv ==
  app = "running" =>
    /\ async => io \in {"WAITING", "READY"}
    /\ ~async => io \in {"RECEIVED", "READY"}
    /\ awaiting <=> io = "WAITING"
    /\ HostWaits /\ ~async => io = "RECEIVED"

ContextShown == shown = [path |-> ctx.path, pk |-> ctx.pk, raw |-> ctx.raw_tx]

ReviewInv ==
  app = "running" /\ io = "WAITING" =>
    /\ screen \in Reviews
    /\ ContextShown
    /\ screen \in TransactionReviews =>
         ctx.req_type = "CONFIRM_TRANSACTION" /\ ctx.state = "STATE_PARSED"
    /\ screen \in AddressReviews =>
         ctx.pk = asked /\ asked \in Paths /\ ctx.raw_tx = <<>>

AskingInv == asking => screen \in TransactionReviews

SafeInv ==
  /\ LoopInv
  /\ ReviewInv
  /\ AskingInv
  /\ UploadIntegrity
  /\ SignedWhatWasReviewed
  /\ KeyIsOfRequestedPath
  /\ NoOrphanReview
  /\ NeverReturns

(* Where a command finds the reply state machine.                          *)
LEMMA IoOnCommand ==
  ASSUME LoopInv, app = "running", HostWaits => ~awaiting
  PROVE  /\ Io \in {"RECEIVED", "READY"}
         /\ HostWaits => Io = "RECEIVED"
BY DEF LoopInv, Io

(* What answering, deferring and replying from a callback do to the loop.  *)
LEMMA AnswerSteps ==
  ASSUME LoopInv, app = "running", HostWaits => ~awaiting, NEW r, Answer(r)
  PROVE  /\ LoopInv'
         /\ app' = "running" => io' = "RECEIVED" /\ sent' = r
         /\ app' # "running" => sent' = NoReply
         /\ HostWaits => app' = "running"
BY IoOnCommand DEF Answer, Transmit, LoopInv

(* A handler that defers its reply leaves the loop waiting for a callback. *)
LEMMA DeferSteps ==
  ASSUME TypeOK, LoopInv, app = "running", HostWaits => ~awaiting, Defer
  PROVE  /\ LoopInv'
         /\ sent' = NoReply \/ ~Answers'
         /\ UNCHANGED app
         /\ HostWaits => awaiting'
<1>1. CASE Io = "RECEIVED"
  BY <1>1 DEF Defer, LoopInv
<1>2. CASE Io = "READY"
  <2>1. sent' = Leftover(kept) /\ ~HostWaits
    BY <1>2, IoOnCommand DEF Defer, Transmit
  <2>2. ~Answers'
    BY <2>1, LeftoverTyped DEF Answers, TypeOK
  <2> QED
    BY <1>2, <2>1, <2>2 DEF Defer, Transmit, LoopInv
<1> QED
  BY <1>1, <1>2, IoOnCommand

(* A callback replies to a host that awaits it, and to nobody else.        *)
LEMMA CallbackSteps ==
  ASSUME TypeOK, LoopInv, app = "running", HostWaits => awaiting, NEW r, CallbackReply(r)
  PROVE  /\ LoopInv'
         /\ UNCHANGED app
         /\ io' = "READY"
         /\ \/ io = "WAITING" /\ sent' = r
            \/ io # "WAITING" /\ sent' = sent
BY DEF CallbackReply, LoopInv, TypeOK

(* The kinds of the replies.                                               *)
LEMMA ReplyKinds ==
  /\ \A sw : Status(sw).kind = "status"
  /\ NoReply.kind = "status"
  /\ \A path : Pubkey(path).kind = "pubkey" /\ Pubkey(path).path = path
  /\ \A path, raw : KeyBytes(path, raw).kind = "pubkey" /\ KeyBytes(path, raw).path = path
  /\ \A path, raw : /\ Signature(path, raw).kind = "signature"
                    /\ Signature(path, raw).path = path /\ Signature(path, raw).raw = raw
  /\ \A status : ParsingFailure(status).kind = "status"
  /\ \A raw, len : Echo(raw, len).kind \in {"echo", "status"}
BY DEF Status, NoReply, Pubkey, KeyBytes, Signature, ParsingFailure, Echo

(* A command that is answered at once and leaves the display alone.        *)
LEMMA AnsweredCommand ==
  ASSUME TypeOK, SafeInv, app = "running", HostWaits => ~awaiting,
         NEW r, Answer(r), UNCHANGED <<screen, asking>>
  PROVE  /\ LoopInv' /\ ReviewInv' /\ AskingInv' /\ NoOrphanReview' /\ NeverReturns'
         /\ r.kind \in {"status", "echo"} => sent'.kind \in {"status", "echo"}
         /\ sent' = r \/ sent' = NoReply
<1> USE DEF SafeInv
<1>1. LoopInv' /\ (sent' = r \/ sent' = NoReply)
  BY AnswerSteps
<1>2. ReviewInv'
  BY AnswerSteps DEF ReviewInv
<1>3. AskingInv'
  BY DEF AskingInv
<1>4. NoOrphanReview' /\ NeverReturns'
  BY AnswerSteps DEF NoOrphanReview, NeverReturns
<1>5. r.kind \in {"status", "echo"} => sent'.kind \in {"status", "echo"}
  BY <1>1, ReplyKinds
<1> QED
  BY <1>1, <1>2, <1>3, <1>4, <1>5

(* A command that starts a review.                                         *)
LEMMA DisplayedCommand ==
  ASSUME TypeOK, SafeInv, app = "running", HostWaits => ~awaiting,
         NEW review \in Reviews, Display(review),
         review \in TransactionReviews =>
           ctx'.req_type = "CONFIRM_TRANSACTION" /\ ctx'.state = "STATE_PARSED",
         review \in AddressReviews =>
           ctx'.pk = asked' /\ asked' \in Paths /\ ctx'.raw_tx = <<>>
  PROVE  /\ LoopInv' /\ ReviewInv' /\ AskingInv' /\ NoOrphanReview' /\ NeverReturns'
         /\ sent'.kind = "status" \/ ~Answers'
<1> USE DEF SafeInv, Display
<1>1. /\ LoopInv' /\ UNCHANGED app /\ (HostWaits => awaiting')
      /\ sent' = NoReply \/ ~Answers'
  BY DeferSteps
<1>2. ReviewInv'
  BY DEF ReviewInv, ContextShown
<1>3. AskingInv'
  BY DEF AskingInv
<1>4. NoOrphanReview' /\ NeverReturns'
  BY <1>1 DEF NoOrphanReview, NeverReturns
<1> QED
  BY <1>1, <1>2, <1>3, <1>4, ReplyKinds

(* The history of a reply that is neither a signature nor a public key, or *)
(* answers no command of a waiting host.                                   *)
LEMMA PlainReply ==
  ASSUME sent'.kind \in {"status", "echo"} \/ ~Answers'
  PROVE  SignedWhatWasReviewed' /\ KeyIsOfRequestedPath'
BY DEF SignedWhatWasReviewed, KeyIsOfRequestedPath

(* Every command keeps the safety invariant, one case for each handler.    *)
LEMMA ReceivePreservesSafety ==
  ASSUME TypeInv, SafeInv, NEW c \in Commands
  PROVE  /\ ReceiveMalformed => SafeInv'
         /\ ReceiveRefused(c) => SafeInv'
         /\ GetInformation(c) => SafeInv'
         /\ GetPublicKey(c) => SafeInv'
         /\ SignTxStart(c) => SafeInv'
         /\ SignTxRefuse(c) => SafeInv'
         /\ SignTxMore(c) => SafeInv'
         /\ SignTxParsingFails(c) => SafeInv'
         /\ SignTxReview(c) => SafeInv'
<1> USE DEF SafeInv
<1>0. TypeOK
  BY DEF TypeInv
<1>a. \A d : Receives(d) => app = "running" /\ (HostWaits => ~awaiting)
  BY DEF Receives
<1>b. UNCHANGED <<ctx, histVars>> => UploadIntegrity'
  BY DEF UploadIntegrity, histVars
<1>c. StoreChunk(c) /\ ctx'.raw_tx = Stored(c).raw_tx /\ ctx'.path = Stored(c).path => UploadIntegrity'
  <2>1. StoreChunk(c) => /\ Stored(c).raw_tx = upload' /\ Stored(c).path = asked'
    BY <1>0 DEF StoreChunk, Stored, UploadIntegrity, TypeOK, ContextType
  <2> QED
    BY <2>1 DEF UploadIntegrity
<1>1. ASSUME ReceiveMalformed PROVE SafeInv'
  <2>1. sent'.kind \in {"status", "echo"}
    BY <1>1, ReplyKinds DEF ReceiveMalformed, Transmit
  <2>2. LoopInv' /\ ReviewInv' /\ AskingInv' /\ NeverReturns' /\ NoOrphanReview'
    BY <1>1, <1>a DEF ReceiveMalformed, Transmit, LoopInv, ReviewInv, AskingInv, NeverReturns,
       NoOrphanReview
  <2> QED
    BY <1>1, <1>b, <2>1, <2>2, PlainReply DEF ReceiveMalformed
<1>2. ASSUME ReceiveRefused(c) PROVE SafeInv'
  <2>1. Answer(Status(Refusal(c))) /\ UNCHANGED <<ctx, histVars, screen, asking>> /\ Receives(c)
    BY <1>2 DEF ReceiveRefused, histVars
  <2> QED
    BY <1>0, <1>a, <1>b, <2>1, AnsweredCommand, ReplyKinds, PlainReply
<1>3. ASSUME GetInformation(c) PROVE SafeInv'
  <2>1. Answer(Status("SW_OK")) /\ UNCHANGED <<ctx, histVars, screen, asking>> /\ Receives(c)
    BY <1>3 DEF GetInformation, Accepts, histVars
  <2> QED
    BY <1>0, <1>a, <1>b, <2>1, AnsweredCommand, ReplyKinds, PlainReply
<1>4. ASSUME GetPublicKey(c) PROVE SafeInv'
  <2>1. Receives(c) /\ asked' = c.data
    BY <1>4 DEF GetPublicKey, Accepts
  <2>2. UploadIntegrity'
    BY <1>4 DEF GetPublicKey, RequestContext, ZeroContext, UploadIntegrity
  <2>3. CASE \E sw : Answer(Status(sw)) /\ NoDisplay
    BY <1>0, <1>a, <2>1, <2>2, <2>3, AnsweredCommand, ReplyKinds, PlainReply DEF NoDisplay
  <2>4. CASE /\ Display("address")
             /\ ctx'.pk = c.data /\ c.data \in Paths /\ ctx'.raw_tx = <<>>
    <3>1. "address" \in Reviews /\ "address" \notin TransactionReviews
      BY DEF Reviews, AddressReviews, TransactionReviews
    <3> QED
      BY <1>0, <1>a, <2>1, <2>2, <2>4, <3>1, DisplayedCommand, PlainReply
  <2>5. CASE Answer(Pubkey(c.data)) /\ NoDisplay /\ c.data \in Paths
    <3>1. sent' = Pubkey(c.data) \/ sent' = NoReply
      BY <1>0, <1>a, <2>1, <2>5, AnsweredCommand DEF NoDisplay
    <3>2. SignedWhatWasReviewed' /\ KeyIsOfRequestedPath'
      BY <2>1, <2>5, <3>1, ReplyKinds DEF SignedWhatWasReviewed, KeyIsOfRequestedPath
    <3> QED
      BY <1>0, <1>a, <2>1, <2>2, <2>5, <3>2, AnsweredCommand DEF NoDisplay
  <2>6. \/ \E sw : Answer(Status(sw)) /\ NoDisplay
        \/ /\ Display("address")
           /\ ctx'.pk = c.data /\ c.data \in Paths /\ ctx'.raw_tx = <<>>
        \/ Answer(Pubkey(c.data)) /\ NoDisplay /\ c.data \in Paths
    BY <1>4 DEF GetPublicKey, DisplayAddress, RequestContext, ZeroContext
  <2> QED
    BY <2>3, <2>4, <2>5, <2>6
<1>5. ASSUME SignTxStart(c) PROVE SafeInv'
  <2>1. Receives(c) /\ NoDisplay /\ \E sw : Answer(Status(sw))
    BY <1>5 DEF SignTxStart, Accepts
  <2>2. UploadIntegrity'
    BY <1>5 DEF SignTxStart, RequestContext, ZeroContext, UploadIntegrity
  <2> QED
    BY <1>0, <1>a, <2>1, <2>2, AnsweredCommand, ReplyKinds, PlainReply DEF NoDisplay
<1>6. ASSUME SignTxRefuse(c) PROVE SafeInv'
  <2>1. /\ Receives(c) /\ UNCHANGED <<ctx, histVars, screen, asking>>
        /\ \E sw : Answer(Status(sw))
    BY <1>6 DEF SignTxRefuse, Accepts, histVars
  <2> QED
    BY <1>0, <1>a, <1>b, <2>1, AnsweredCommand, ReplyKinds, PlainReply
<1>7. ASSUME SignTxMore(c) PROVE SafeInv'
  <2>1. Receives(c) /\ NoDisplay /\ Answer(Echo(ctx'.raw_tx, ctx'.raw_tx_len))
    BY <1>7 DEF SignTxMore, StoreChunk, Accepts
  <2>2. UploadIntegrity'
    BY <1>7, <1>c DEF SignTxMore
  <2> QED
    BY <1>0, <1>a, <2>1, <2>2, AnsweredCommand, ReplyKinds, PlainReply DEF NoDisplay
<1>8. ASSUME SignTxParsingFails(c) PROVE SafeInv'
  <2>1. Receives(c) /\ NoDisplay /\ \E status : Answer(ParsingFailure(status))
    BY <1>8 DEF SignTxParsingFails, StoreChunk, Accepts
  <2>2. UploadIntegrity'
    BY <1>8, <1>c DEF SignTxParsingFails
  <2> QED
    BY <1>0, <1>a, <2>1, <2>2, AnsweredCommand, ReplyKinds, PlainReply DEF NoDisplay
<1>9. ASSUME SignTxReview(c) PROVE SafeInv'
  <2>1. Receives(c) /\ ctx' = [Stored(c) EXCEPT !.state = "STATE_PARSED"] /\ StoreChunk(c)
    BY <1>9 DEF SignTxReview, StoreChunk, Accepts
  <2>2. /\ ctx'.raw_tx = Stored(c).raw_tx /\ ctx'.path = Stored(c).path
        /\ ctx'.req_type = "CONFIRM_TRANSACTION" /\ ctx'.state = "STATE_PARSED"
    BY <1>0, <2>1 DEF StoreChunk, Stored, TypeOK, ContextType
  <2>3. UploadIntegrity'
    BY <1>c, <2>1, <2>2
  <2>4. PICK review \in TransactionReviews : Display(review)
    BY <1>9 DEF SignTxReview, TransactionReviews
  <2>5. review \in Reviews /\ review \notin AddressReviews
    BY DEF Reviews, AddressReviews, TransactionReviews
  <2> QED
    BY <1>0, <1>a, <2>1, <2>2, <2>3, <2>4, <2>5, DisplayedCommand, PlainReply
<1> QED
  BY <1>1, <1>2, <1>3, <1>4, <1>5, <1>6, <1>7, <1>8, <1>9

(* A page turned without a reply: only ctx may have changed, and it did not*)
(* while a review is pending.                                              *)
LEMMA PageTurned ==
  ASSUME SafeInv, Touches, NoReplySent,
         io # "WAITING" \/ (UNCHANGED ctx /\ screen' \in Reviews),
         screen' \in Reviews => screen \in Reviews,
         screen' \in TransactionReviews <=> screen \in TransactionReviews,
         screen' \in AddressReviews <=> screen \in AddressReviews,
         asking' => screen' \in TransactionReviews,
         UploadIntegrity'
  PROVE  SafeInv'
<1> USE DEF SafeInv, Touches, NoReplySent, histVars
<1>1. LoopInv'
  BY DEF LoopInv
<1>2. ReviewInv'
  BY DEF ReviewInv, ContextShown
<1>3. AskingInv' /\ NoOrphanReview' /\ NeverReturns'
  BY DEF AskingInv, NoOrphanReview, NeverReturns
<1>4. SignedWhatWasReviewed' /\ KeyIsOfRequestedPath'
  BY DEF SignedWhatWasReviewed, KeyIsOfRequestedPath, Answers
<1> QED
  BY <1>1, <1>2, <1>3, <1>4

(* A decision: the callback replies for the pending request, if it still is*)
(* pending, and the review is left.                                        *)
LEMMA DecisionTaken ==
  ASSUME TypeOK, SafeInv, Touches, screen \in Reviews,
         NEW r, CallbackReply(r), NEW status \in StatusPages, Leave(status),
         UNCHANGED <<ctx.req_type, ctx.raw_tx, ctx.path>>,
         r.kind \in {"status", "pubkey", "signature"},
         r.kind = "pubkey" => screen \in AddressReviews /\ r.path = ctx.pk,
         r.kind = "signature" => /\ screen \in TransactionReviews
                                 /\ r.path = ctx.path /\ r.raw = ctx.raw_tx
  PROVE  SafeInv'
<1> USE DEF SafeInv, Touches, histVars
<1>1. HostWaits => awaiting
  BY DEF NoOrphanReview
<1>2. /\ LoopInv' /\ UNCHANGED app /\ io' = "READY"
      /\ \/ io = "WAITING" /\ sent' = r
         \/ io # "WAITING" /\ sent' = sent
  BY <1>1, CallbackSteps
<1>3. screen' \notin Reviews /\ asking' = FALSE
  BY DEF Leave, StatusPages, Reviews, AddressReviews, TransactionReviews
<1>4. ReviewInv' /\ AskingInv' /\ NoOrphanReview' /\ NeverReturns'
  BY <1>2, <1>3 DEF ReviewInv, AskingInv, NoOrphanReview, NeverReturns
<1>5. UploadIntegrity'
  BY DEF UploadIntegrity
<1>6. CASE io # "WAITING"
  BY <1>2, <1>4, <1>5, <1>6 DEF SignedWhatWasReviewed, KeyIsOfRequestedPath, Answers
<1>7. CASE io = "WAITING"
  <2>1. KeyIsOfRequestedPath'
    BY <1>2, <1>7 DEF KeyIsOfRequestedPath, ReviewInv
  <2>2. SignedWhatWasReviewed'
    BY <1>2, <1>7 DEF SignedWhatWasReviewed, ReviewInv, ContextShown, UploadIntegrity
  <2> QED
    BY <1>2, <1>4, <1>5, <2>1, <2>2
<1> QED
  BY <1>6, <1>7

(* Start, PowerLoss and Quit.                                              *)
LEMMA ResetSafe ==
  /\ Init => SafeInv
  /\ Reset /\ app' \in {"off", "running"} => SafeInv'
<1>1. Init => SafeInv
  BY ReplyKinds
     DEF Init, SafeInv, LoopInv, ReviewInv, AskingInv, UploadIntegrity, SignedWhatWasReviewed,
         KeyIsOfRequestedPath, NoOrphanReview, NeverReturns, ZeroContext
<1>2. ASSUME Reset, app' \in {"off", "running"} PROVE SafeInv'
  <2>1. LoopInv' /\ ReviewInv' /\ AskingInv' /\ NeverReturns'
    BY <1>2 DEF Reset, Transmit, LoopInv, ReviewInv, AskingInv, NeverReturns
  <2>2. UploadIntegrity' /\ NoOrphanReview'
    BY <1>2 DEF Reset, UploadIntegrity, NoOrphanReview, ZeroContext, Reviews, AddressReviews,
                TransactionReviews
  <2>3. SignedWhatWasReviewed' /\ KeyIsOfRequestedPath'
    BY <1>2, ReplyKinds, PlainReply DEF Reset, Transmit
  <2> QED
    BY <2>1, <2>2, <2>3 DEF SafeInv
<1> QED
  BY <1>1, <1>2

(* Every callback keeps the safety invariant.                              *)
LEMMA TouchPreservesSafety ==
  ASSUME TypeInv, SafeInv, Touch
  PROVE  SafeInv'
<1>0. TypeOK /\ UploadIntegrity /\ AskingInv /\ ReviewInv
  BY DEF TypeInv, SafeInv
<1>a. UNCHANGED <<ctx, asked, upload>> => UploadIntegrity'
  BY <1>0 DEF UploadIntegrity
<1>b. MenuScreens \cap Reviews = {} /\ StatusPages \cap Reviews = {}
  BY DEF MenuScreens, StatusPages, Reviews, AddressReviews, TransactionReviews
<1>c. AddressReviews \cap TransactionReviews = {}
      /\ AddressReviews \subseteq Reviews /\ TransactionReviews \subseteq Reviews
  BY DEF Reviews, AddressReviews, TransactionReviews
<1>d. app = "running" /\ io = "WAITING" => screen \in Reviews
  BY <1>0 DEF ReviewInv
<1>e. \A state : ctx' = [ctx EXCEPT !.state = state] =>
        UNCHANGED <<ctx.req_type, ctx.raw_tx, ctx.path>>
  BY <1>0 DEF TypeOK, ContextType
<1>1. CASE OpenAbout
  BY <1>1, <1>a, <1>b, <1>c, <1>d, PageTurned DEF OpenAbout, Browse, Touches, histVars, MenuScreens
<1>2. CASE BackToMenu
  <2>1. PICK s \in {"about", "menu_address"} \cup StatusPages : Browse(s, "menu")
    BY <1>2 DEF BackToMenu
  <2>2. s \notin Reviews /\ "menu" \notin Reviews
    BY <1>b DEF MenuScreens
  <2> QED
    BY <1>a, <1>c, <1>d, <2>1, <2>2, PageTurned DEF Browse, Touches, histVars
<1>3. CASE ShowMenuAddress
  <2>1. screen \notin Reviews /\ screen' \notin Reviews /\ Touches /\ NoReplySent /\ UNCHANGED asking
    BY <1>3, <1>b DEF ShowMenuAddress, MenuScreens
  <2>2. ctx'.req_type = "CONFIRM_ADDRESS"
    BY <1>3 DEF ShowMenuAddress, RequestContext, ZeroContext
  <2>3. UploadIntegrity'
    BY <2>2 DEF UploadIntegrity
  <2>4. io # "WAITING" /\ ~asking'
    BY <1>0, <1>c, <1>d, <2>1 DEF Touches, AskingInv, TypeOK
  <2> QED
    BY <1>c, <2>1, <2>3, <2>4, PageTurned
<1>4. CASE Quit
  BY <1>4, ResetSafe DEF Quit, Stop
<1>5. CASE ContinueReview
  <2>1. /\ Touches /\ NoReplySent /\ UNCHANGED ctx /\ ~asking'
        /\ \/ screen \in AddressReviews /\ screen' \in AddressReviews
           \/ screen \in TransactionReviews /\ screen' \in TransactionReviews
    BY <1>0, <1>5 DEF ContinueReview, Browse, AddressReviews, TransactionReviews, TypeOK
  <2> QED
    BY <1>a, <1>c, <2>1, PageTurned DEF Touches, histVars
<1>6. CASE AskRejection
  BY <1>6, <1>a, <1>c, PageTurned DEF AskRejection, Touches, histVars
<1>7. CASE GoBackToTransaction
  BY <1>0, <1>7, <1>a, <1>c, PageTurned DEF GoBackToTransaction, Touches, histVars, AskingInv
<1>8. CASE ApproveAddress
  BY <1>0, <1>8, <1>c, ReplyKinds, DecisionTaken DEF ApproveAddress, StatusPages
<1>9. CASE RejectAddress
  BY <1>0, <1>9, <1>c, ReplyKinds, DecisionTaken DEF RejectAddress, StatusPages
<1>10. CASE ApproveTransaction
  <2>1. UNCHANGED <<ctx.req_type, ctx.raw_tx, ctx.path>> /\ "transaction_signed" \in StatusPages
    BY <1>10, <1>e DEF ApproveTransaction, StatusPages
  <2>2. PICK r \in {Signature(ctx.path, ctx.raw_tx), Status("SW_SIGNATURE_FAIL")} : CallbackReply(r)
    BY <1>10 DEF ApproveTransaction
  <2>3. /\ Touches /\ screen \in TransactionReviews /\ Leave("transaction_signed")
    BY <1>10 DEF ApproveTransaction
  <2>4. /\ r.kind \in {"status", "signature"}
        /\ r.kind = "signature" => r.path = ctx.path /\ r.raw = ctx.raw_tx
    BY ReplyKinds, <2>2
  <2> QED
    BY <1>0, <1>c, <2>1, <2>2, <2>3, <2>4, DecisionTaken
<1>11. CASE RejectTransaction
  BY <1>0, <1>11, <1>c, <1>e, ReplyKinds, DecisionTaken DEF RejectTransaction, StatusPages
<1> QED
  BY <1>1, <1>2, <1>3, <1>4, <1>5, <1>6, <1>7, <1>8, <1>9, <1>10, <1>11 DEF Touch, Decide

(* Every step keeps the safety invariant.                                  *)
LEMMA NextPreservesSafety == TypeInv /\ SafeInv /\ [Next]_vars => SafeInv'
<1> SUFFICES ASSUME TypeInv, SafeInv, [Next]_vars
             PROVE  SafeInv'
  OBVIOUS
<1>1. CASE Start
  BY <1>1, ResetSafe DEF Start
<1>2. CASE PowerLoss
  BY <1>2, ResetSafe DEF PowerLoss, Stop
<1>3. CASE ReceiveMalformed
  <2>1. sent'.kind = "status"
    BY <1>3, ReplyKinds DEF ReceiveMalformed, Transmit
  <2>2. LoopInv' /\ ReviewInv' /\ AskingInv' /\ NeverReturns' /\ NoOrphanReview'
    BY <1>3 DEF ReceiveMalformed, Receives, Transmit, SafeInv, LoopInv, ReviewInv, AskingInv,
       NeverReturns, NoOrphanReview
  <2>3. UploadIntegrity'
    BY <1>3 DEF ReceiveMalformed, SafeInv, UploadIntegrity, histVars
  <2> QED
    BY <2>1, <2>2, <2>3, PlainReply DEF SafeInv
<1>4. CASE \E c \in Commands :
             \/ ReceiveRefused(c) \/ GetInformation(c) \/ GetPublicKey(c) \/ SignTxStart(c)
             \/ SignTxRefuse(c) \/ SignTxMore(c) \/ SignTxParsingFails(c) \/ SignTxReview(c)
  BY <1>4, ReceivePreservesSafety
<1>5. CASE Touch
  BY <1>5, TouchPreservesSafety
<1>6. CASE UNCHANGED vars
  BY <1>6 DEF vars, SafeInv, LoopInv, ReviewInv, ContextShown, AskingInv, UploadIntegrity,
     SignedWhatWasReviewed, KeyIsOfRequestedPath, Answers, NoOrphanReview, NeverReturns
<1> QED
  BY <1>1, <1>2, <1>3, <1>4, <1>5, <1>6 DEF Next, Receive, Handle

(* The inductive invariant holds throughout.                               *)
THEOREM Safety == Spec => [](TypeInv /\ SafeInv)
<1>1. Init => TypeInv /\ SafeInv
  BY ResetTyped, ResetSafe
<1> QED
  BY <1>1, NextPreservesTypes, NextPreservesSafety, PTL DEF Spec

(* The host awaits a reply iff a callback is to send it, and then the      *)
(* review of that very request is on the display - whatever the host does  *)
(* (a review whose host gave up is awaited no more, and nothing is said of *)
(* it here).                                                               *)
THEOREM PendingReviewHolds == Spec => []PendingReview
<1>1. SafeInv => PendingReview
  BY DEF SafeInv, LoopInv, ReviewInv, ContextShown, PendingReview
<1> QED
  BY <1>1, Safety, PTL

(* A signature that answers its command is of what was reviewed, and what  *)
(* was reviewed is what the host uploaded, with every chunking, parser and *)
(* user.  With a host that awaits its replies these are all signatures that*)
(* leave the device; with one that gives up there are stale ones as well,  *)
(* which need not be (ConfirmedIsSigned of Claims is violated).            *)
THEOREM SignedWhatWasReviewedHolds == Spec => []SignedWhatWasReviewed
<1>1. SafeInv => SignedWhatWasReviewed
  BY DEF SafeInv
<1> QED
  BY <1>1, Safety, PTL

(* raw_tx and the path survive refusals and are lost to nothing but a new  *)
(* request.                                                                *)
THEOREM UploadIntegrityHolds == Spec => []UploadIntegrity
<1>1. SafeInv => UploadIntegrity
  BY DEF SafeInv
<1> QED
  BY <1>1, Safety, PTL

(* The key that answers a command is that of the path asked for.           *)
THEOREM KeyIsOfRequestedPathHolds == Spec => []KeyIsOfRequestedPath
<1>1. SafeInv => KeyIsOfRequestedPath
  BY DEF SafeInv
<1> QED
  BY <1>1, Safety, PTL

(* With a host that awaits its replies no review outlives its request.     *)
THEOREM NoReviewIsOrphaned == Spec => []NoOrphanReview
<1>1. SafeInv => NoOrphanReview
  BY DEF SafeInv
<1> QED
  BY <1>1, Safety, PTL

(* With such a host app_main never returns.                                *)
THEOREM WaitingHostIsServed == Spec => []NeverReturns
<1>1. SafeInv => NeverReturns
  BY DEF SafeInv
<1> QED
  BY <1>1, Safety, PTL

(* A signature that answers its command is the outcome of an approval, and *)
(* ends the review.                                                        *)
THEOREM SignatureNeedsApprovalHolds == Spec => SignatureNeedsApproval
<1> DEFINE A == sent'.kind = "signature" /\ Answers' /\ sent' # sent =>
                  /\ screen \in TransactionReviews \cap OffersApproval /\ ~asking
                  /\ screen' \notin Reviews
                  /\ ctx.state = "STATE_PARSED" /\ ctx'.state = "STATE_APPROVED"
<1>1. TypeInv /\ SafeInv /\ [Next]_vars => [A]_vars
  <2> SUFFICES ASSUME TypeInv, SafeInv, Next, sent'.kind = "signature", Answers',
                      sent' # sent
               PROVE  A
    BY DEF vars
  <2> USE ReplyKinds
  <2>1. ASSUME NEW r, Answer(r) PROVE sent' = r \/ sent' = NoReply
    BY <2>1 DEF Answer, Transmit
  <2>2. \A c \in Commands : Receives(c) => ~Defer
    BY DeferSteps DEF Receives, TypeInv, SafeInv
  <2>3. ~Start /\ ~PowerLoss /\ ~Quit /\ ~ReceiveMalformed
    BY DEF Start, PowerLoss, Quit, Stop, Reset, ReceiveMalformed, Transmit
  <2>4. ASSUME NEW c \in Commands PROVE
          /\ ~ReceiveRefused(c) /\ ~GetInformation(c) /\ ~GetPublicKey(c) /\ ~SignTxStart(c)
          /\ ~SignTxRefuse(c) /\ ~SignTxMore(c) /\ ~SignTxParsingFails(c) /\ ~SignTxReview(c)
    <3>1. ASSUME NEW r, r.kind \in {"status", "echo", "pubkey"} PROVE ~Answer(r)
      BY <2>1, <3>1
    <3>2. \A review : Receives(c) => ~Display(review)
      BY <2>2 DEF Display
    <3>3. ~ReceiveRefused(c) /\ ~GetInformation(c) /\ ~SignTxStart(c) /\ ~SignTxRefuse(c)
      BY <3>1 DEF ReceiveRefused, GetInformation, SignTxStart, SignTxRefuse
    <3>4. ~GetPublicKey(c)
      BY <3>1, <3>2 DEF GetPublicKey, DisplayAddress, Accepts
    <3>5. ~SignTxMore(c) /\ ~SignTxParsingFails(c) /\ ~SignTxReview(c)
      BY <3>1, <3>2 DEF SignTxMore, SignTxParsingFails, SignTxReview, StoreChunk, Accepts
    <3> QED
      BY <3>3, <3>4, <3>5
  <2>5. \/ OpenAbout \/ BackToMenu \/ ShowMenuAddress \/ ContinueReview \/ AskRejection
        \/ GoBackToTransaction \/ ApproveAddress \/ RejectAddress \/ ApproveTransaction
        \/ RejectTransaction
    BY <2>3, <2>4 DEF Next, Receive, Handle, Touch, Decide
  <2>6. ApproveTransaction
    <3>1. ~OpenAbout /\ ~BackToMenu /\ ~ShowMenuAddress /\ ~ContinueReview /\ ~AskRejection
          /\ ~GoBackToTransaction
      BY DEF OpenAbout, BackToMenu, ShowMenuAddress, ContinueReview, AskRejection,
             GoBackToTransaction, Browse, NoReplySent
    <3>2. ~ApproveAddress /\ ~RejectAddress /\ ~RejectTransaction
      BY DEF ApproveAddress, RejectAddress, RejectTransaction, CallbackReply
    <3> QED
      BY <2>5, <3>1, <3>2
  <2>7. io = "WAITING" /\ app = "running" /\ screen \in TransactionReviews
    BY <2>6 DEF ApproveTransaction, CallbackReply, Touches
  <2>8. ctx.state = "STATE_PARSED"
    BY <2>7 DEF SafeInv, ReviewInv
  <2>9. ctx'.state = "STATE_APPROVED"
    <3>1. ctx' = [ctx EXCEPT !.state = "STATE_APPROVED"]
      BY <2>6 DEF ApproveTransaction, CallbackReply
    <3> QED
      BY <3>1 DEF TypeInv, TypeOK, ContextType
  <2>10. screen' \notin Reviews
    BY <2>6 DEF ApproveTransaction, Leave, Reviews, AddressReviews, TransactionReviews
  <2> QED
    BY <2>6, <2>8, <2>9, <2>10 DEF ApproveTransaction
<1> QED
  BY <1>1, Safety, PTL DEF Spec, SignatureNeedsApproval
=============================================================================
