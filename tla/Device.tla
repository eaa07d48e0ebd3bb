------------------------------- MODULE Device -------------------------------
(***************************************************************************)
(* The command side of the Phantasma Ledger application: the event loop of *)
(* app_main.c, the dispatcher, the handlers of the APDU commands and the   *)
(* global context they share, together with the reply state machine of the *)
(* SDK (io_recv_command, io_send_response) that the loop runs on.          *)
(*                                                                         *)
(* The application has one thread.  While it blocks in io_exchange it runs *)
(* the callbacks of the user interface (module Screens); once a command    *)
(* arrives, the handler runs to completion and the loop blocks again.  An  *)
(* action of this module is therefore one whole turn of the loop: from the *)
(* arrival of a command to the moment the loop blocks for the next one.    *)
(***************************************************************************)
EXTENDS Integers, Sequences

CONSTANTS
  Paths,             \* BIP32 path payloads that buffer_read_bip32_path accepts
  LongPaths,         \* those of them whose text does not fit g_bip32_path
  BadPaths,          \* payloads it refuses; each stands for what it leaves behind
  MenuPath,          \* the fixed path of handler_get_public_key_menu
  NoPath,            \* bip32_path of a zeroed context
  Chunks,            \* contents of a transaction chunk
  ChunkSize,         \* their sizes
  NoData,            \* an APDU with Lc = 0
  MaxTransactionLen, \* MAX_TRANSACTION_LEN, sizeof(raw_tx)
  MaxResponseLen,    \* what G_io_apdu_buffer holds of a response
  Deserialize(_),    \* transaction_deserialize on raw_tx: status and type
  Commands,          \* the well-formed APDUs the host may send
  HostWaits,         \* TRUE: the host awaits a reply before its next command;
                     \* FALSE: it may give up on a reply and send another
  Nbgl               \* HAVE_NBGL: the touch screen user interface, else BAGL

CLA            == 224   \* 0xE0
GET_VERSION    == 3
GET_APP_NAME   == 4
GET_PUBLIC_KEY == 5
SIGN_TX        == 6
P1_START       == 0
P1_MAX         == 3
P2_LAST        == 0
P2_MORE        == 128   \* 0x80
PARSING_OK     == 1

Statuses == {"SW_OK", "SW_DENY", "SW_WRONG_P1P2", "SW_WRONG_DATA_LENGTH",
             "SW_INS_NOT_SUPPORTED", "SW_CLA_NOT_SUPPORTED",
             "SW_WRONG_RESPONSE_LENGTH", "SW_DISPLAY_BIP32_PATH_FAIL",
             "SW_DISPLAY_ADDRESS_FAIL", "SW_WRONG_TX_LENGTH",
             "SW_TX_PARSING_FAIL", "SW_BAD_STATE", "SW_SIGNATURE_FAIL"}

PathPayloads == Paths \cup BadPaths
KeptPaths    == PathPayloads \cup {MenuPath, NoPath}

(* apdu_parser's command_t; a zeroed one before the first command.         *)
CommandType == [cla : Nat, ins : Nat, p1 : Nat, p2 : Nat,
                data : PathPayloads \cup Chunks \cup {NoData}]
ZeroCommand == [cla |-> 0, ins |-> 0, p1 |-> 0, p2 |-> 0, data |-> NoData]

(* Data of an APDU is read as a path or as a chunk, never as both.         *)
TakesPath(c) == c.ins = GET_PUBLIC_KEY \/ (c.ins = SIGN_TX /\ c.p1 = P1_START)

ASSUME PathsAssumption ==
  /\ LongPaths \subseteq Paths
  /\ {MenuPath, NoPath} \cap PathPayloads = {}
  /\ Paths \cap BadPaths = {}

ASSUME SizesAssumption ==
  /\ MaxTransactionLen \in Nat
  /\ MaxResponseLen \in Nat
  /\ ChunkSize \in [Chunks -> Nat \ {0}]

ASSUME CommandsAssumption ==
  /\ Commands \subseteq CommandType
  /\ NoData \notin PathPayloads \cup Chunks
  /\ \A c \in Commands : c.data # NoData =>
       c.data \in (IF TakesPath(c) THEN PathPayloads ELSE Chunks)

ASSUME DeserializeAssumption ==
  \A n \in 0 .. MaxTransactionLen : \A raw \in [1 .. n -> Chunks] :
     Deserialize(raw) \in [status : Int, type : {"TRANSFER", "CUSTOM"}]

ASSUME VariantAssumption == HostWaits \in BOOLEAN /\ Nbgl \in BOOLEAN

VARIABLES
  app,       \* "off", "running", or "returned" when app_main gave up
  nvm,       \* N_storage
  cmd,       \* app_main's structured command
  ctx,       \* G_context
  screen,    \* what the display shows (module Screens)
  asking,    \* the NBGL question "Reject transaction?" lies on top of it
  io,        \* G_io_state
  async,     \* the loop blocks in io_exchange with IO_ASYNCH_REPLY
  awaiting,  \* the host awaits the reply to its last command
  sent,      \* the reply to that command, as the host received it
  kept,      \* the reply a callback left in G_io_apdu_buffer, or NoReply
  asked,     \* history: path payload of the last command that carried one
  upload,    \* history: chunks stored since SIGN_TX was last started
  shown      \* history: path, key and bytes behind the last review displayed

histVars == <<asked, upload, shown>>
vars == <<app, nvm, cmd, ctx, screen, asking, io, async, awaiting, sent,
          kept, asked, upload, shown>>

-----------------------------------------------------------------------------
(* The global context (types.h).  raw_tx and the public key share a union; *)
(* req_type tells which of the two is meant.                               *)
ContextType ==
  [state : {"STATE_NONE", "STATE_PARSED", "STATE_APPROVED"},
   req_type : {"CONFIRM_ADDRESS", "CONFIRM_TRANSACTION"},
   path : KeptPaths, pk : KeptPaths,
   raw_tx : Seq(Chunks), raw_tx_len : 0 .. MaxTransactionLen]

(* explicit_bzero(&G_context), whose zero is STATE_NONE, CONFIRM_ADDRESS.  *)
ZeroContext ==
  [state |-> "STATE_NONE", req_type |-> "CONFIRM_ADDRESS", path |-> NoPath,
   pk |-> NoPath, raw_tx |-> <<>>, raw_tx_len |-> 0]

(* Replies.  A public key is named by the path it was derived from, and a  *)
(* signature by the path of its key and the bytes it covers.  A stale one  *)
(* is of an earlier request and goes out in place of the reply awaited.    *)
ReplyType ==
  [sw : Statuses \cup {"none"},
   kind : {"status", "pubkey", "echo", "signature"}, stale : BOOLEAN,
   path : KeptPaths, raw : Seq(Chunks), code : 0 .. 255]

Status(sw)      == [sw |-> sw, kind |-> "status", stale |-> FALSE,
                    path |-> NoPath, raw |-> <<>>, code |-> 0]
NoReply         == Status("none")
(* The bytes of raw_public_key, which lies over raw_tx in the union: with  *)
(* a transaction in the context they are the transaction's.                *)
KeyBytes(path, raw) ==
  [Status("SW_OK") EXCEPT !.kind = "pubkey", !.path = path, !.raw = raw]
Pubkey(path)    == KeyBytes(path, <<>>)
Signature(path, raw) ==
  [Status("SW_OK") EXCEPT !.kind = "signature", !.path = path, !.raw = raw]
ParsingFailureWide(status) ==   \* deviation: the status as it is
  [Status("SW_TX_PARSING_FAIL") EXCEPT !.code = status]
ParsingFailure(status) ==   \* one byte: uint8_t resp[1]
  [Status("SW_TX_PARSING_FAIL") EXCEPT !.code = status % 256]
(* The chunks received so far, sent back with SW_OK; a response that does  *)
(* not fit the buffer becomes SW_WRONG_RESPONSE_LENGTH.                    *)
Echo(raw, len)  ==
  IF len <= MaxResponseLen THEN [Status("SW_OK") EXCEPT !.kind = "echo", !.raw = raw]
                           ELSE Status("SW_WRONG_RESPONSE_LENGTH")

-----------------------------------------------------------------------------
(* The reply state machine of the SDK, as the loop and callbacks use it.   *)
(* io_recv_command leaves RECEIVED after a wait with IO_ASYNCH_REPLY; after*)
(* a plain wait, G_io_state is RECEIVED unless a callback replied.         *)
Io == IF async THEN "RECEIVED" ELSE io

(* io_recv_command in state READY: transmit, then wait for a command.      *)
Transmit(r) ==
  /\ io' = "RECEIVED" /\ async' = FALSE
  /\ sent' = r /\ awaiting' = FALSE /\ kept' = NoReply

(* A handler returns what io_send_response returns.  In state READY that   *)
(* is -1 and app_main returns, the reply never transmitted.                *)
Answer(r) ==
  \/ /\ Io = "RECEIVED"
     /\ Transmit(r)
     /\ UNCHANGED app
  \/ /\ Io = "READY"
     /\ app' = "returned" /\ awaiting' = TRUE /\ sent' = NoReply
     /\ kept' = NoReply
     /\ UNCHANGED <<io, async>>

(* What io_recv_command finds of a callback's reply once a command was     *)
(* received into the same buffer: the command lies over its first bytes,   *)
(* over both when it is a status word, and over all of them when the       *)
(* command is as long; the model keeps the most that can be left.          *)
Leftover(r) ==
  [r EXCEPT !.stale = TRUE, !.sw = IF r.kind = "status" THEN "none" ELSE @]

(* A handler returns 0 without a reply: a callback is to send it.  In      *)
(* state READY, io_recv_command transmits the G_output_len bytes of the    *)
(* reply that a callback left since the last command.                      *)
Defer ==
  /\ UNCHANGED app
  /\ \/ /\ Io = "RECEIVED"
        /\ io' = "WAITING" /\ async' = TRUE
        /\ sent' = NoReply /\ awaiting' = TRUE /\ kept' = NoReply
     \/ /\ Io = "READY"
        /\ Transmit(Leftover(kept))

(* io_send_response in a callback: transmitted at once in state WAITING,   *)
(* kept in the buffer in RECEIVED; in READY it is refused, but the buffer  *)
(* and G_output_len are written all the same.                              *)
CallbackReply(r) ==
  /\ io' = "READY"
  /\ IF io = "WAITING" THEN sent' = r /\ awaiting' = FALSE /\ kept' = NoReply
                       ELSE kept' = r /\ UNCHANGED <<sent, awaiting>>
  /\ UNCHANGED <<app, async>>

-----------------------------------------------------------------------------
(* Commands.                                                               *)
Receives(c) ==
  /\ app = "running"
  /\ HostWaits => ~awaiting
  /\ cmd' = c
  /\ UNCHANGED nvm

(* apdu_parser rejects the bytes: app_main replies and goes on, whatever   *)
(* io_send_sw returns.                                                     *)
ReceiveMalformed ==
  /\ Receives(ZeroCommand)
  /\ Transmit(Status("SW_WRONG_DATA_LENGTH"))
  /\ UNCHANGED <<app, ctx, screen, asking, histVars>>

(* The status word apdu_dispatcher refuses a command with, or "SW_OK".     *)
Refusal(c) ==
  CASE c.cla # CLA -> "SW_CLA_NOT_SUPPORTED"
    [] c.cla = CLA /\ c.ins \notin {GET_VERSION, GET_APP_NAME, GET_PUBLIC_KEY, SIGN_TX} ->
         "SW_INS_NOT_SUPPORTED"
    [] c.cla = CLA /\ c.ins \in {GET_VERSION, GET_APP_NAME} ->
         IF c.p1 # 0 \/ c.p2 # 0 THEN "SW_WRONG_P1P2" ELSE "SW_OK"
    [] c.cla = CLA /\ c.ins = GET_PUBLIC_KEY ->
         IF c.p1 > 1 \/ c.p2 > 0 THEN "SW_WRONG_P1P2"
         ELSE IF c.data = NoData THEN "SW_WRONG_DATA_LENGTH" ELSE "SW_OK"
    [] c.cla = CLA /\ c.ins = SIGN_TX ->
         IF \/ c.p1 = P1_START /\ c.p2 # P2_MORE
            \/ c.p1 > P1_MAX
            \/ c.p2 \notin {P2_LAST, P2_MORE}
         THEN "SW_WRONG_P1P2"
         ELSE IF c.data = NoData THEN "SW_WRONG_DATA_LENGTH" ELSE "SW_OK"

ReceiveRefused(c) ==
  /\ Receives(c)
  /\ Refusal(c) # "SW_OK"
  /\ Answer(Status(Refusal(c)))
  /\ UNCHANGED <<ctx, screen, asking, histVars>>

Accepts(c, ins) ==
  /\ Receives(c)
  /\ c.ins = ins
  /\ Refusal(c) = "SW_OK"

(* handler_get_version and handler_get_app_name send a constant.           *)
GetInformation(c) ==
  /\ \/ Accepts(c, GET_VERSION)
     \/ Accepts(c, GET_APP_NAME)
  /\ Answer(Status("SW_OK"))
  /\ UNCHANGED <<ctx, screen, asking, histVars>>

(* A display function ran to its end: the review replaces what was shown.  *)
Display(review) ==
  /\ screen' = review
  /\ asking' = FALSE
  /\ shown' = [path |-> ctx'.path, pk |-> ctx'.pk, raw |-> ctx'.raw_tx]
  /\ Defer

NoDisplay == UNCHANGED <<screen, asking, shown>>

(* ui_display_address.  Only the BAGL variant formats the path.            *)
DisplayAddress ==
  \/ /\ ~Nbgl /\ ctx'.path \in LongPaths
     /\ Answer(Status("SW_DISPLAY_BIP32_PATH_FAIL"))
     /\ NoDisplay
  \/ /\ Nbgl \/ ctx'.path \notin LongPaths
     /\ Display("address")

(* handler_get_public_key.  Derivation and key generation may fail.        *)
RequestContext(req_type, path) ==
  [ZeroContext EXCEPT !.req_type = req_type, !.path = path]

(* Deviation: the key is derived although the path was refused.            *)
GetPublicKeyOfAnyPath(c) ==
  /\ Accepts(c, GET_PUBLIC_KEY)
  /\ asked' = c.data
  /\ UNCHANGED upload
  /\ ctx' = [RequestContext("CONFIRM_ADDRESS", c.data) EXCEPT !.pk = c.data]
  /\ IF c.p1 = 1 THEN DisplayAddress
                 ELSE Answer(Pubkey(ctx'.pk)) /\ NoDisplay

GetPublicKey(c) ==
  /\ Accepts(c, GET_PUBLIC_KEY)
  /\ asked' = c.data
  /\ UNCHANGED upload
  /\ \/ /\ ctx' = RequestContext("CONFIRM_ADDRESS", c.data)
        /\ IF c.data \notin Paths
           THEN Answer(Status("SW_WRONG_DATA_LENGTH"))
           ELSE \E sw \in {"SW_DENY", "SW_DISPLAY_ADDRESS_FAIL"} : Answer(Status(sw))
        /\ NoDisplay
     \/ /\ c.data \in Paths
        /\ ctx' = [RequestContext("CONFIRM_ADDRESS", c.data) EXCEPT !.pk = c.data]
        /\ IF c.p1 = 1 THEN DisplayAddress
                       ELSE Answer(Pubkey(ctx'.pk)) /\ NoDisplay

(* Deviation: chunk 0 does not clear what an earlier upload left behind.   *)
SignTxStartKeepingChunks(c) ==
  /\ Accepts(c, SIGN_TX)
  /\ c.p1 = P1_START
  /\ ctx' = [ctx EXCEPT !.req_type = "CONFIRM_TRANSACTION",
                        !.state = "STATE_NONE", !.path = c.data]
  /\ asked' = c.data
  /\ upload' = <<>>
  /\ Answer(Status(IF c.data \in Paths THEN "SW_OK" ELSE "SW_WRONG_DATA_LENGTH"))
  /\ NoDisplay

(* handler_sign_tx, chunk 0: the context is reset and the path is read.  A *)
(* payload that is refused leaves the request in CONFIRM_TRANSACTION.      *)
SignTxStart(c) ==
  /\ Accepts(c, SIGN_TX)
  /\ c.p1 = P1_START
  /\ ctx' = RequestContext("CONFIRM_TRANSACTION", c.data)
  /\ asked' = c.data
  /\ upload' = <<>>
  /\ Answer(Status(IF c.data \in Paths THEN "SW_OK" ELSE "SW_WRONG_DATA_LENGTH"))
  /\ NoDisplay

(* handler_sign_tx, a later chunk that is not stored.                      *)
FitsWithoutChunk(c) == ctx.raw_tx_len <= MaxTransactionLen   \* deviation

Fits(c) == ctx.raw_tx_len + ChunkSize[c.data] <= MaxTransactionLen

SignTxRefuse(c) ==
  /\ Accepts(c, SIGN_TX)
  /\ c.p1 # P1_START
  /\ \/ /\ ctx.req_type # "CONFIRM_TRANSACTION"
        /\ Answer(Status("SW_BAD_STATE"))
     \/ /\ ctx.req_type = "CONFIRM_TRANSACTION"
        /\ ~Fits(c)
        /\ Answer(Status("SW_WRONG_TX_LENGTH"))
  /\ UNCHANGED <<ctx, screen, asking, histVars>>

(* handler_sign_tx, a chunk that is stored: buffer_move and the new length.*)
Stored(c) == [ctx EXCEPT !.raw_tx = Append(ctx.raw_tx, c.data),
                         !.raw_tx_len = ctx.raw_tx_len + ChunkSize[c.data]]

StoreChunk(c) ==
  /\ Accepts(c, SIGN_TX)
  /\ c.p1 # P1_START
  /\ ctx.req_type = "CONFIRM_TRANSACTION"
  /\ Fits(c)
  /\ upload' = Append(upload, c.data)
  /\ UNCHANGED asked

(* Deviation: the answer is SW_OK alone, and always fits.                  *)
SignTxMoreAcknowledged(c) ==
  /\ StoreChunk(c)
  /\ c.p2 = P2_MORE
  /\ ctx' = Stored(c)
  /\ Answer(Status("SW_OK"))
  /\ NoDisplay

SignTxMore(c) ==
  /\ StoreChunk(c)
  /\ c.p2 = P2_MORE
  /\ ctx' = Stored(c)
  /\ Answer(Echo(ctx'.raw_tx, ctx'.raw_tx_len))
  /\ NoDisplay

(* The last chunk: parse what was received and display it for review.      *)
SignTxParsingFails(c) ==
  /\ StoreChunk(c)
  /\ c.p2 = P2_LAST
  /\ ctx' = Stored(c)
  /\ LET status == Deserialize(ctx'.raw_tx).status
     IN  /\ status # PARSING_OK
         /\ Answer(ParsingFailure(status))
  /\ NoDisplay

SignTxReview(c) ==
  /\ StoreChunk(c)
  /\ c.p2 = P2_LAST
  /\ ctx' = [Stored(c) EXCEPT !.state = "STATE_PARSED"]
  /\ LET parsed == Deserialize(ctx'.raw_tx)
     IN  /\ parsed.status = PARSING_OK
         /\ Display(IF parsed.type = "CUSTOM" THEN "custom" ELSE "transaction")

(* One turn of the loop of app_main.                                       *)
Handle(c) ==
  \/ ReceiveRefused(c)
  \/ GetInformation(c)
  \/ GetPublicKey(c)
  \/ SignTxStart(c)
  \/ SignTxRefuse(c)
  \/ SignTxMore(c)
  \/ SignTxParsingFails(c)
  \/ SignTxReview(c)

Receive ==
  \/ ReceiveMalformed
  \/ \E c \in Commands : Handle(c)

-----------------------------------------------------------------------------
(* Start and end of the application.  RAM does not survive, N_storage does.*)
NothingShown == [path |-> NoPath, pk |-> NoPath, raw |-> <<>>]

Init ==
  /\ app = "off"
  /\ nvm \in {"blank", "initialized"}
  /\ cmd = ZeroCommand
  /\ ctx = ZeroContext
  /\ screen = "menu" /\ asking = FALSE
  /\ io = "RECEIVED" /\ async = FALSE
  /\ awaiting = FALSE /\ sent = NoReply /\ kept = NoReply
  /\ asked = NoPath /\ upload = <<>> /\ shown = NothingShown

(* io_init, ui_menu_main, the reset of the context, io_recv_command.       *)
Reset ==
  /\ cmd' = ZeroCommand
  /\ ctx' = ZeroContext
  /\ screen' = "menu" /\ asking' = FALSE
  /\ Transmit(NoReply)
  /\ asked' = NoPath /\ upload' = <<>> /\ shown' = NothingShown

Start ==
  /\ app # "running"
  /\ app' = "running"
  /\ nvm' = "initialized"
  /\ Reset

(* The application is gone, and with it the reply the host awaits.         *)
Stop ==
  /\ app' = "off"
  /\ UNCHANGED nvm
  /\ Reset

PowerLoss ==
  /\ app # "off"
  /\ Stop
=============================================================================
