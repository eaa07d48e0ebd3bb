# Verification of the Phantasma Ledger application

TLA+ models of the Phantasma application for Ledger devices (`src/` of this
repository), the TLC configurations that check them, and TLAPS proofs.
Paths below are relative to the application's sources, e.g. `handler/sign_tx.c`.

## 1. The system

The application is one thread. `app_main` blocks in `io_recv_command`; while it
is blocked, `io_exchange` runs the callbacks of buttons or touch; once a command
(APDU) has arrived its handler runs to the end. Host and user therefore interleave
only at whole commands and whole callbacks, but they do so freely, and they share
one context (`G_context`), one display and one reply.

| Component | State | Operations | Interacts with |
| --- | --- | --- | --- |
| event loop, `app_main.c` | `cmd`, `N_storage` | start, receive, reject malformed bytes, return | SDK, dispatcher |
| dispatcher, `apdu/dispatcher.c` | none | refuse, or call a handler | handlers |
| `handler/get_version.c`, `get_app_name.c` | none | reply | SDK |
| `handler/get_public_key.c` | `G_context` | clear, read path, derive, reply or display; variant for the menu | crypto, UI |
| `handler/sign_tx.c` | `G_context.tx_info` | chunk 0: clear, read path; later chunks: store, echo; last chunk: parse, display | parser, UI |
| parser, `transaction/deserialize.c` | `transaction_t`, cursors | fields, script, two look-aheads, listing of arguments | handler, UI |
| serializer, `transaction/serialize.c` | none | serialize (unit tests) | parser |
| UI, BAGL: `ui/menu_bagl.c`, `ui/bagl_display.c` | current flow, display buffers | menus, three review flows | validate, `G_context` |
| UI, NBGL: `ui/menu_nbgl.c`, `ui/nbgl_display_*.c` | current page, display buffers | home, settings, reviews, question, status pages | validate, `G_context` |
| decisions, `ui/action/validate.c` | `G_context.state` | approve, reject: reply from a callback | crypto, SDK |
| `crypto.c` | exception context | derive, key, sign | SDK |
| SDK reply state machine (not in the repository) | `G_io_state`, `G_output_len` | `io_recv_command`, `io_send_*` | everything that replies |
| `address.c`, `transaction/utils.c` | none | base58; memo (unused) | UI |
| test client, `tests/application_client` | the call and its next message | split, number, exchange, raise | event loop |

What makes it hard:

* The approval signs what the context holds *then*, with the path it holds
  *then*. Commands, refused commands and the menu all write the context, and key
  and transaction share a union.
* A reply is sent by a handler or, later, by a callback. The SDK's state machine
  (READY, RECEIVED, WAITING) decides whether a second reply is sent, kept or makes
  `app_main` return.
* The display functions copy fields into static buffers that reviews share; a
  request that fails half-way leaves an earlier review on the display.
* A failure in `crypto.c` is tested by some callers and ignored by others, and
  leaves secrets and the SDK's exception context behind in different ways.
* A host that times out sends its next command while a review is displayed.
* The parser looks ahead over the script by other rules than those it reads it
  with, ignores most failures of its own functions, and counts in eight bits.

What makes each part correct:

| Part | Properties |
| --- | --- |
| event loop, dispatcher, replies | every command gets one reply (`CommandAnswered`), none is sent for a request that is over (`PendingReview`, `NoOrphanReview`), the loop does not return (`NeverReturns`) |
| GET_PUBLIC_KEY | the key is that of the path asked for (`KeyIsOfRequestedPath`) |
| SIGN_TX | `raw_tx` is what was uploaded, in order (`UploadIntegrity`), and never more than it holds (`TypeOK`) |
| reviews and decisions | a signature that answers its request is of what was reviewed (`SignedWhatWasReviewed`), once, after an approval (`SignatureNeedsApproval`) |
| all of these together | a command is answered at once or by the review of that command, and a decision its host awaits hands out what was reviewed (`ImplementsWallet`) |
| parser | ends (`Terminates`) and reads nothing twice (`AlwaysForward`), stays inside its buffers (`OffsetsInside`, `OutputFits`), yields what the wallet built (`ParsesWhatWasBuilt`), of lengths the review can rely on (`FieldsAreBounded`) |
| parser and serializer | an accepted transaction serializes to the bytes it was parsed from, or to fewer (`RoundTrips`) |
| display buffers | a page shows the field it announces, of this request, up to its first NUL (`PageShowsItsField`); the decision is that of the review it ends (`CallbackFitsReview`); nobody approves without having been on the page of every field (`ApprovedAllPagesSeen`) |
| `crypto.c` and its callers | no secret outlives its operation (`SecretsAreErased`); nothing is sent after a failed call, and what is sent belongs to the path (`AnswerIsOfRequestedKey`, `MenuShowsNoOtherKey`); what becomes of the exception context (`ContextIsLostForGood`) |
| test client with the device | a call returns what it was made for (`CallGetsItsAnswer`), ends (`CallsEnd`), and reviews only what could be echoed (`OnlyEchoedTransactionsSign`) |

## 2. Modules

| Module | Models |
| --- | --- |
| `Device` | event loop, dispatcher, handlers, context, SDK reply state machine, start and power loss |
| `Screens` | EXTENDS `Device` with the user: both UIs, decisions, `Next`, `Spec`, fairness, properties |
| `Wallet` | abstract specification: request, review, decision, one answer |
| `ScreensWallet` | EXTENDS `Screens` with the refinement mapping to `Wallet` |
| `Host` | EXTENDS `Screens` with the test client: composition of client, device and user |
| `Display` | the display functions, their buffers, the pages of both UIs, what is read before a decision |
| `Crypto` | every call into the cryptographic library and what its callers do with the result |
| `TxParser` | `transaction_deserialize` on bytes, its properties |
| `TxFormat` | `transaction_serialize`, and scripts as wallets build them; what relates them to the parser |
| `Claims`, `ParserClaims` | statements of comments, documents and tests that the code refutes |
| `MCScreens`, `MCHost`, `MCDisplay`, `MCCrypto`, `MCTxParser` | instances for TLC |
| `ScreensProofs`, `WalletProofs`, `HostProofs`, `DisplayProofs`, `CryptoProofs`, `TxParserProofs` | proofs |
| `TxFormatProofs` | proofs about lengths, texts and fields as they are written and read; EXTENDS `TxParserProofs` |
| `TxBuiltProofs` | proof that what a wallet built is parsed as it was meant; EXTENDS `TxFormatProofs` |

### Device and Screens

An action of `Device` is one turn of the loop: receipt of a command, its handler to
the end, the reply (or its deferral), and the next wait. An action of `Screens` is
one callback. The correspondence:

| Variable | Code |
| --- | --- |
| `ctx` | `G_context`; `raw_tx` as the sequence of chunks stored, `raw_tx_len` their size |
| `cmd`, `nvm`, `app` | `cmd` of `app_main`, `N_storage`, whether the application runs |
| `screen`, `asking` | what is displayed; NBGL's question over it |
| `io`, `async`, `sent`, `awaiting` | `G_io_state`, the flag of the current wait, the reply at the host |
| `kept` | the reply that a callback left in `G_io_apdu_buffer` (`G_output_len`) |
| `asked`, `upload`, `shown` | history: last path sent, chunks stored, what the last review showed |

The handlers' guards are in the order of the code: `Refusal` is the dispatcher,
`SignTxRefuse`, `SignTxMore`, `SignTxParsingFails` and `SignTxReview` are the four
ends of `handler_sign_tx` for a later chunk. `Answer`, `Defer` and `CallbackReply`
are the three ways a reply reaches the SDK and are taken from how the loop, the
handlers and the callbacks use it (external). A reply that nobody awaits stays in the
buffer with its bytes; the next handler that defers has it transmitted (`Leftover`,
`stale`), the next that answers makes the loop end. Data are names: a path is a model
value, and a key or a signature is named by the path and the bytes it belongs to.
`transaction_deserialize` is the constant operator `Deserialize`, so the
proofs hold for every parser. A derivation, the formatting of a path and a
signature succeed or fail here; how is in `Crypto` and `Display`.

The union of `pk_info` and `raw_tx` appears as `RequestContext`: whoever writes one
of the two has cleared both. A late approval of an address may still send the bytes of a
transaction that was uploaded since (`KeyBytes`). `ShowMenuAddressInPlace`, which does not, is a
deviation that the properties detect.

Branches that no state reaches are left out: `SW_BAD_STATE` in the three display
functions (each caller has just set the state they test), the failure of
`address_from_pubkey` (34 bytes always fit), and that of `buffer_move` after the
test of `sign_tx.c:53`.

### Wallet

`Wallet` says what host and user are promised and nothing of contexts, screens or
the SDK. A command hands over a path or a chunk; it is answered or becomes a review;
a decision is answered. In the mapping of `ScreensWallet` a review is one on the
display, `awaited` while the host awaits its outcome; status words and echoes are one
plain reply. To a host that gives a review up and goes on, `Wallet` promises less
(`DecidedLate`): the page stays, its approval is of the path and the chunks handed over
*last*, reviewed or not, and the outcome (`late`) either goes out with the next review,
as the reply to that command, or ends the application.

### Host

A call of `BoilerplateCommandSender` is one message, or for `sign_tx` the path and
then the pieces of `split_message`, numbered from 1 without regard to `P1_MAX`. An
`Exchange` is a command of `Device`; a reply other than `SW_OK` raises, and if the
device defers its reply the client waits until a step of the user or of power
answers. `messages[-1]` of an empty transaction raises. `get_app_and_version` is
left out: another application answers it.

### Display

An action is one display function, one button or touch, or one page. The variables
are those of the C files: the static buffers, `g_validate_callback`, `pairs` and
`pairList` with `nbPairs` and `nbMaxLinesForValue`; `page` is the step of a BAGL flow, or
NBGL's start page, the pairs one by one, and the page to sign on. NBGL shows an address
without the list.

A text is the request and field it is of, its length, the bytes before its first NUL, and
how many bytes fit on one line: enough to tell a field from another, a whole one from a
cut one, and a fresh one from the remains of a longer one (`behind`, which `memset`
clears). The parser accepts any byte, so a NUL may be anywhere in a field of the
transaction; only what the device formats itself (path, address, lengths) has none. What
is printed (`Printed`) ends at the first NUL, in the text or behind it; a buffer
that is full has none, and what follows it is read, too. The custom review of NBGL limits
each value to one line (`Visible`).

`output_args` points at an array of a function that has returned; what is copied is
either its text or whatever the stack holds. After a copy that leaves its
buffer only a restart follows. Titles of both interfaces have the words of BAGL. NBGL's question before a
rejection is in `Screens`, and so is when a request may come; here it may come at any
time. The menus are not part: their address has a buffer of its own, static in
`menu_bagl.c` and `menu_nbgl.c`.

### Crypto

An action is one library call with the code up to the next; `pc` names it. Keys,
seeds and signatures are named by their path. `caller` is the command, the menu
or the signature, which differ in what they do when a call fails: reply, show what
the context holds, go on. `MayReturn` gives the results of each call; only
`cx_ecfp_init_public_key_no_throw` may fail in a way nobody tests, since `crypto.c:73`
compares with `INVALID_PARAMETER`, another constant than `CX_INVALID_PARAMETER`. A
`return` inside `TRY` skips `FINALLY` and `END_TRY`: the SDK's pointer to the exception
context is then `"dead"`, and the seed stays in the frame (`left`). External are the
exceptions themselves and the library: a key that was not initialized cannot sign,
and `cx_ecfp_generate_pair_no_throw` sets up the public key by itself.

### TxParser

An action is one instruction of the script or one field of the transaction, with
everything the C function does to its cursors when it fails, because the callers go
on from there. `pc` is the read that comes next; `count` and `interop` are the
look-aheads `get_number_of_args_contract` and `is_interop`, which run on a copy
of the cursor (`scan`). Opcodes, limits and the eight-bit count are the real ones.
Fields are slices of `raw`, as the pointers and lengths of `transaction_t` are.
`ignored` is a history of failures a caller ignored.

Where the program writes or reads outside an array the model goes to `overrun` and
ends: nothing can be said of what follows. Left out: the opcode, register and type
of a load, which nobody reads, and the rest of a refused field. A varint that needs
a third byte is 65536, since it is only compared with smaller limits. The SDK's
`buffer_*` and `varint_*` functions are external, as are the wallet's script
builder and `Transaction.toString`.

## 3. Runs

| Run | Shows |
| --- | --- |
| `MCBagl` | button interface, waiting host, every command the dispatcher tells apart: all properties of `Screens`, the refinement of `Wallet`, liveness |
| `MCNbgl` | the same of the touch interface, longer uploads, one command of each kind |
| `MCRetry` | a host that gives up on a reply and goes on: the properties that survive it, and what is left of `Wallet`'s promise to such a host |
| `MCHost` | the test client with the device and the user: what its calls return, that they end |
| `MCDisplay` | both interfaces, requests of every kind one after another: pages, callback, approval |
| `MCCrypto` | every library call succeeding and failing, in any sequence of operations |
| `MCParser` | what wallets build is displayed as they described it; for these and for damaged transactions: types, cursors, output, lengths, round trip, no step back, termination |
| `Claim*` | one statement each that the code does not keep (section 6) |

`MCNbgl` and `MCRetry` do not repeat `TypeOK` and `KeyIsOfRequestedPath`, nor `MCNbgl`
`NoOrphanReview` and `NeverReturns`, nor `MCRetry` `UploadIntegrity` and
`SignatureNeedsApproval`: the theorems of section 4 hold for both interfaces and any host.

Properties of `Screens`: `PendingReview` (the host waits iff a callback is to reply,
and the review on display is that of this request), `SignedWhatWasReviewed`,
`UploadIntegrity`, `KeyIsOfRequestedPath`, `NoOrphanReview`, `NeverReturns`,
`SignatureNeedsApproval` (action property), `CommandAnswered` (liveness).
Of the parser: `OffsetsInside`, `OutputFits`, `FieldsAreBounded`, `ParsesWhatWasBuilt`,
`RoundTrips`, `AlwaysForward` (action property), `Terminates` (liveness). Those of `Display`, `Crypto` and `Host` are in the table of section 1.
One type invariant each.

**Bounds.** `Screens`: two valid paths, one of them too long for BAGL's buffer, one
refused; three chunk contents of sizes 1 and 2; a buffer of 3 or 4, so that it can be
filled exactly, missed by one and overfilled; a response buffer smaller than that, so
that the echo fails before the upload does. Commands and touches are not counted:
the state space is finite and explored completely. Paths and chunks
are only compared, so more of them add no case.
`TxParser`: about 90 transactions of both types with empty, short and long texts and
with texts that are opcodes, zero to four arguments, and lengths around the 240 bytes
of the listing; one field at each limit and one beyond; every prefix of a
transaction and of both scripts, and every byte of both scripts replaced by six
values (four opcodes, 0 and 255); lengths written in more bytes than they need. What
wallets build keeps to `BuiltAssumption`, which TLC evaluates on them.
`Host`: sizes are scaled by 128, so that a full message is 2, a response holds
one and `raw_tx` four; transactions of no, one and up to five messages, complete and not:
one too long for the echo, one for `raw_tx` and for `P1_MAX`.
`Display`: ten requests with fields that are short, one byte less than their buffer,
as long as it, longer, and of the 255 bytes the parser lets through; with a NUL at the
start or in the middle of a field, before and behind the end of a line; with fields
of more than a line.
`Crypto`: two paths and the menu's; of the codes a caller treats alike, one or two.

**Fairness.** `FairSpec` of `Screens` assumes that a user who is shown a review
turns its pages (weak fairness) and, offered decisions again and again, takes one (strong
fairness: NBGL's question can be opened and left for ever). Nothing is
assumed of the host or of power; handlers run to the end inside one action.
`FairSpec` of `TxParser` says that a function once called is executed.
`FairHostSpec` adds to the user's fairness that the client, a sequential program, sends
its next message or raises (weak fairness); whether it makes another call is its own
affair. `Display` and `Crypto` have no liveness.

`MCRetry` has no liveness and not `NoOrphanReview` and `NeverReturns`: with such
a host a review can outlive its request, and a decision taken then puts the SDK in
READY, so that the next handler's reply fails and `app_main` returns, or the next
deferral transmits what the decision left. What that decision signs need not be what
was reviewed: with transaction A on the display, the host may start and upload B with
`P2_MORE`, and the approval of A's page signs B (`validate.c:44`). `SignedWhatWasReviewed`
and `KeyIsOfRequestedPath` therefore speak of replies that answer their own request (with a
host that waits, all of them; otherwise those not `stale`); what a late decision may
do is `DecidedLate` in `Wallet`, and `ClaimConfirmed` shows that it does it. Keys
in this case are covered by `ImplementsWallet`, which the run checks, and by the theorem.

Deadlock is checked in every run: the device can always be switched on again, and a
parser that has ended repeats its last state (`Returned`), so that one that is stuck
in the middle of a script is a deadlock. An operation of `Crypto` whose next call
has no result left would be one, too.

## 4. Proofs

`ScreensProofs` proves, from the assumptions stated in `Device` (paths, sizes and
commands are of their kinds, the parser returns a status and a type), for every
value of the constants: `TypeOK`, `PendingReview`, `SignedWhatWasReviewed`,
`UploadIntegrity`, `KeyIsOfRequestedPath`, `NoOrphanReview` with `NeverReturns`,
and `SignatureNeedsApproval`. The inductive invariant is `TypeInv /\ SafeInv`:

* `SizeInv`, `TypeInv`: `raw_tx_len` is the sum of sizes that was tested.
* `LoopInv`: while the loop blocks, which states of the SDK are possible after a
  plain and after an asynchronous wait. Needed because `PendingReview` alone does
  not say what a handler will find when it replies.
* `ReviewInv`: as long as a callback is to reply, the review stands, the context is the
  one shown, and it was parsed. This makes approval safe: any handler or menu
  that writes the context first has ended the wait or left the review.
* `AskingInv`: the question lies on a transaction review only.

There is one lemma per kind of step (answered command, displayed command, page
turned, decision, reset), and one case per action.

`TxParserProofs` proves `ParserTypeOK`, `OffsetsInside` and `OutputFits` for every
set of byte sequences, of any length. The inductive invariant adds to them
that the script's cursors are at 0 until the script is known, that `ix` is below
`args_len` while arguments are read, and that one byte more than the NUL is free
until the listing ends (without it the comma could take the NUL's place).

It also proves, of every set of byte sequences:

* `AlwaysForward` (`NoStepLeadsBack`): every step leads to a later `Stage` (the call,
  then the part of it) or keeps the stage and takes one of the `Turns` that are left of
  its loop. Stages are bounded and turns are natural numbers, so this is the argument
  for termination short of the fairness. Besides `Inv` it needs `OrderInv`: `is_interop`
  is asked behind the first call only. The look-ahead has its bytes left as turns,
  `read_method_args` two for each argument, the listing its index.
* `FieldsAreBounded` (`DisplayedIsBounded`): `LimitInv` carries the limits of the header
  from the field where they were tested to the end; `ShortInv` says that every slice of
  every call, read or not, begins inside the transaction and has at most 255 bytes,
  because a load that is there lies in the script and states its length in one byte.

`TxFormatProofs` proves that what is written is read, and for every transaction:

* `RoundTrips` (`AcceptedRoundTrips`): `HeaderInv` follows the cursor over the fields:
  each begins at least the shortest form of its length behind the one before, and where
  it begins exactly there, that form stands before it. Hence the serialized
  transaction is as long as what was read, and the same bytes, or shorter.
* `RoomFallsShort`: what `transaction_serialize` writes exceeds the `max_len` that it
  compares with `out_len` by the payload and five bytes, and by two more behind a script of
  253 bytes or more.

`TxBuiltProofs` proves `ParsesWhatWasBuilt` (`BuiltIsParsed`) for every set of
descriptions that `BuiltAssumption` allows: any texts a load can state, four arguments
of a transfer and up to four of another call, within the limits of header and
transaction. Scripts and listings are recursive functions of the number of
arguments; their equations are unfolded once (`PushedUnfolds`, `ListingUnfolds`) with
an induction over sets of numbers (`NumbersByInduction`, from the well-foundedness of
their order). The inductive invariant, `BuiltInv`, relates the parser's state to the
script that was built: the header's fields are the wallet's, the calls behind the cursor
were read as they were described, the cursor stands at the instruction that `pc` and `ix`
name, the look-ahead stands at an instruction of the same call with as many loads
counted as lie before it, and the listing has the arguments from the last to the
present one, as far as there is room. That the look-ahead, which knows nothing of calls,
stops at the end of the right one is where this needs the whole script.

`WalletProofs` proves that `Screens` implements `Wallet` (`WalletImplemented`), for any
host, parser and interface: the initial states map to `Wallet`'s, and under the
invariant of `ScreensProofs` every action maps to the one of `Wallet` it is meant for or to
a stutter. The invariant is needed where a reply is deferred (`LoopInv`: the wait
that begins is the one the review answers) and where a decision is taken (`ReviewInv`: the
context that is signed is the mapped review). For the late decisions it is strengthened by
`LateInv`: while a page of a review is shown the context holds the path last asked for,
a transaction that is none or the upload and a key that is none or that path's, and an
answer still owed is owed in WAITING (`PageInv`); in READY the kept reply is a callback's,
with nothing written over it yet (`KeptInv`); the union of the context holds a transaction
or a key, never both (`UnionInv`).

`HostProofs` proves that every behaviour with the client is one of `Screens`
(`HostKeepsToScreens`), so that all the theorems above hold with it, and from them that
a call that returns has what it was made for (`CallGetsItsAnswerHolds`) and that
what is reviewed is not longer than a response and one message (`EchoBoundsTransactions`).
The inductive invariant: `MessagesStored` (unless the menu or a restart took the
context, it holds the call's path and the messages sent so far, and before the next
message what was echoed fits a response) and `CallUnderReview` (the client waits iff
the device does, for the review of this call).

`DisplayProofs` proves `PageShowsItsField`, `CallbackFitsReview` and `ApprovedAllPagesSeen`
for every set of requests (`PagesShowTheirFields`, `CallbackFits`, `ApprovedIsSeen`), and
from its inductive invariant the types (`DisplayTypes`). The invariant:

* `PageOfReview`: the page is one of the review's; BAGL's callback is of its kind.
* `PairsListed`: after NBGL's start page `pairs` begins with the list of the kind,
  `nbPairs` is its length and the limit of lines its own; pairs left over lie behind.
* `BuffersFilled`: the buffers of the kind hold the texts of the request, nothing behind
  them, except those of the arguments; a path that a failed request cleared is empty.
* `PagesRead`: all pages up to the present one have been read; the last of them
  but the decision is thus enough for an approval to have been on all.

Neither says that a field is shown whole: it is not, if there is a NUL in it or, in
NBGL's custom review, if it is longer than a line. Both leave out the arguments of a custom
transaction, whose memory is gone when they are copied.

`CryptoProofs` proves the five invariants of `Crypto` for all sets of paths and every
`MayReturn` that keeps to the tested codes except in the one call. The inductive
invariant relates `pc` to what key, seed and public key hold (`Progress`: a failed
operation has ended, or goes on to sign with a key that is zero) and to the exception
context (`Contexts`).

Only model-checked: `CommandAnswered`, `CallsEnd` and `Terminates`, which are liveness
under fairness, and the five claims of section 6, which TLC refutes.

## 5. Not modelled

* The digits of `address.c`: only the length of its result. `transaction/utils.c` is
  two pure functions that nothing calls.
* The SDK and the cryptographic library beyond what the code shows of them, among it
  what an exception does once the context is lost.
* What a write outside an array, a buffer or a context that is gone leads to.
* The composition of `Display` with the parser: its requests have fields of any length,
  of which the parser yields those that `FieldsAreBounded` leaves.
* `get_app_and_version` and the transports of the test client.
* Build files, fuzzing harness, glyphs, snapshots.

## 6. Where code and text disagree

Each is a run that TLC refutes (PROJECT.json, "findings"):

* `RefusedPathNeverSigns`: a refused path does not end the request; chunks that
  follow are reviewed and signed with what was read of it (`sign_tx.c:44`).
* `ConfirmedIsSigned`: "ask confirmation to sign" (`ui/display.h:19`), but the approval of a
  review that its host gave up signs what was uploaded since (`validate.c:44`).
* `OkMeansEverythingWasRead`: `PARSING_OK` for scripts that were not read.
* `ArgumentsFitTheirArray`: a functional test sends nine arguments to an array of four.
* `FieldsFitTheirBuffers`: fields of up to 255 bytes are copied into 10, 16, 30 or 64.

Without a run, because no text says otherwise or because a sentence suffices:

* A field with a NUL in it, or in NBGL's custom review one longer than a line, is approved
  without its end having been displayed (`bagl_display.c:224`,
  `nbgl_display_transaction.c:172`).
* The page after an approval says "TRANSACTION SIGNED" also when the signature failed
  (`nbgl_display_transaction.c:77`).
* Once what was received outgrows a response, a chunk is stored and then answered with an
  error (`sign_tx.c:67`, `:69`): `OnlyEchoedTransactionsSign` says what follows for a client.
* `STATE_APPROVED` stays while further chunks are stored (`types.h:26`, `sign_tx.c:61`). A
  review of the longer transaction is needed before it is signed.
* `transaction_serialize` compares `out_len` with less than it writes (`serialize.c:30`):
  `RoomFallsShort` says by how much.
* `crypto.c:73` tests `INVALID_PARAMETER` where its neighbours test `CX_INVALID_PARAMETER`.
* `crypto.c:42`, `:51`, `:52` return from inside `TRY`: `ContextIsLostForGood` and
  `SecretsAreErased` state what is left behind.
* `APP_SPECIFICATION.md:71` lets P1 be any chunk index while `dispatcher.c:70` refuses more
  than 3, and `doc/COMMANDS.md:60` has the two values of P2 the wrong way round.

## 7. Plan

1. Done: `Device`, `Screens`, `TxParser`, `TxFormat`, their runs and first proofs.
2. Done: `Wallet` and the refinement; `Display`; `Host`; `Crypto`; all with proofs.
3. Done: the parser's theorems: bounds, round trip, what was built, no step back.
4. Next: `Display` composed with `TxParser`, so that its requests are exactly those the
   parser yields and their bounds follow from `DisplayedIsBounded`; and `OffsetsInside`
   for the reads of the display functions, which may go 255 bytes beyond the end.
