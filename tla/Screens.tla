------------------------------ MODULE Screens ------------------------------
(***************************************************************************)
(* The user's side of the application, closed with the command side of     *)
(* Device: what the display shows, and the callbacks that buttons and touch*)
(* run inside io_exchange.  Two user interfaces exist, chosen at compile   *)
(* time: BAGL (ui/menu_bagl.c, ui/bagl_display.c: flows of pages, walked   *)
(* with two buttons) and NBGL (ui/menu_nbgl.c, ui/nbgl_display_*.c: touch).*)
(* A BAGL flow is one screen, since all its pages, "Approve" and "Reject"  *)
(* among them, can be reached without a callback of the application.       *)
(***************************************************************************)
EXTENDS Device

AddressReviews     == {"address", "address_choice"}
TransactionReviews == {"transaction", "custom",
                       "transaction_details", "custom_details"}
Reviews  == AddressReviews \cup TransactionReviews
StatusPages == {"address_verified", "address_cancelled",
                  "transaction_signed", "transaction_rejected"}
MenuScreens == {"menu", "about", "menu_address"}

(* The pages of a review that offer the user to approve.                   *)
OffersApproval ==
  IF Nbgl THEN {"address_choice", "transaction_details", "custom_details"}
          ELSE {"address", "transaction", "custom"}

-----------------------------------------------------------------------------
(* Moving between screens.                                                 *)
Touches ==
  /\ app = "running"
  /\ UNCHANGED <<nvm, cmd, histVars>>

NoReplySent == UNCHANGED <<app, io, async, awaiting, sent, kept>>

Browse(from, to) ==
  /\ Touches
  /\ screen = from /\ ~asking
  /\ screen' = to
  /\ NoReplySent
  /\ UNCHANGED <<ctx, asking>>

(* ui_menu_about, ui_menu_main from the submenus, and the status pages of  *)
(* NBGL, which end in ui_menu_main.                                        *)
OpenAbout == ~Nbgl /\ Browse("menu", "about")

BackToMenu ==
  \E s \in {"about", "menu_address"} \cup StatusPages : Browse(s, "menu")

(* Deviation: the menu's path and key are put into the context as it is.   *)
ShowMenuAddressInPlace ==
  /\ Touches
  /\ screen = "menu"
  /\ screen' = "menu_address"
  /\ ctx' = [ctx EXCEPT !.path = MenuPath, !.pk = MenuPath]
  /\ NoReplySent
  /\ UNCHANGED asking

(* ui_menu_pubkey and, on NBGL, the settings page (build_first_page): the  *)
(* context is taken for the address of the menu's own path.                *)
ShowMenuAddress ==
  /\ Touches
  /\ screen = "menu"
  /\ screen' = "menu_address"
  /\ \E pk \in {MenuPath, NoPath} :   \* NoPath: derivation failed, ignored
       ctx' = [RequestContext("CONFIRM_ADDRESS", MenuPath) EXCEPT !.pk = pk]
  /\ NoReplySent
  /\ UNCHANGED asking

(* os_sched_exit from the menu.                                            *)
Quit ==
  /\ app = "running"
  /\ screen = "menu"
  /\ Stop

(* NBGL: the start page of a review leads to its details (review_continue, *)
(* review_continue_custom, continue_review).                               *)
ContinueReview ==
  /\ Nbgl
  /\ \/ Browse("address", "address_choice")
     \/ Browse("transaction", "transaction_details")
     \/ Browse("custom", "custom_details")

(* NBGL: ask_transaction_rejection_confirmation and its two answers.       *)
AskRejection ==
  /\ Nbgl
  /\ Touches
  /\ screen \in TransactionReviews /\ ~asking
  /\ asking' = TRUE
  /\ NoReplySent
  /\ UNCHANGED <<ctx, screen>>

GoBackToTransaction ==
  /\ Touches
  /\ asking
  /\ asking' = FALSE
  /\ NoReplySent
  /\ UNCHANGED <<ctx, screen>>

-----------------------------------------------------------------------------
(* The decisions.  validate_pubkey and validate_transaction send the reply;*)
(* BAGL then shows the menu, NBGL a status page.                           *)
LeaveNothing(status) == UNCHANGED <<screen, asking>>   \* deviation

Leave(status) ==
  /\ screen' = (IF Nbgl THEN status ELSE "menu")
  /\ asking' = FALSE

ApproveAddress ==
  /\ Touches
  /\ screen \in AddressReviews \cap OffersApproval
  /\ CallbackReply(KeyBytes(ctx.pk, ctx.raw_tx))
  /\ Leave("address_verified")
  /\ UNCHANGED ctx

(* NBGL offers to cancel on both pages of the review.                      *)
RejectAddress ==
  /\ Touches
  /\ screen \in AddressReviews
  /\ CallbackReply(Status("SW_DENY"))
  /\ Leave("address_cancelled")
  /\ UNCHANGED ctx

(* Deviation: a failing signature is not reported.                         *)
ApproveTransactionSilentOnFailure ==
  /\ Touches
  /\ screen \in TransactionReviews \cap OffersApproval /\ ~asking
  /\ \/ /\ ctx' = [ctx EXCEPT !.state = "STATE_APPROVED"]
        /\ CallbackReply(Signature(ctx.path, ctx.raw_tx))
     \/ /\ ctx' = [ctx EXCEPT !.state = "STATE_NONE"]
        /\ NoReplySent
  /\ Leave("transaction_signed")

(* crypto_sign_message signs what the context holds now, with the key of   *)
(* the path it holds now; it fails when cx_eddsa_sign_no_throw does.       *)
ApproveTransaction ==
  /\ Touches
  /\ screen \in TransactionReviews \cap OffersApproval /\ ~asking
  /\ \/ /\ ctx' = [ctx EXCEPT !.state = "STATE_APPROVED"]
        /\ CallbackReply(Signature(ctx.path, ctx.raw_tx))
     \/ /\ ctx' = [ctx EXCEPT !.state = "STATE_NONE"]
        /\ CallbackReply(Status("SW_SIGNATURE_FAIL"))
  /\ Leave("transaction_signed")

(* Deviations: the rejection is not reported; the choice is the wrong way  *)
(* round.                                                                  *)
RejectTransactionSilently ==
  /\ Touches
  /\ screen \in TransactionReviews
  /\ Nbgl <=> asking
  /\ ctx' = [ctx EXCEPT !.state = "STATE_NONE"]
  /\ NoReplySent
  /\ Leave("transaction_rejected")

RejectTransactionBySigning ==
  /\ Touches
  /\ screen \in TransactionReviews
  /\ Nbgl <=> asking
  /\ ctx' = [ctx EXCEPT !.state = "STATE_APPROVED"]
  /\ CallbackReply(Signature(ctx.path, ctx.raw_tx))
  /\ Leave("transaction_rejected")

RejectTransaction ==
  /\ Touches
  /\ screen \in TransactionReviews
  /\ Nbgl <=> asking
  /\ ctx' = [ctx EXCEPT !.state = "STATE_NONE"]
  /\ CallbackReply(Status("SW_DENY"))
  /\ Leave("transaction_rejected")

Decide == ApproveAddress \/ RejectAddress \/ ApproveTransaction \/ RejectTransaction

Touch ==
  \/ OpenAbout \/ BackToMenu \/ ShowMenuAddress \/ Quit
  \/ ContinueReview \/ AskRejection \/ GoBackToTransaction
  \/ Decide

Next == Start \/ PowerLoss \/ Receive \/ Touch

Spec == Init /\ [][Next]_vars

(* A user who is shown a review looks through it and, sooner or later,     *)
(* takes one of the decisions it offers.  Nothing else is assumed: the host*)
(* may fall silent and the device may be switched off at any time.         *)
Fairness ==
  /\ WF_vars(ContinueReview \/ AskRejection)
  /\ SF_vars(Decide)

FairSpec == Spec /\ Fairness

-----------------------------------------------------------------------------
(* Type invariant.                                                         *)
TypeOK ==
  /\ app \in {"off", "running", "returned"}
  /\ nvm \in {"blank", "initialized"}
  /\ cmd \in CommandType
  /\ ctx \in ContextType
  /\ screen \in MenuScreens \cup Reviews \cup StatusPages
  /\ asking \in BOOLEAN
  /\ io \in {"READY", "RECEIVED", "WAITING"}
  /\ async \in BOOLEAN
  /\ awaiting \in BOOLEAN
  /\ sent \in ReplyType /\ kept \in ReplyType
  /\ asked \in KeptPaths
  /\ upload \in Seq(Chunks)
  /\ shown \in [path : KeptPaths, pk : KeptPaths, raw : Seq(Chunks)]

(* The host awaits a reply exactly when the reply state machine waits for a*)
(* callback to send it, and then the review of that very request is on the *)
(* display: a command is never left without an answer to come, and a reply *)
(* that a callback transmits answers the pending request.  (The page of a  *)
(* request that the host gave up stays on the display; the reply to it is  *)
(* kept, and goes out in place of the reply to a later command.)           *)
PendingReview ==
  app = "running" =>
    /\ awaiting <=> io = "WAITING"
    /\ awaiting => /\ screen \in Reviews
                   /\ shown = [path |-> ctx.path, pk |-> ctx.pk, raw |-> ctx.raw_tx]

(* A reply that belongs to the command it is transmitted for; to a host    *)
(* that awaits its replies, every reply has to.                            *)
Answers == HostWaits \/ ~sent.stale

(* A signature that answers the command of the host covers the bytes and   *)
(* uses the key of the transaction the user was last shown, and these are  *)
(* the chunks and the path the host sent: neither a visit to the menu, a   *)
(* refused chunk nor an earlier request slips anything else into it        *)
(* (sign_tx.c, validate.c).  A host that awaits its replies receives no    *)
(* other signature; one that gives up may, see Claims.                     *)
SignedWhatWasReviewed ==
  sent.kind = "signature" /\ Answers =>
    /\ sent.raw = shown.raw /\ sent.path = shown.path
    /\ sent.raw = upload    /\ sent.path = asked

(* While the context is taken for a transaction, it holds the chunks stored*)
(* since SIGN_TX was last started, in their order, and the path sent then. *)
UploadIntegrity ==
  ctx.req_type = "CONFIRM_TRANSACTION" => ctx.raw_tx = upload /\ ctx.path = asked

(* A public key that answers the command of the host is that of the path it*)
(* asked for, whatever the menu derived in between.                        *)
KeyIsOfRequestedPath ==
  sent.kind = "pubkey" /\ Answers => sent.path = asked /\ asked \in Paths

(* With a host that awaits its replies a review is on the display only     *)
(* while its request is pending: no decision is taken for nobody.          *)
NoOrphanReview ==
  HostWaits /\ app = "running" /\ screen \in Reviews => awaiting

(* With such a host app_main never returns: no handler finds the reply     *)
(* state machine in READY (app_main.c:87).                                 *)
NeverReturns ==
  HostWaits => app # "returned"

(* A signature answers a command only as the outcome of an approval in a   *)
(* transaction review, and the approval ends that review: one review       *)
(* yields one signature at most, a rejection none.                         *)
SignatureNeedsApproval ==
  [][sent'.kind = "signature" /\ Answers' /\ sent' # sent =>
       /\ screen \in TransactionReviews \cap OffersApproval /\ ~asking
       /\ screen' \notin Reviews
       /\ ctx.state = "STATE_PARSED" /\ ctx'.state = "STATE_APPROVED"]_vars

(* Every command is answered, unless the device is switched off: also the  *)
(* handlers that return without a reply get one from a callback.           *)
CommandAnswered == awaiting ~> ~awaiting
=============================================================================
