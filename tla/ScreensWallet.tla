---------------------------- MODULE ScreensWallet ----------------------------
(***************************************************************************)
(* Screens implements Wallet: the refinement mapping.  A review of Wallet  *)
(* is a review on the display; it is awaited while the host awaits a reply.*)
(* The outcome of a review that was given up is the reply its callback left*)
(* in the buffer.                                                          *)
(***************************************************************************)
EXTENDS Screens

Running == app = "running"

(* The key or the transaction that the display function was given.         *)
ReviewOnDisplay ==
  IF screen \in TransactionReviews
  THEN [of |-> "transaction", path |-> shown.path, raw |-> shown.raw,
        awaited |-> awaiting]
  ELSE [of |-> "address", path |-> shown.pk, raw |-> <<>>, awaited |-> awaiting]

OpenReview ==
  IF Running /\ screen \in Reviews
  THEN ReviewOnDisplay
  ELSE [of |-> "none", path |-> NoPath, raw |-> <<>>, awaited |-> FALSE]

(* Of a reply, what Wallet speaks of: status words and echoes are plain.   *)
WalletReply(r) ==
  IF r.kind \in {"pubkey", "signature"}
  THEN [kind |-> r.kind, path |-> r.path, raw |-> r.raw, stale |-> r.stale]
  ELSE [kind |-> IF r.sw = "none" /\ ~r.stale THEN "silence" ELSE "status",
        path |-> NoPath, raw |-> <<>>, stale |-> r.stale]

HostReply == WalletReply(sent)

LateReply ==
  IF Running /\ Io = "READY" THEN WalletReply(kept) ELSE WalletReply(NoReply)

W == INSTANCE Wallet WITH
       Refused <- BadPaths, on <- Running, review <- OpenReview,
       reply <- HostReply, late <- LateReply

(* The application keeps the promise of Wallet: whatever host and user do, *)
(* commands are answered at once or through the review of that command, and*)
(* an awaited decision hands out the reviewed key or signature and nothing *)
(* else; of a review given up, the outcome concerns what was handed over   *)
(* last and reaches the host, if at all, with the next review              *)
(* (apdu/dispatcher.c, handler/*.c, ui/action/validate.c).                 *)
ImplementsWallet == W!Spec
=============================================================================
