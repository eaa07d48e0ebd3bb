------------------------------- MODULE Claims -------------------------------
(***************************************************************************)
(* What comments, documents and messages of the repository say of the      *)
(* application of module Screens, and the code does not do.  Each claim is *)
(* stated as its source puts it and is violated by a run of its own.       *)
(***************************************************************************)
EXTENDS Screens

(* handler/sign_tx.h:9: "If successfully parse BIP32 path and transaction,*)
(* sign transaction": nothing is signed for a path that was refused.       *)
RefusedPathNeverSigns ==
  sent.kind = "signature" => sent.path \in Paths

(* ui/display.h:19: "Display transaction information on the device and ask *)
(* confirmation to sign.": what a confirmation has signed is the           *)
(* transaction displayed, also when the host gave up on it and went on with*)
(* another upload (validate.c:44 signs what the context holds by then).    *)
ConfirmedIsSigned ==
  kept.kind = "signature" => kept.raw = shown.raw /\ kept.path = shown.path
=============================================================================
