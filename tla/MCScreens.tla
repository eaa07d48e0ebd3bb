----------------------------- MODULE MCScreens -----------------------------
(***************************************************************************)
(* Instances of Screens for TLC.  A chunk is a name: "head" opens a        *)
(* transaction, "transfer" and "custom" complete it, "tail" is one more    *)
(* byte that transaction_deserialize ignores after a complete transaction. *)
(***************************************************************************)
EXTENDS Claims, ScreensWallet

MCPaths     == {"path", "long"}
MCLongPaths == {"long"}
MCBadPaths  == {"short"}
MCChunks    == {"head", "transfer", "custom"}
MCChunkSize == [c \in MCChunks |-> IF c = "head" THEN 2 ELSE 1]

(* Trailing bytes are ignored; an incomplete transaction is refused with   *)
(* NEXUS_OVERFLOW_ERROR (0xF01) or SCRIPT_PARSING_ERROR (0xD2).            *)
MCDeserialize(raw) ==
  IF Len(raw) >= 2 /\ raw[1] = "head" /\ raw[2] # "head"
  THEN [status |-> 1, type |-> IF raw[2] = "custom" THEN "CUSTOM" ELSE "TRANSFER"]
  ELSE [status |-> IF Len(raw) = 1 THEN 3841 ELSE 210, type |-> "TRANSFER"]

APDU(ins, p1, p2, data) ==
  [cla |-> CLA, ins |-> ins, p1 |-> p1, p2 |-> p2, data |-> data]

(* Everything the dispatcher and the handlers tell apart.                  *)
MCAllCommands ==
  LET info   == {APDU(GET_VERSION, 0, 0, "none"), APDU(GET_APP_NAME, 0, 0, "none")}
      keys   == {APDU(GET_PUBLIC_KEY, p1, 0, d) : p1 \in {0, 1}, d \in {"path", "long", "short"}}
      starts == {APDU(SIGN_TX, 0, P2_MORE, d) : d \in {"path", "short"}}
      chunks == {APDU(SIGN_TX, 1, P2_MORE, "head"),
                 APDU(SIGN_TX, P1_MAX, P2_MORE, "transfer"),
                 APDU(SIGN_TX, P1_MAX, P2_LAST, "transfer"),
                 APDU(SIGN_TX, P1_MAX, P2_LAST, "custom")}
      bad    == {[APDU(SIGN_TX, 1, 0, "head") EXCEPT !.cla = 176],
                 APDU(9, 0, 0, "none"),
                 APDU(GET_VERSION, 1, 0, "none"),
                 APDU(GET_PUBLIC_KEY, 2, 0, "path"),
                 APDU(GET_PUBLIC_KEY, 0, 0, "none"),
                 APDU(SIGN_TX, 0, P2_LAST, "path"),
                 APDU(SIGN_TX, P1_MAX + 1, P2_LAST, "transfer"),
                 APDU(SIGN_TX, 1, 1, "head"),
                 APDU(SIGN_TX, 1, P2_LAST, "none")}
  IN  info \cup keys \cup starts \cup chunks \cup bad

(* One command of each kind, for the runs that explore long uploads.       *)
MCCommands ==
  {APDU(GET_VERSION, 0, 0, "none"),
   APDU(GET_VERSION, 1, 0, "none"),
   APDU(GET_PUBLIC_KEY, 0, 0, "path"),
   APDU(GET_PUBLIC_KEY, 0, 0, "short"),
   APDU(GET_PUBLIC_KEY, 1, 0, "path"),
   APDU(SIGN_TX, 0, P2_MORE, "path"),
   APDU(SIGN_TX, 0, P2_MORE, "short"),
   APDU(SIGN_TX, 1, P2_MORE, "head"),
   APDU(SIGN_TX, 2, P2_MORE, "transfer"),
   APDU(SIGN_TX, 3, P2_LAST, "transfer"),
   APDU(SIGN_TX, 3, P2_LAST, "custom")}

(* A host that gives up may send any of these at any time.                 *)
MCRetryCommands ==
  {APDU(GET_VERSION, 0, 0, "none"),
   APDU(GET_PUBLIC_KEY, 0, 0, "short"),
   APDU(GET_PUBLIC_KEY, 1, 0, "path"),
   APDU(SIGN_TX, 0, P2_MORE, "path"),
   APDU(SIGN_TX, 0, P2_MORE, "short"),
   APDU(SIGN_TX, 1, P2_MORE, "head"),
   APDU(SIGN_TX, 2, P2_MORE, "transfer"),
   APDU(SIGN_TX, 3, P2_LAST, "transfer")}
=============================================================================
