---------------------------- MODULE ParserClaims ----------------------------
(***************************************************************************)
(* What a comment or a test of the repository says of the parser, and what *)
(* the code does not do.  Each is refuted by a run of its own.             *)
(***************************************************************************)
EXTENDS TxFormat

(* transaction/deserialize.h:17: "@return PARSING_OK if success, error     *)
(* status otherwise".  A script or expiration that could not be read is    *)
(* no failure of transaction_deserialize.                                  *)
OkMeansEverythingWasRead == status = "PARSING_OK" => ignored = {}

(* tests/test_sign_cmd.py:87 has the device sign a transfer of nine        *)
(* arguments; interop_t has room for MAX_ARGS_LEN of them.                 *)
ArgumentsFitTheirArray == pc # "overrun"
=============================================================================
