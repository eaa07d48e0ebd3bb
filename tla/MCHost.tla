------------------------------- MODULE MCHost -------------------------------
(***************************************************************************)
(* An instance of Host.  Sizes are scaled by 128: a full message of 255    *)
(* bytes is 2, a response holds one of them (258 bytes), raw_tx four       *)
(* (1020 bytes).                                                           *)
(***************************************************************************)
EXTENDS Host

MCPaths     == {"path", "long"}
MCChunkSize == [c \in {"head", "more", "end", "custom"} |-> IF c \in {"head", "more"} THEN 2 ELSE 1]

MCDeserialize(raw) ==
  IF raw # <<>> /\ raw[1] = "head" /\ raw[Len(raw)] \in {"end", "custom"}
  THEN [status |-> 1, type |-> IF raw[Len(raw)] = "custom" THEN "CUSTOM" ELSE "TRANSFER"]
  ELSE [status |-> 3841, type |-> "TRANSFER"]

(* Empty, incomplete, of one to five messages.                             *)
MCTransactions ==
  {<<>>, <<"end">>, <<"head", "end">>, <<"head", "custom">>, <<"head", "more", "end">>,
   <<"head", "more", "more", "end">>, <<"head", "more", "more", "more", "end">>}

MCCallKinds == {"get_version", "get_app_name", "get_public_key",
                "get_public_key_with_confirmation", "sign_tx"}

MCCommands ==
  {Message([kind |-> kind, path |-> path, tx |-> tx, next |-> next]) :
     kind \in MCCallKinds, path \in MCPaths, tx \in MCTransactions \ {<<>>}, next \in 0 .. 5}
=============================================================================
