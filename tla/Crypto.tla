------------------------------- MODULE Crypto -------------------------------
(***************************************************************************)
(* The key of a BIP32 path and what is done with it: crypto.c and its three*)
(* callers, handler_get_public_key, the menu page with the address of the  *)
(* application, and crypto_sign_message.                                   *)
(*                                                                         *)
(* Every call into the cryptographic library may fail; what the callers do *)
(* about it differs.  An action is one such call with the code up to the   *)
(* next: pc is the call that is due.  A secret, a key or a signature is    *)
(* named by the path it belongs to.  The library and the exceptions of the *)
(* SDK (TRY, FINALLY) are external: an initialized private key is needed to*)
(* sign, generate_pair sets up the public key by itself.                   *)
(***************************************************************************)
EXTENDS Naturals

CONSTANTS
  Paths,          \* BIP32 paths the commands carry
  MenuPath,       \* the fixed path of handler_get_public_key_menu
  Zero,           \* memory that is zero: no path, no secret, no key
  MayReturn       \* the results each library call may have

KeyPaths == Paths \cup {MenuPath}

(* The results the code tests for, and returns an error of its own.        *)
GeneralErrors == {"CX_EC_INVALID_CURVE", "CX_NOT_UNLOCKED", "CX_INVALID_PARAMETER_SIZE",
                  "CX_NOT_LOCKED", "CX_INVALID_PARAMETER", "CX_EC_INFINITE_POINT"}
Tested ==
  [derive           |-> {"CX_INTERNAL_ERROR"},
   init_private_key |-> {"CX_EC_INVALID_CURVE", "CX_INVALID_PARAMETER"},
   init_public_key  |-> {"CX_EC_INVALID_CURVE", "INVALID_PARAMETER"},
   generate_pair    |-> GeneralErrors \cup {"CX_INTERNAL_ERROR", "CX_EC_INVALID_POINT"},
   compress         |-> GeneralErrors,
   sign             |-> GeneralErrors \cup {"CX_INTERNAL_ERROR"}]
Calls == DOMAIN Tested

(* INVALID_PARAMETER is not CX_INVALID_PARAMETER: of this call alone an    *)
(* error goes unnoticed (crypto.c:73).                                     *)
ASSUME PathsAssumption == Zero \notin KeyPaths
ASSUME ResultsAssumption ==
  MayReturn \in [Calls -> SUBSET (UNION {Tested[c] : c \in Calls} \cup {"CX_OK"})]
ASSUME TestedAssumption ==
  \A c \in Calls \ {"init_public_key"} : MayReturn[c] \subseteq Tested[c] \cup {"CX_OK"}

VARIABLES
  pc,        \* the library call that is due, or "idle"
  caller,    \* whose call it is: "command", "menu" or "signing"
  path,      \* G_context.bip32_path
  pk,        \* G_context.pk_info.raw_public_key
  key,       \* the caller's private_key
  pub,       \* the caller's public_key
  seed,      \* raw_private_key of crypto_derive_private_key
  try,       \* the exception context of the SDK: that of the SDK's "main",
             \* of this "frame", or of a frame that is gone ("dead")
  outer,     \* what BEGIN_TRY saved of it
  left,      \* secrets left in frames that are gone
  outcome,   \* the last reply, or the address on the menu page
  failed,    \* history: a tested call of this operation failed
  refused    \* history: the calls inside TRY that ever failed, and of what

vars == <<pc, caller, path, pk, key, pub, seed, try, outer, left, outcome, failed, refused>>

-----------------------------------------------------------------------------
NoKey         == [of |-> Zero, form |-> "none"]
PublicKey     == [of : KeyPaths \cup {Zero}, form : {"none", "point", "compressed"}]
Outcome(k, p) == [kind |-> k, key |-> p]
Nothing       == Outcome("nothing", NoKey)

Fails(call, code) == code \in Tested[call]

(* handler_get_public_key and ui_menu_pubkey, build_first_page: the context*)
(* is zeroed, the path read (module Device has the paths it refuses).      *)
Enter(who) ==
  /\ pc = "idle"
  /\ pc' = "derive" /\ caller' = who
  /\ key' = Zero /\ pub' = NoKey
  /\ outcome' = Nothing /\ failed' = FALSE
  /\ UNCHANGED <<seed, try, outer, left, refused>>

GetPublicKey(p) ==
  /\ Enter("command")
  /\ path' = p /\ pk' = NoKey

MenuPubkeyInDirtyContext ==                                    \* deviation
  /\ Enter("menu")
  /\ path' = MenuPath
  /\ UNCHANGED pk

MenuPubkey ==
  /\ Enter("menu")
  /\ path' = MenuPath /\ pk' = NoKey

(* handler_sign_tx, chunk 0, and later crypto_sign_message.                *)
Upload(p) ==
  /\ pc = "idle"
  /\ path' = p /\ pk' = NoKey
  /\ outcome' = Nothing
  /\ UNCHANGED <<pc, caller, key, pub, seed, try, outer, left, failed, refused>>

SignAnything ==                                                \* deviation
  /\ Enter("signing")
  /\ UNCHANGED <<path, pk>>

SignTransaction ==
  /\ path \in Paths
  /\ Enter("signing")
  /\ UNCHANGED <<path, pk>>

(* Where the caller goes on, and where it ends.                            *)
Idle(result) ==
  /\ pc' = "idle"
  /\ outcome' = result

AbortKeepingKey(result) == Idle(result) /\ UNCHANGED key       \* deviation

Abort(result) ==          \* explicit_bzero(&private_key)
  /\ Idle(result)
  /\ key' = Zero

(* The menu ignores that handler_get_public_key_menu failed.               *)
GiveUp(reply) ==
  /\ failed' = TRUE
  /\ Abort(IF caller = "menu" THEN Outcome("menu", pk) ELSE Outcome(reply, NoKey))

-----------------------------------------------------------------------------
(* crypto_derive_private_key.                                              *)
(* A return from inside TRY: neither FINALLY nor END_TRY is reached.       *)
LeaveThroughFinally(call) ==                                   \* deviation
  /\ try' = outer
  /\ seed' = Zero
  /\ refused' = refused \cup {<<call, path>>}
  /\ UNCHANGED left

LeaveTry(call) ==
  /\ try' = "dead"
  /\ left' = (IF seed = Zero THEN left ELSE left \cup {seed})
  /\ seed' = Zero
  /\ refused' = refused \cup {<<call, path>>}

(* crypto_sign_message goes on whatever this function returns.             *)
DerivationFails(call) ==
  /\ LeaveTry(call)
  /\ IF caller = "signing"
     THEN /\ pc' = "sign"
          /\ failed' = TRUE
          /\ UNCHANGED <<key, outcome>>
     ELSE GiveUp("SW_DENY")

Derive ==
  /\ pc = "derive"
  /\ outer' = try
  /\ UNCHANGED <<caller, path, pk, pub>>
  /\ \E code \in MayReturn["derive"] :
       \/ /\ Fails("derive", code)
          /\ DerivationFails("derive")
       \/ /\ ~Fails("derive", code)
          /\ try' = "frame"
          /\ seed' = path
          /\ pc' = "init_private_key"
          /\ UNCHANGED <<key, left, outcome, failed, refused>>

InitPrivateKey ==
  /\ pc = "init_private_key"
  /\ UNCHANGED <<caller, path, pk, pub, outer>>
  /\ \E code \in MayReturn["init_private_key"] :
       \/ /\ Fails("init_private_key", code)
          /\ DerivationFails("init_private_key")
       \/ /\ ~Fails("init_private_key", code)
          /\ key' = seed
          /\ seed' = Zero /\ try' = outer        \* FINALLY, END_TRY
          /\ pc' = (IF caller = "signing" THEN "sign" ELSE "init_public_key")
          /\ UNCHANGED <<left, outcome, failed, refused>>

-----------------------------------------------------------------------------
(* crypto_init_public_key.                                                 *)
InFrame == UNCHANGED <<caller, path, seed, try, outer, left, refused>>

PublicKeyStep(call, made, next) ==
  /\ pc = call
  /\ InFrame
  /\ UNCHANGED pk
  /\ \E code \in MayReturn[call] :
       \/ /\ Fails(call, code)
          /\ GiveUp("SW_DISPLAY_ADDRESS_FAIL")
          /\ UNCHANGED pub
       \/ /\ ~Fails(call, code)
          /\ pub' = made
          /\ pc' = next
          /\ UNCHANGED <<key, outcome, failed>>

InitPublicKey == PublicKeyStep("init_public_key", NoKey, "generate_pair")
GeneratePair  ==
  PublicKeyStep("generate_pair", [of |-> key, form |-> "point"], "compress")

(* Deviation: the compression is not tested.                               *)
CompressUntested ==
  /\ pc = "compress"
  /\ InFrame
  /\ \E code \in MayReturn["compress"] :
       /\ pub' = [pub EXCEPT !.form = IF code = "CX_OK" THEN "compressed" ELSE "point"]
       /\ failed' = (code # "CX_OK")
  /\ pk' = pub'
  /\ Abort(Outcome(IF caller = "menu" THEN "menu" ELSE "pubkey", pk'))

(* Compressed, copied into the context, answered or displayed.             *)
Compress ==
  /\ pc = "compress"
  /\ InFrame
  /\ \E code \in MayReturn["compress"] :
       \/ /\ Fails("compress", code)
          /\ GiveUp("SW_DISPLAY_ADDRESS_FAIL")
          /\ UNCHANGED <<pk, pub>>
       \/ /\ ~Fails("compress", code)
          /\ pub' = [pub EXCEPT !.form = "compressed"]
          /\ pk' = pub'
          /\ Abort(Outcome(IF caller = "menu" THEN "menu" ELSE "pubkey", pk'))
          /\ UNCHANGED failed

(* cx_eddsa_sign_no_throw and validate_transaction's reply.  A key that was*)
(* not initialized names no curve.                                         *)
Sign ==
  /\ pc = "sign"
  /\ InFrame
  /\ UNCHANGED <<pk, pub>>
  /\ \E code \in MayReturn["sign"] :
       \/ /\ code = "CX_OK"
          /\ key # Zero
          /\ Abort(Outcome("signature", [of |-> key, form |-> "none"]))
          /\ UNCHANGED failed
       \/ /\ code # "CX_OK"
          /\ Abort(Outcome("SW_SIGNATURE_FAIL", NoKey))
          /\ failed' = TRUE

-----------------------------------------------------------------------------
Init ==
  /\ pc = "idle" /\ caller = "command"
  /\ path = Zero /\ pk = NoKey
  /\ key = Zero /\ pub = NoKey /\ seed = Zero
  /\ try = "main" /\ outer = "main" /\ left = {}
  /\ outcome = Nothing /\ failed = FALSE /\ refused = {}

Next ==
  \/ \E p \in Paths : GetPublicKey(p) \/ Upload(p)
  \/ MenuPubkey \/ SignTransaction
  \/ Derive \/ InitPrivateKey
  \/ InitPublicKey \/ GeneratePair \/ Compress
  \/ Sign

Spec == Init /\ [][Next]_vars

-----------------------------------------------------------------------------
(* Type invariant.                                                         *)
CryptoTypeOK ==
  /\ pc \in Calls \cup {"idle"}
  /\ caller \in {"command", "menu", "signing"}
  /\ path \in KeyPaths \cup {Zero} /\ key \in KeyPaths \cup {Zero} /\ seed \in KeyPaths \cup {Zero}
  /\ pk \in PublicKey /\ pub \in PublicKey
  /\ try \in {"main", "frame", "dead"} /\ outer \in {"main", "dead"}
  /\ left \subseteq KeyPaths
  /\ outcome \in [kind : {"nothing", "menu", "pubkey", "signature", "SW_DENY",
                          "SW_DISPLAY_ADDRESS_FAIL", "SW_SIGNATURE_FAIL"},
                  key : PublicKey]
  /\ failed \in BOOLEAN
  /\ refused \subseteq {"derive", "init_private_key"} \X KeyPaths

(* Whatever fails, no private key and no seed outlives the operation that  *)
(* derived it (explicit_bzero, FINALLY), with one exception: a seed of     *)
(* which no private key could be made stays in its frame, since the return *)
(* at crypto.c:51 and 52 is inside TRY.                                    *)
SecretsAreErased ==
  /\ pc = "idle" => key = Zero /\ seed = Zero
  /\ \A p \in KeyPaths : p \in left <=> <<"init_private_key", p>> \in refused

(* A public key or a signature that is sent is that of the path requested, *)
(* and none is sent when a step failed: not after a derivation whose result*)
(* crypto_sign_message ignores (crypto.c:106), and a public key is right   *)
(* also when the error of crypto.c:73 goes unnoticed.                      *)
AnswerIsOfRequestedKey ==
  /\ outcome.kind = "pubkey"    => outcome.key = [of |-> path, form |-> "compressed"]
  /\ outcome.kind = "signature" => outcome.key.of = path
  /\ outcome.kind \in {"pubkey", "signature"} => path \in Paths /\ ~failed

(* The menu page never shows an address of another path: when a step fails *)
(* it shows that of the zero key, not one left over from a command         *)
(* (menu_bagl.c:84, menu_nbgl.c:74).                                       *)
MenuShowsNoOtherKey ==
  outcome.kind = "menu" =>
    outcome.key = IF failed THEN NoKey ELSE [of |-> MenuPath, form |-> "compressed"]

(* Between two operations the exception context is the one of the SDK's    *)
(* main, until a call inside TRY fails: from then on it is that of a frame *)
(* that is gone, and no later success repairs it.                          *)
ContextIsLostForGood ==
  pc # "init_private_key" => try = IF refused = {} THEN "main" ELSE "dead"
=============================================================================
